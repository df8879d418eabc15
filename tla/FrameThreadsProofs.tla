------------------------- MODULE FrameThreadsProofs -------------------------
(***************************************************************************)
(* Theorems about FrameThreads, for any number of threads, any kinds of    *)
(* hwaccel and any number of packets and incidents.                        *)
(***************************************************************************)
EXTENDS FrameThreads, TLAPS

ThreadPlaces ==
    {"wait", "lock_hwaccel", "decode", "await", "lock_setup", "lock_async",
     "publish", "release", "unlock", "ready", "gone"}
UserPlaces ==
    {"user", "loop", "previous", "collect", "failed", "flush", "free", "kill",
     "join", "freed"}

\* The numbers of packets count without a bound here.
Thread ==
    [pc : ThreadPlaces, state : {"ready", "setup", "finished"}, hw : Kinds,
     threadsafe : BOOLEAN, ended : BOOLEAN, die : BOOLEAN, pkt : Nat, eof : BOOLEAN,
     ctx : Nat, df : 0..1, result : Results]

FrameContext ==
    [next_decoding : P, next_finished : P, prev : P \cup {Nobody}, stash : Kinds,
     pkt : Nat, df : 0..1, result : Results]
UserThread ==
    [pc : UserPlaces, input : BOOLEAN, draining : BOOLEAN, ended : BOOLEAN,
     sent : Nat, p : Nat, hw : Kinds, ctx : Nat]

Types ==
    /\ codec \in [hwaccel : Kinds, utc : BOOLEAN, delay : BOOLEAN]
    /\ codec.hwaccel # "none" => codec.utc
    /\ th \in [P -> Thread]
    /\ fctx \in FrameContext
    /\ async_lock \in P \cup {User, Nobody}
    /\ hwaccel_mutex \in P \cup {Nobody}
    /\ user \in UserThread
    /\ setup_of \in Nat /\ lost \in BOOLEAN

-----------------------------------------------------------------------------
(* The order of the packets.                                               *)

\* The threads from next_finished on have one packet each that is not collected
\* yet, in the order they were sent; the rest have nothing left to give.
Ahead(p) == IF p >= fctx.next_finished THEN p - fctx.next_finished
            ELSE p - fctx.next_finished + N
InFlight == user.sent - fctx.pkt
Busy(p) == Ahead(p) < InFlight

Turn ==
    /\ InFlight \in 0..N
    /\ user.pc = "collect" => InFlight > 0
    /\ user.pc # "collect" => InFlight < N
    /\ fctx.next_decoding = IF fctx.next_finished + InFlight >= N
                            THEN fctx.next_finished + InFlight - N
                            ELSE fctx.next_finished + InFlight
    /\ user.pc \in {"previous", "collect"} => fctx.df = 0 /\ fctx.result = "ok"

Packets ==
    \A p \in P :
        /\ Busy(p) => th[p].pkt = fctx.pkt + 1 + Ahead(p)
        /\ ~Busy(p) => /\ th[p].pkt <= fctx.pkt
                       /\ th[p].state = "ready" /\ th[p].df = 0 /\ th[p].result = "ok"

\* Once the end is reached, all that is still to come are empty packets.
EndComing ==
    /\ \A p \in P : Busy(p) /\ th[p].eof =>
          /\ Empty
          /\ \A r \in P : Busy(r) /\ Ahead(p) <= Ahead(r) => th[r].eof
    /\ \A p \in P : th[p].result = "eof" => th[p].eof
    /\ fctx.result = "eof" => Empty /\ \A p \in P : Busy(p) => th[p].eof

-----------------------------------------------------------------------------
(* Setups follow one another.                                              *)

Places ==
    \A p \in P :
        /\ th[p].state = "ready" => th[p].pc \in {"wait", "gone"}
        /\ th[p].pc = "wait" => th[p].state # "finished"
        /\ th[p].pc \in {"lock_hwaccel", "lock_setup", "lock_async", "publish"} =>
              th[p].state = "setup"

OneSetup == \A p \in P : th[p].state = "setup" => fctx.prev = p

\* The thread whose context the next one starts from has that of the last header.
Context ==
    /\ fctx.prev = Nobody => fctx.next_decoding = 0
    /\ codec.utc /\ ~lost =>
          /\ fctx.prev = Nobody => th[0].ctx = setup_of
          /\ \A p \in P : fctx.prev = p /\ (~th[p].eof \/ codec.delay) =>
                th[p].ctx = setup_of
    /\ \A p \in P : fctx.prev = p /\ th[p].eof => Empty
    /\ \A p \in P : th[p].ctx <= user.sent
    /\ \A p \in P : Busy(p) => th[p].ctx <= th[p].pkt
    /\ user.ctx <= fctx.pkt

-----------------------------------------------------------------------------
(* The hwaccel and its locks.                                              *)

\* A record that has the thread-safe hwaccel says so; after a copy that failed
\* it may say so without having it.
SafeKind(t) ==
    /\ t.hw = "safe" => t.threadsafe
    /\ t.threadsafe => codec.hwaccel = "safe"

\* One codec has one kind of hwaccel.
OneKind ==
    /\ \A p \in P : th[p].hw \in {"none", codec.hwaccel}
    /\ user.pc \notin {"kill", "join", "freed"} =>
          /\ user.hw = "none"
          /\ \A p \in P : SafeKind(th[p])
    /\ user.pc # "freed" => user.hw = "none"
    /\ fctx.stash \in {"none", codec.hwaccel} /\ fctx.stash # "safe"
    /\ hwaccel_mutex # Nobody => Serial(codec.hwaccel)

\* The stash is empty from the submission of a packet until its thread fills it.
Stash == (\E p \in P : th[p].state = "setup") => fctx.stash = "none"

\* What thread p, with the record t, owns of the two locks.
Owns(t, p, mutex, lock) ==
    /\ t.pc \in {"lock_hwaccel", "lock_setup"} => Serial(t.hw)
    /\ t.pc \in {"decode", "await", "lock_async", "publish"} /\ Serial(t.hw) => mutex = p
    /\ t.pc \in {"decode", "await"} /\ t.state = "finished" /\ AsyncUnsafe(t.hw) => lock = p
    /\ t.pc = "publish" /\ AsyncUnsafe(t.hw) => lock = p
    /\ t.pc \in {"unlock", "ready"} \/ t.state = "ready" => ~Serial(t.hw)
    /\ t.pc = "release" => mutex = p
    /\ t.pc = "unlock" => lock = p

Locks ==
    /\ user.pc = "user" => async_lock = User
    /\ \A p \in P : Owns(th[p], p, hwaccel_mutex, async_lock)

IInv ==
    /\ Types /\ Turn /\ Packets /\ EndComing
    /\ Places /\ OneSetup /\ Context
    /\ OneKind /\ Stash /\ Locks

-----------------------------------------------------------------------------
LEMMA NextThread ==
    ASSUME NEW p \in P
    PROVE  /\ (p + 1) % N = IF p + 1 = N THEN 0 ELSE p + 1
           /\ (p + 1) % N \in P
BY SizesAssumption DEF P

\* A decoder thread changes its own record only, and never which packet it has.
WorkerKeeps(p) ==
    /\ UNCHANGED <<codec, user>>
    /\ th' \in [P -> Thread]
    /\ \A r \in P : r # p => th'[r] = th[r]
    /\ th'[p].pkt = th[p].pkt /\ th'[p].eof = th[p].eof
    /\ fctx' \in {fctx, [fctx EXCEPT !.stash = th[p].hw]}

\* What becomes of the record of a thread.
LEMMA Replaced ==
    ASSUME Types, NEW p \in P, NEW t \in Thread, th' = [th EXCEPT ![p] = t],
           t.pkt = th[p].pkt, t.eof = th[p].eof, UNCHANGED <<codec, user>>,
           fctx' \in {fctx, [fctx EXCEPT !.stash = th[p].hw]}
    PROVE  WorkerKeeps(p)
BY DEF Types, WorkerKeeps

LEMMA WorkerStep ==
    ASSUME Types, NEW p \in P, Worker(p)
    PROVE  WorkerKeeps(p)
<1> DEFINE s == th[p]
<1>1. s \in Thread /\ th \in [P -> Thread] /\ codec.hwaccel \in Kinds
  BY DEF Types
<1> HIDE DEF s
<1>2. CASE Wake(p) \/ LockHwaccel(p) \/ Await(p) \/ Unlock(p) \/ LockInSetup(p) \/ AsyncLock(p)
  <2>1. PICK x \in ThreadPlaces : th' = [th EXCEPT ![p].pc = x]
    BY <1>2 DEF Wake, StartOf, LockHwaccel, Await, Unlock, LockInSetup, AsyncLock, To, ThreadPlaces
  <2> DEFINE t == [s EXCEPT !.pc = x]
  <2>2. t \in Thread /\ t.pkt = s.pkt /\ t.eof = s.eof
    BY <1>1 DEF Thread
  <2>3. th' = [th EXCEPT ![p] = t]
    BY <1>1, <2>1 DEF s
  <2> QED
    BY <1>2, <2>2, <2>3, Replaced DEF s, Wake, LockHwaccel, Await, Unlock, LockInSetup, AsyncLock
<1>3. CASE AllocFails(p)
  <2> DEFINE t == [s EXCEPT !.pc = ReleaseOf(p), !.result = "error"]
  <2>1. t \in Thread /\ t.pkt = s.pkt /\ t.eof = s.eof
    BY <1>1 DEF Thread, ReleaseOf, ThreadPlaces, Results
  <2>2. th' = [th EXCEPT ![p] = t]
    BY <1>1, <1>3 DEF AllocFails, s
  <2> QED
    BY <1>3, <2>1, <2>2, Replaced DEF s, AllocFails
<1>4. CASE ReadHeader(p)
  <2>1. PICK h \in Kinds : th' = [th EXCEPT ![p] = [FinishSetup(@, p, h) EXCEPT !.ctx = th[p].pkt]]
    BY <1>1, <1>4 DEF ReadHeader, Kinds
  <2> DEFINE t == [FinishSetup(s, p, h) EXCEPT !.ctx = s.pkt]
  <2>2. t \in Thread /\ t.pkt = s.pkt /\ t.eof = s.eof
    BY <1>1 DEF Thread, FinishSetup, SetupOf, ThreadPlaces
  <2>3. th' = [th EXCEPT ![p] = t]
    BY <1>1, <2>1 DEF s
  <2> QED
    BY <1>4, <2>2, <2>3, Replaced DEF s, ReadHeader
<1>5. CASE Frame(p)
  <2>1. PICK one \in 0..1 : one = 1
    OBVIOUS
  <2> DEFINE t == [s EXCEPT !.pc = "decode", !.df = one]
  <2>2. t \in Thread /\ t.pkt = s.pkt /\ t.eof = s.eof
    <3> HIDE <2>1
    <3> QED
      BY <1>1 DEF Thread, ThreadPlaces
  <2>3. th' = [th EXCEPT ![p] = t]
    BY <1>1, <1>5, <2>1 DEF Frame, s
  <2> QED
    BY <1>5, <2>2, <2>3, Replaced DEF s, Frame
<1>6. CASE Ends(p)
  <2>1. PICK r \in Results :
          LET t == [th[p] EXCEPT !.result = r, !.ended = (th[p].state = "setup")] IN
          th' = [th EXCEPT ![p] = IF t.state = "setup" THEN FinishSetup(t, p, t.hw)
                                  ELSE [t EXCEPT !.pc = ReleaseOf(p)]]
    BY <1>6 DEF Ends, Ending, Results
  <2> DEFINE u == [s EXCEPT !.result = r, !.ended = (s.state = "setup")]
             t == IF u.state = "setup" THEN FinishSetup(u, p, u.hw)
                  ELSE [u EXCEPT !.pc = ReleaseOf(p)]
  <2>2. u \in Thread /\ u.pkt = s.pkt /\ u.eof = s.eof
    BY <1>1 DEF Thread
  <2>3. th' = [th EXCEPT ![p] = t]
    BY <1>1, <2>1 DEF s
  <2> HIDE DEF u
  <2>4. t \in Thread /\ t.pkt = s.pkt /\ t.eof = s.eof
    BY <2>2 DEF Thread, FinishSetup, SetupOf, ReleaseOf, ThreadPlaces
  <2> QED
    BY <1>6, <2>3, <2>4, Replaced DEF s, Ends
<1>7. CASE Release(p)
  <2> DEFINE t == [s EXCEPT !.hw = "none", !.pc = IF async_lock = p THEN "unlock" ELSE "ready"]
  <2>1. t \in Thread /\ t.pkt = s.pkt /\ t.eof = s.eof
    BY <1>1 DEF Thread, ThreadPlaces, Kinds
  <2>2. th' = [th EXCEPT ![p] = t]
    BY <1>1, <1>7 DEF Release, s
  <2> QED
    BY <1>7, <2>1, <2>2, Replaced DEF s, Release
<1>8. CASE Ready(p)
  <2> DEFINE t == [s EXCEPT !.pc = "wait", !.state = "ready"]
  <2>1. t \in Thread /\ t.pkt = s.pkt /\ t.eof = s.eof
    BY <1>1 DEF Thread, ThreadPlaces
  <2>2. th' = [th EXCEPT ![p] = t]
    BY <1>1, <1>8 DEF Ready, s
  <2> QED
    BY <1>8, <2>1, <2>2, Replaced DEF s, Ready
<1>9. CASE Publish(p)
  <2> DEFINE t == [s EXCEPT !.state = "finished", !.ended = FALSE,
                            !.pc = IF s.ended THEN ReleaseOf(p) ELSE "decode"]
  <2>1. t \in Thread /\ t.pkt = s.pkt /\ t.eof = s.eof
    BY <1>1 DEF Thread, ThreadPlaces, ReleaseOf
  <2>2. th' = [th EXCEPT ![p] = t]
    BY <1>1, <1>9 DEF Publish, s
  <2>3. fctx' \in {fctx, [fctx EXCEPT !.stash = th[p].hw]}
    BY <1>9 DEF Publish, Types, FrameContext
  <2> QED
    BY <1>9, <2>1, <2>2, <2>3, Replaced DEF s, Publish
<1> QED
  BY <1>2, <1>3, <1>4, <1>5, <1>6, <1>7, <1>8, <1>9 DEF Worker

LEMMA WorkerTypes ==
    ASSUME Types, NEW p \in P, Worker(p)
    PROVE  Types'
<1>1. WorkerKeeps(p)
  BY WorkerStep
<1>2. hwaccel_mutex' \in {hwaccel_mutex, p, Nobody} /\ async_lock' \in {async_lock, p, Nobody}
  BY DEF Worker, Wake, LockHwaccel, AllocFails, ReadHeader, Await, Frame,
         Ends, Release, Unlock, Ready, LockInSetup, AsyncLock, Publish, locks
<1>4. setup_of' \in {setup_of, th[p].pkt} /\ lost' \in {lost, FALSE}
  BY DEF Worker, Wake, LockHwaccel, AllocFails, ReadHeader, Await, Frame,
         Ends, Release, Unlock, Ready, LockInSetup, AsyncLock, Publish, history
<1>5. setup_of' \in Nat /\ lost' \in BOOLEAN
  <2>1. setup_of' \in Nat
    BY <1>4 DEF Types, Thread
  <2>2. lost' \in BOOLEAN
    <3>1. lost \in BOOLEAN
      BY DEF Types
    <3> QED
      BY <1>4, <3>1, Zenon
  <2> QED
    BY <2>1, <2>2
<1>6. hwaccel_mutex' \in P \cup {Nobody} /\ async_lock' \in P \cup {User, Nobody}
  <2>1. hwaccel_mutex \in P \cup {Nobody} /\ async_lock \in P \cup {User, Nobody}
    BY DEF Types
  <2>2. hwaccel_mutex' \in P \cup {Nobody}
    BY <1>2, <2>1
  <2>3. async_lock' \in P \cup {User, Nobody}
    BY <1>2, <2>1
  <2> QED
    BY <2>2, <2>3
<1>3. fctx' \in FrameContext
  BY <1>1 DEF WorkerKeeps, Types, Thread, FrameContext
<1> QED
  BY <1>1, <1>3, <1>5, <1>6 DEF Types, WorkerKeeps

LEMMA UpdatedThread ==
    ASSUME NEW d \in Thread, NEW s \in Thread
    PROVE  /\ Updated(d, s) \in Thread
           /\ Updated(d, s).ctx = IF codec.utc THEN s.ctx ELSE d.ctx
           /\ Updated(d, s).threadsafe = s.threadsafe
           /\ Updated(d, s).hw = IF s.threadsafe THEN s.hw
                                 ELSE IF d.threadsafe THEN "none" ELSE d.hw
           /\ Updated(d, s).pc = d.pc /\ Updated(d, s).state = d.state
           /\ Updated(d, s).pkt = d.pkt /\ Updated(d, s).eof = d.eof
           /\ Updated(d, s).df = d.df /\ Updated(d, s).result = d.result
           /\ Updated(d, s).ended = d.ended
BY DEF Updated, Thread, Kinds

\* What a copy that fails leaves of the record d, when it copies from s.
FailedCopy(c, d, s) ==
    /\ c.pc = d.pc /\ c.state = d.state /\ c.pkt = d.pkt /\ c.eof = d.eof
    /\ c.df = d.df /\ c.result = d.result /\ c.ended = d.ended
    /\ c.ctx \in {d.ctx, s.ctx}
    /\ \/ c.hw = d.hw /\ c.threadsafe = d.threadsafe
       \/ c.hw = "none" /\ (c.threadsafe => d.threadsafe)

LEMMA FailedThread ==
    ASSUME NEW d \in Thread, NEW s \in Thread, NEW c \in FailedCopies(d, s)
    PROVE  c \in Thread /\ FailedCopy(c, d, s) /\ codec.utc
<1> DEFINE wiped == d.threadsafe /\ d.hw = s.hw
<1>1. wiped \in BOOLEAN /\ (wiped => d.threadsafe)
  BY DEF Thread
<1>2. /\ codec.utc
      /\ \/ c = d
         \/ c = [d EXCEPT !.ctx = s.ctx]
         \/ c = [d EXCEPT !.ctx = s.ctx, !.hw = "none", !.threadsafe = wiped]
  BY DEF FailedCopies, Thread
<1> HIDE DEF wiped
<1>3. s.ctx \in Nat /\ "none" \in Kinds
  BY DEF Thread, Kinds
<1>4. CASE c = d
  BY <1>2, <1>4 DEF FailedCopy
<1>5. CASE c = [d EXCEPT !.ctx = s.ctx]
  BY <1>2, <1>3, <1>5 DEF FailedCopy, Thread
<1>6. CASE c = [d EXCEPT !.ctx = s.ctx, !.hw = "none", !.threadsafe = wiped]
  BY <1>1, <1>2, <1>3, <1>6 DEF FailedCopy, Thread
<1> QED
  BY <1>2, <1>4, <1>5, <1>6

\* What a submission makes of the next thread, with the context t it has got.
Submitted(t) ==
    [t EXCEPT !.state = "setup", !.pkt = user.sent + 1, !.eof = Empty,
              !.hw = IF t.threadsafe THEN @ ELSE fctx.stash]

LEMMA SubmittedThread ==
    ASSUME Types, NEW t \in Thread
    PROVE  /\ Submitted(t) \in Thread
           /\ Submitted(t).pc = t.pc /\ Submitted(t).state = "setup"
           /\ Submitted(t).pkt = user.sent + 1 /\ Submitted(t).eof = Empty
           /\ Submitted(t).hw = IF t.threadsafe THEN t.hw ELSE fctx.stash
           /\ Submitted(t).threadsafe = t.threadsafe /\ Submitted(t).ctx = t.ctx
           /\ Submitted(t).df = t.df /\ Submitted(t).result = t.result
           /\ Submitted(t).ended = t.ended
<1>1. user.sent + 1 \in Nat /\ Empty \in BOOLEAN /\ fctx.stash \in Kinds
  BY DEF Types, UserThread, FrameContext, Empty
<1> QED
  BY <1>1 DEF Submitted, Thread

\* The context of the thread before is copied into that of the next one ...
Copies == fctx.prev # Nobody /\ (~Empty \/ codec.delay)

\* ... which then is t.
Inherited(t) ==
    LET d == th[fctx.next_decoding] IN
    /\ t.pc = d.pc /\ t.state = d.state /\ t.pkt = d.pkt /\ t.eof = d.eof
    /\ t.df = d.df /\ t.result = d.result /\ t.ended = d.ended
    /\ t.ctx = IF Copies /\ codec.utc THEN th[fctx.prev].ctx ELSE d.ctx
    /\ \/ t.hw = d.hw /\ t.threadsafe = d.threadsafe
       \/ /\ fctx.prev \in P
          /\ t.threadsafe = th[fctx.prev].threadsafe
          /\ t.hw = IF t.threadsafe THEN th[fctx.prev].hw
                    ELSE IF d.threadsafe THEN "none" ELSE d.hw

Submits(t) ==
    LET p == fctx.next_decoding
        next == (p + 1) % N
    IN  /\ th' = [th EXCEPT ![p] = Submitted(t)]
        /\ user' = [user EXCEPT !.pc = AfterSubmit(next), !.input = FALSE, !.sent = @ + 1]
        /\ fctx' = [fctx EXCEPT !.prev = p, !.next_decoding = next,
                                !.stash = IF t.threadsafe THEN @ ELSE t.hw]

CopyFails(t) ==
    /\ fctx.prev \in P /\ FailedCopy(t, th[fctx.next_decoding], th[fctx.prev])
    /\ th' = [th EXCEPT ![fctx.next_decoding] = t]
    /\ user' = [user EXCEPT !.pc = "failed", !.input = FALSE]
    /\ UNCHANGED fctx

LEMMA PreviousStep ==
    ASSUME Types, Previous
    PROVE  /\ user.pc = "previous" /\ SetUpDone(fctx.prev)
           /\ UNCHANGED <<codec, locks, setup_of, lost>>
           /\ \E t \in Thread : (Inherited(t) /\ Submits(t)) \/ CopyFails(t)
<1> DEFINE p == fctx.next_decoding
           q == fctx.prev
           t == IF Copies THEN Updated(th[p], th[q]) ELSE th[p]
<1>1. p \in P /\ th[p] \in Thread /\ q \in P \cup {Nobody}
  BY DEF Types, FrameContext
<1>2. Copies => q \in P /\ th[q] \in Thread
  BY <1>1 DEF Copies, Types
<1>3. t \in Thread
  BY <1>1, <1>2, UpdatedThread
<1>4. Inherited(t)
  <2>1. CASE Copies
    <3> DEFINE u == Updated(th[p], th[q])
    <3>1. /\ u.pc = th[p].pc /\ u.state = th[p].state /\ u.pkt = th[p].pkt
          /\ u.eof = th[p].eof /\ u.df = th[p].df /\ u.result = th[p].result
          /\ u.ended = th[p].ended
          /\ u.ctx = IF codec.utc THEN th[q].ctx ELSE th[p].ctx
          /\ u.threadsafe = th[q].threadsafe
          /\ u.hw = IF th[q].threadsafe THEN th[q].hw
                    ELSE IF th[p].threadsafe THEN "none" ELSE th[p].hw
      BY <1>1, <1>2, <2>1, UpdatedThread
    <3>2. t = u
      BY <2>1
    <3> QED
      BY <1>2, <2>1, <3>1, <3>2, Zenon DEF Inherited
  <2>2. CASE ~Copies
    BY <2>2 DEF Inherited
  <2> QED
    BY <2>1, <2>2
<1>5. \/ Submits(t)
      \/ /\ Copies
         /\ user' = [user EXCEPT !.pc = "failed", !.input = FALSE]
         /\ \E c \in FailedCopies(th[p], th[q]) : th' = [th EXCEPT ![p] = c]
         /\ UNCHANGED fctx
  BY DEF Previous, Copies, Submits, Submitted
<1>6. ASSUME Copies, user' = [user EXCEPT !.pc = "failed", !.input = FALSE],
             NEW c \in FailedCopies(th[p], th[q]), th' = [th EXCEPT ![p] = c],
             UNCHANGED fctx
      PROVE  c \in Thread /\ CopyFails(c)
  BY <1>1, <1>2, <1>6, FailedThread DEF CopyFails
<1>7. user.pc = "previous" /\ SetUpDone(q) /\ UNCHANGED <<codec, locks, setup_of, lost>>
  BY DEF Previous, history
<1>8. \E c \in Thread : (Inherited(c) /\ Submits(c)) \/ CopyFails(c)
  <2>1. CASE Submits(t)
    BY <1>3, <1>4, <2>1
  <2>2. CASE ~Submits(t)
    BY <1>5, <1>6, <2>2
  <2> QED
    BY <2>1, <2>2
<1> QED
  BY <1>7, <1>8

LEMMA CallerTypes ==
    ASSUME Types, Receive \/ Submit \/ Return \/ Flush \/ Free \/ FreeParked \/ Freed
    PROVE  Types'
<1> USE SizesAssumption DEF Types
<1>1. /\ UNCHANGED <<codec, th, hwaccel_mutex, setup_of, lost>>
      /\ async_lock' \in {async_lock, User, Nobody}
  BY DEF Receive, Submit, Return, Flush, Free, Park, FreeParked, Parked, Freed, WorkersKeep, history
<1>2. user' \in UserThread
  <2>1. CASE Receive
    <3>1. \/ user' = [user EXCEPT !.pc = "loop", !.input = TRUE]
          \/ user' = [user EXCEPT !.pc = "loop", !.draining = TRUE]
          \/ user' = [user EXCEPT !.pc = "loop"]
      BY <2>1 DEF Receive, Goto
    <3>2. [user EXCEPT !.pc = "loop", !.input = TRUE] \in UserThread
      BY DEF UserThread, UserPlaces
    <3>3. [user EXCEPT !.pc = "loop", !.draining = TRUE] \in UserThread
      BY DEF UserThread, UserPlaces
    <3>4. [user EXCEPT !.pc = "loop"] \in UserThread
      BY DEF UserThread, UserPlaces
    <3> QED
      BY <3>1, <3>2, <3>3, <3>4
  <2>2. CASE Submit
    <3>1. user' = [user EXCEPT !.pc = "previous"] \/ user' = [user EXCEPT !.pc = "failed", !.input = FALSE]
      BY <2>2 DEF Submit, Goto
    <3> QED
      BY <3>1 DEF UserThread, UserPlaces
  <2>3. CASE Return
    <3>1. PICK e \in BOOLEAN : user' = [user EXCEPT !.pc = "user", !.ended = e]
      BY <2>3 DEF Return
    <3> QED
      BY <3>1 DEF UserThread, UserPlaces
  <2>4. CASE Flush \/ Free \/ FreeParked
    BY <2>4 DEF Flush, Free, Park, FreeParked, Goto, UserThread, UserPlaces
  <2>5. CASE Freed
    <3>1. fctx.stash \in Kinds
      BY DEF FrameContext
    <3> QED
      BY <2>5, <3>1 DEF Freed, UserThread, UserPlaces
  <2> QED
    BY <2>1, <2>2, <2>3, <2>4, <2>5
<1>3. fctx' \in FrameContext
  <2>1. CASE Return
    <3>1. PICK f \in 0..1, r \in Results : fctx' = [fctx EXCEPT !.df = f, !.result = r]
      <4>1. fctx.df \in 0..1 /\ fctx.result \in Results
        BY DEF FrameContext
      <4>2. fctx.df > 0 => fctx.df - 1 \in 0..1
        BY <4>1
      <4>3. "ok" \in Results
        BY DEF Results
      <4> QED
        BY <2>1, <4>1, <4>2, <4>3 DEF Return
    <3> QED
      BY <3>1 DEF FrameContext
  <2>2. CASE Freed
    <3>1. user.hw \in Kinds
      BY DEF UserThread
    <3> QED
      BY <2>2, <3>1 DEF Freed, FrameContext
  <2>3. CASE fctx' = fctx
    BY <2>3
  <2> QED
    BY <2>1, <2>2, <2>3 DEF Receive, Submit, Flush, Free, Park, FreeParked
<1> QED
  BY <1>1, <1>2, <1>3, Zenon

LEMMA PreviousTypes ==
    ASSUME Types, Previous
    PROVE  Types'
<1>1. PICK t \in Thread : (Inherited(t) /\ Submits(t)) \/ CopyFails(t)
  BY PreviousStep
<1>2. UNCHANGED <<codec, async_lock, hwaccel_mutex, setup_of, lost>>
  BY PreviousStep DEF locks
<1> DEFINE p == fctx.next_decoding
<1>3. p \in P /\ (p + 1) % N \in P /\ fctx.stash \in Kinds /\ user.sent + 1 \in Nat
  BY NextThread DEF Types, FrameContext, UserThread
<1>4. CASE Inherited(t) /\ Submits(t)
  <2>1. Submitted(t) \in Thread
    BY SubmittedThread
  <2>2. th' \in [P -> Thread]
    BY <1>3, <1>4, <2>1 DEF Submits, Types
  <2>3. fctx' \in FrameContext
    BY <1>3, <1>4 DEF Submits, Types, FrameContext, Thread
  <2>4. user' \in UserThread
    BY <1>3, <1>4 DEF Submits, Types, UserThread, UserPlaces, AfterSubmit
  <2> QED
    BY <1>2, <2>2, <2>3, <2>4, Zenon DEF Types
<1>5. CASE CopyFails(t)
  <2>2. th' \in [P -> Thread]
    BY <1>3, <1>5 DEF CopyFails, Types
  <2>3. user' \in UserThread
    BY <1>5 DEF CopyFails, Types, UserThread, UserPlaces
  <2> QED
    BY <1>2, <1>5, <2>2, <2>3, Zenon DEF Types, CopyFails
<1> QED
  BY <1>1, <1>4, <1>5

LEMMA CollectTypes ==
    ASSUME Types, Collect
    PROVE  Types'
<1> DEFINE p == fctx.next_finished
<1>1. /\ p \in P /\ (p + 1) % N \in P /\ th[p] \in Thread
      /\ th[p].ctx \in Nat /\ th[p].pkt \in Nat /\ th[p].df \in 0..1 /\ th[p].result \in Results
  BY NextThread DEF Types, FrameContext, Thread
<1>2. 0 \in 0..1 /\ "ok" \in Results
  BY DEF Results
<1>3. th' \in [P -> Thread]
  <2> DEFINE t == [th[p] EXCEPT !.df = 0, !.result = "ok"]
  <2>1. t \in Thread
    BY <1>1, <1>2 DEF Thread
  <2>2. th' = [th EXCEPT ![p] = t]
    BY <1>1 DEF Collect, Types
  <2> QED
    BY <1>1, <2>1, <2>2 DEF Types
<1>4. fctx' \in FrameContext
  BY <1>1 DEF Collect, Types, FrameContext
<1>5. user' \in UserThread
  <2>1. \/ user' = [user EXCEPT !.pc = "loop", !.ctx = th[p].ctx]
        \/ user' = [user EXCEPT !.pc = "loop"]
    BY DEF Collect, Goto
  <2> QED
    BY <1>1, <2>1 DEF Types, UserThread, UserPlaces
<1> QED
  BY <1>3, <1>4, <1>5, Zenon DEF Types, Collect, locks, history

\* The record thread 0 has after a flush, before its results are dropped.
FlushedTo(t) ==
    /\ \/ fctx.prev \notin P \ {0} /\ t = th[0]
       \/ fctx.prev \in P /\ t = Updated(th[0], th[fctx.prev])
       \/ fctx.prev \in P /\ FailedCopy(t, th[0], th[fctx.prev]) /\ lost'
    /\ Flushed(t)

LEMMA FlushStep ==
    ASSUME Types, FlushParked
    PROVE  /\ \E t \in Thread : FlushedTo(t)
           /\ \A p \in P : th'[p] \in Thread /\ th'[p].pc = th[p].pc /\ th'[p].state = "ready"
                            /\ th'[p].pkt = th[p].pkt /\ th'[p].df = 0 /\ th'[p].result = "ok"
                            /\ th'[p].ended = th[p].ended
<1> DEFINE q == fctx.prev
           u == IF q \in P \ {0} THEN Updated(th[0], th[q]) ELSE th[0]
<1>1. 0 \in P /\ th \in [P -> Thread]
  BY SizesAssumption DEF Types, P
<1>2. PICK t \in Thread :
        /\ t.pc = th[0].pc /\ t.state = th[0].state /\ t.pkt = th[0].pkt /\ t.ended = th[0].ended
        /\ FlushedTo(t)
  <2>1. CASE Flushed(u)
    <3>1. /\ u \in Thread /\ u.pc = th[0].pc /\ u.state = th[0].state /\ u.pkt = th[0].pkt
          /\ u.ended = th[0].ended
      BY <1>1, UpdatedThread
    <3> QED
      BY <2>1, <3>1 DEF FlushedTo
  <2>2. CASE q \in P /\ lost' = TRUE /\ \E t \in FailedCopies(th[0], th[q]) : Flushed(t)
    <3>1. PICK t \in FailedCopies(th[0], th[q]) : Flushed(t)
      BY <2>2
    <3>2. t \in Thread /\ FailedCopy(t, th[0], th[q])
      BY <1>1, <2>2, FailedThread
    <3>3. FlushedTo(t)
      BY <2>2, <3>1, <3>2 DEF FlushedTo
    <3> QED
      BY <3>2, <3>3 DEF FailedCopy
  <2> QED
    BY <2>1, <2>2 DEF FlushParked
<1>4. \A p \in P : th[p].state = "ready"
  BY DEF FlushParked, Parked
<1>5. ASSUME NEW p \in P
      PROVE  /\ th'[p] \in Thread /\ th'[p].pc = th[p].pc /\ th'[p].state = "ready"
             /\ th'[p].pkt = th[p].pkt /\ th'[p].df = 0 /\ th'[p].result = "ok"
             /\ th'[p].ended = th[p].ended
  <2>1. PICK v \in Thread : /\ th'[p] = [v EXCEPT !.df = 0, !.result = "ok"]
                            /\ v.pc = th[p].pc /\ v.state = "ready" /\ v.pkt = th[p].pkt
                            /\ v.ended = th[p].ended
    BY <1>1, <1>2, <1>4 DEF FlushedTo, Flushed
  <2>2. PICK zero \in 0..1, ok \in Results : zero = 0 /\ ok = "ok"
    BY DEF Results
  <2>3. th'[p] = [v EXCEPT !.df = zero, !.result = ok]
    BY <2>1, <2>2
  <2>4. th'[p] \in Thread /\ th'[p].pc = v.pc /\ th'[p].state = v.state
        /\ th'[p].pkt = v.pkt /\ th'[p].df = zero /\ th'[p].result = ok
        /\ th'[p].ended = v.ended
    BY <2>3 DEF Thread
  <2> QED
    BY <2>1, <2>2, <2>4
<1> QED
  BY <1>2, <1>5

LEMMA FlushTypes ==
    ASSUME Types, FlushParked
    PROVE  Types'
<1>1. th' \in [P -> Thread]
  <2>1. \A p \in P : th'[p] \in Thread
    BY FlushStep
  <2>2. th' = [p \in P |-> th'[p]]
    BY FlushStep DEF FlushedTo, Flushed
  <2> QED
    BY <2>1, <2>2, Zenon
<1>2. 0 \in P /\ 0 \in Nat /\ 0 \in 0..1 /\ user.sent \in Nat
  BY SizesAssumption DEF P, Types, UserThread
<1>3. fctx' \in FrameContext
  BY <1>2 DEF FlushParked, Types, FrameContext, Results
<1>4. user' \in UserThread
  BY DEF FlushParked, Types, UserThread, UserPlaces
<1>5. lost' \in BOOLEAN
  BY DEF FlushParked, Types
<1> QED
  BY <1>1, <1>3, <1>4, <1>5, Zenon DEF FlushParked, Parked, Types

LEMMA KillTypes ==
    ASSUME Types, Kill \/ Join
    PROVE  Types'
<1>1. \/ th' = [th EXCEPT ![user.p].die = TRUE]
      \/ th' = [th EXCEPT ![user.p].hw = "none"]
  BY DEF Kill, Join
<1>2. th' \in [P -> Thread]
  <2>1. CASE user.p \in P
    <3>1. PICK t \in Thread : th' = [th EXCEPT ![user.p] = t]
      <4>1. th[user.p] \in Thread
        BY <2>1 DEF Types
      <4>2. [th[user.p] EXCEPT !.die = TRUE] \in Thread
        BY <4>1 DEF Thread
      <4>3. [th[user.p] EXCEPT !.hw = "none"] \in Thread
        BY <4>1 DEF Thread, Kinds
      <4> QED
        BY <1>1, <2>1, <4>2, <4>3 DEF Types
    <3> QED
      BY <2>1, <3>1 DEF Types
  <2>2. CASE user.p \notin P
    BY <1>1, <2>2 DEF Types
  <2> QED
    BY <2>1, <2>2
<1>3. user' \in UserThread
  <2>1. CASE Kill
    BY <2>1 DEF Kill, Goto, Types, UserThread, UserPlaces
  <2>2. CASE Join
    <3>1. user.p + 1 \in Nat /\ user \in UserThread
      BY DEF Types, UserThread
    <3> QED
      BY <2>2, <3>1 DEF Join, UserThread, UserPlaces
  <2> QED
    BY <2>1, <2>2
<1> QED
  BY <1>2, <1>3, Zenon DEF Types, Kill, Join, locks, history

LEMMA TypesStep == Types /\ [Next]_vars => Types'
<1>1. SUFFICES ASSUME Types, [Next]_vars PROVE Types'
  OBVIOUS
<1>2. CASE UNCHANGED vars
  BY <1>1, <1>2, Zenon DEF Types, vars, history
<1> QED
  BY <1>1, <1>2, WorkerTypes, CallerTypes, PreviousTypes, CollectTypes, FlushTypes, KillTypes
     DEF Next, UserSteps, Caller

\* What each action of a decoder thread makes of its record.
Moves(s, t, pc) == t.pc = pc /\ t.state = s.state /\ t.hw = s.hw /\ t.threadsafe = s.threadsafe
Keeps(s, t) == t.df = s.df /\ t.result = s.result /\ t.ctx = s.ctx

LEMMA WorkerEffects ==
    ASSUME Types, NEW p \in P
    PROVE  LET s == th[p]
               t == th'[p]
           IN  /\ Wake(p) => /\ Moves(s, t, IF s.die THEN "gone" ELSE StartOf(s)) /\ Keeps(s, t)
               /\ LockHwaccel(p) => Moves(s, t, "decode") /\ Keeps(s, t)
               /\ AllocFails(p) => /\ Moves(s, t, ReleaseOf(p))
                                   /\ t.df = s.df /\ t.result = "error" /\ t.ctx = s.ctx
               /\ ReadHeader(p) => /\ t.state = s.state /\ t.hw \in {"none", codec.hwaccel}
                                   /\ t.threadsafe = (t.hw = "safe") /\ t.pc = SetupOf(p, t.hw)
                                   /\ t.df = s.df /\ t.result = s.result /\ t.ctx = s.pkt
               /\ Await(p) => Moves(s, t, "await") /\ Keeps(s, t)
               /\ Frame(p) => /\ Moves(s, t, "decode")
                              /\ t.df = 1 /\ t.result = s.result /\ t.ctx = s.ctx
               /\ Ends(p) => /\ t.state = s.state /\ t.hw = s.hw
                             /\ IF s.state = "setup"
                                THEN t.pc = SetupOf(p, s.hw) /\ t.threadsafe = (s.hw = "safe")
                                ELSE t.pc = ReleaseOf(p) /\ t.threadsafe = s.threadsafe
                             /\ t.df = s.df /\ t.ctx = s.ctx
                             /\ t.result = "eof" => s.eof
               /\ Release(p) => /\ t.pc = (IF async_lock = p THEN "unlock" ELSE "ready")
                                /\ t.state = s.state /\ t.hw = "none"
                                /\ t.threadsafe = s.threadsafe /\ Keeps(s, t)
               /\ Unlock(p) => Moves(s, t, "ready") /\ Keeps(s, t)
               /\ Ready(p) => /\ t.pc = "wait" /\ t.state = "ready" /\ t.hw = s.hw
                              /\ t.threadsafe = s.threadsafe /\ Keeps(s, t)
               /\ LockInSetup(p) => /\ Moves(s, t, IF AsyncUnsafe(s.hw) THEN "lock_async" ELSE "publish")
                                    /\ Keeps(s, t)
               /\ AsyncLock(p) => Moves(s, t, "publish") /\ Keeps(s, t)
               /\ Publish(p) => /\ t.pc = (IF s.ended THEN ReleaseOf(p) ELSE "decode")
                                /\ t.state = "finished" /\ t.hw = s.hw
                                /\ t.threadsafe = s.threadsafe /\ Keeps(s, t)
<1>1. th \in [P -> Thread] /\ th[p] \in Thread
  BY DEF Types
<1> USE <1>1 DEF Thread, Moves, Keeps, To
<1>2. ASSUME Wake(p) \/ LockHwaccel(p) \/ Await(p) \/ Unlock(p) \/ LockInSetup(p) \/ AsyncLock(p)
      PROVE Keeps(th[p], th'[p])
  BY <1>2 DEF Wake, LockHwaccel, Await, Unlock, LockInSetup, AsyncLock
<1>3. ASSUME Wake(p)
      PROVE Moves(th[p], th'[p], IF th[p].die THEN "gone" ELSE StartOf(th[p]))
  BY <1>3 DEF Wake
<1>4. ASSUME LockHwaccel(p) PROVE Moves(th[p], th'[p], "decode")
  BY <1>4 DEF LockHwaccel
<1>5. ASSUME AllocFails(p)
      PROVE /\ Moves(th[p], th'[p], ReleaseOf(p)) /\ th'[p].df = th[p].df
            /\ th'[p].result = "error" /\ th'[p].ctx = th[p].ctx
  BY <1>5 DEF AllocFails
<1>6. ASSUME ReadHeader(p)
      PROVE LET s == th[p]
                t == th'[p]
            IN  /\ t.state = s.state /\ t.hw \in {"none", codec.hwaccel}
                /\ t.threadsafe = (t.hw = "safe") /\ t.pc = SetupOf(p, t.hw)
                /\ t.df = s.df /\ t.result = s.result /\ t.ctx = s.pkt
  BY <1>6 DEF ReadHeader, FinishSetup
<1>7. ASSUME Await(p) PROVE Moves(th[p], th'[p], "await")
  BY <1>7 DEF Await
<1>8. ASSUME Frame(p)
      PROVE /\ Moves(th[p], th'[p], "decode") /\ th'[p].df = 1
            /\ th'[p].result = th[p].result /\ th'[p].ctx = th[p].ctx
  BY <1>8 DEF Frame
<1>9. ASSUME Ends(p)
      PROVE LET s == th[p]
                t == th'[p]
            IN  /\ t.state = s.state /\ t.hw = s.hw
                /\ IF s.state = "setup"
                   THEN t.pc = SetupOf(p, s.hw) /\ t.threadsafe = (s.hw = "safe")
                   ELSE t.pc = ReleaseOf(p) /\ t.threadsafe = s.threadsafe
                /\ t.df = s.df /\ t.ctx = s.ctx
                /\ t.result = "eof" => s.eof
  BY <1>9 DEF Ends, Ending, FinishSetup
<1>10. ASSUME Release(p)
       PROVE LET s == th[p]
                 t == th'[p]
             IN  /\ t.pc = (IF async_lock = p THEN "unlock" ELSE "ready")
                 /\ t.state = s.state /\ t.hw = "none"
                 /\ t.threadsafe = s.threadsafe /\ Keeps(s, t)
  BY <1>10 DEF Release
<1>11. ASSUME Unlock(p) PROVE Moves(th[p], th'[p], "ready")
  BY <1>11 DEF Unlock
<1>12. ASSUME Ready(p)
       PROVE /\ th'[p].pc = "wait" /\ th'[p].state = "ready" /\ th'[p].hw = th[p].hw
             /\ th'[p].threadsafe = th[p].threadsafe /\ Keeps(th[p], th'[p])
  BY <1>12 DEF Ready
<1>13. ASSUME LockInSetup(p)
       PROVE Moves(th[p], th'[p], IF AsyncUnsafe(th[p].hw) THEN "lock_async" ELSE "publish")
  BY <1>13 DEF LockInSetup
<1>14. ASSUME AsyncLock(p) PROVE Moves(th[p], th'[p], "publish")
  BY <1>14 DEF AsyncLock
<1>15. ASSUME Publish(p)
       PROVE /\ th'[p].pc = (IF th[p].ended THEN ReleaseOf(p) ELSE "decode")
             /\ th'[p].state = "finished" /\ th'[p].hw = th[p].hw
             /\ th'[p].threadsafe = th[p].threadsafe /\ Keeps(th[p], th'[p])
  BY <1>15 DEF Publish
<1> QED
  BY <1>2, <1>3, <1>4, <1>5, <1>6, <1>7, <1>8, <1>9, <1>10, <1>11, <1>12, <1>13,
     <1>14, <1>15, Zenon

PlaceOf(t) ==
    /\ t.state = "ready" => t.pc \in {"wait", "gone"}
    /\ t.pc = "wait" => t.state # "finished"
    /\ t.pc \in {"lock_hwaccel", "lock_setup", "lock_async", "publish"} => t.state = "setup"

LEMMA PlacesWorker ==
    ASSUME Types, Places, NEW p \in P, Worker(p)
    PROVE  Places' /\ (th[p].state # "setup" => th'[p].state # "setup")
<1>1. WorkerKeeps(p) /\ th[p] \in Thread
  BY WorkerStep DEF Types
<1> DEFINE s == th[p]
           t == th'[p]
<1>2. PlaceOf(s)
  BY DEF Places, PlaceOf
<1>3. PlaceOf(t) /\ (s.state # "setup" => t.state # "setup")
  <2> USE DEF PlaceOf, Moves
  <2>11. ReleaseOf(p) \in {"release", "unlock", "ready"}
    BY DEF ReleaseOf
  <2>1. CASE Wake(p)
    BY <1>2, <2>1, WorkerEffects DEF Wake, StartOf, Types, Thread
  <2>2. CASE LockHwaccel(p)
    BY <1>2, <2>2, WorkerEffects DEF LockHwaccel
  <2>3. CASE AllocFails(p)
    BY <1>2, <2>3, <2>11, WorkerEffects DEF AllocFails
  <2>4. CASE ReadHeader(p)
    BY <1>2, <2>4, WorkerEffects DEF ReadHeader, SetupOf
  <2>5. CASE Await(p) \/ Frame(p)
    BY <1>2, <2>5, WorkerEffects DEF Await, Frame
  <2>6. CASE Ends(p)
    BY <1>2, <2>6, <2>11, WorkerEffects DEF Ends, SetupOf
  <2>7. CASE Release(p) \/ Unlock(p)
    BY <1>2, <2>7, WorkerEffects DEF Release, Unlock
  <2>8. CASE Ready(p)
    BY <1>2, <2>8, WorkerEffects DEF Ready
  <2>9. CASE LockInSetup(p) \/ AsyncLock(p)
    BY <1>2, <2>9, WorkerEffects DEF LockInSetup, AsyncLock
  <2>10. CASE Publish(p)
    <3>1. t.pc = (IF s.ended THEN ReleaseOf(p) ELSE "decode") /\ t.state = "finished"
      BY <2>10, WorkerEffects
    <3>2. t.pc \in {"release", "unlock", "ready", "decode"}
      BY <2>11, <3>1
    <3> QED
      BY <3>1, <3>2
  <2> QED
    BY <2>1, <2>2, <2>3, <2>4, <2>5, <2>6, <2>7, <2>8, <2>9, <2>10 DEF Worker
<1> QED
  BY <1>1, <1>3, Zenon DEF Places, PlaceOf, WorkerKeeps

LEMMA PlacesStep == Types /\ Places /\ OneSetup /\ [Next]_vars => Places' /\ OneSetup'
<1> SUFFICES ASSUME Types, Places, OneSetup, [Next]_vars PROVE Places' /\ OneSetup'
  OBVIOUS
<1>2. ASSUME NEW p \in P, Worker(p) PROVE Places' /\ OneSetup'
  <2>1. fctx'.prev = fctx.prev
    BY <1>2, WorkerStep DEF WorkerKeeps, Types, FrameContext
  <2> QED
    BY <1>2, <2>1, PlacesWorker, WorkerStep DEF OneSetup, WorkerKeeps
<1>3. CASE Previous
  <2> DEFINE p == fctx.next_decoding
  <2>1. PICK t \in Thread : (Inherited(t) /\ Submits(t)) \/ CopyFails(t)
    BY <1>3, PreviousStep
  <2>2. p \in P /\ \A r \in P : th[r].state # "setup"
    <3>1. SetUpDone(fctx.prev)
      BY <1>3, PreviousStep
    <3>2. p \in P /\ Nobody \notin P
      BY SizesAssumption DEF Types, FrameContext, Nobody, P
    <3> QED
      BY <3>1, <3>2 DEF SetUpDone, OneSetup
  <2>3. CASE Inherited(t) /\ Submits(t)
    <3>1. th' = [th EXCEPT ![p] = Submitted(t)] /\ fctx'.prev = p
      BY <2>3 DEF Submits, Types, FrameContext
    <3>2. Submitted(t).pc = th[p].pc /\ Submitted(t).state = "setup"
      BY <2>3, SubmittedThread DEF Inherited
    <3>3. OneSetup'
      BY <2>2, <3>1 DEF OneSetup, Types
    <3>4. Places'
      BY <2>2, <3>1, <3>2 DEF Places, Types
    <3> QED
      BY <3>3, <3>4
  <2>4. CASE CopyFails(t)
    <3>1. th' = [th EXCEPT ![p] = t] /\ fctx' = fctx
      BY <2>4 DEF CopyFails
    <3>2. t.pc = th[p].pc /\ t.state = th[p].state
      BY <2>4 DEF CopyFails, FailedCopy
    <3> QED
      BY <2>2, <3>1, <3>2 DEF Places, OneSetup, Types
  <2> QED
    BY <2>1, <2>3, <2>4
<1>4. CASE Collect \/ Kill \/ Join
  <2>1. fctx'.prev = fctx.prev
    BY <1>4 DEF Collect, Kill, Join, Types, FrameContext
  <2>2. \A r \in P : th'[r].pc = th[r].pc /\ th'[r].state = th[r].state
    BY <1>4 DEF Collect, Kill, Join, Types, Thread
  <2> QED
    BY <2>1, <2>2 DEF Places, OneSetup
<1>5. CASE FlushParked
  <2>1. \A r \in P : th[r].state = "ready"
    BY <1>5 DEF FlushParked, Parked
  <2> QED
    BY <1>5, <2>1, FlushStep DEF Places, OneSetup
<1>6. CASE Receive \/ Submit \/ Return \/ Flush \/ Free \/ FreeParked \/ Freed \/ UNCHANGED vars
  <2>1. th' = th /\ fctx'.prev = fctx.prev
    BY <1>6 DEF Receive, Submit, Return, Flush, Free, Park, FreeParked, Freed, WorkersKeep,
                vars, Types, FrameContext
  <2> QED
    BY <2>1 DEF Places, OneSetup
<1> QED
  BY <1>2, <1>3, <1>4, <1>5, <1>6 DEF Next, UserSteps, Caller

-----------------------------------------------------------------------------
(* The order of the packets.                                               *)

Order == Turn /\ Packets /\ EndComing

LEMMA Numbers ==
    ASSUME Types
    PROVE  /\ N \in Nat /\ N >= 2 /\ InFlight \in Int
           /\ user.sent \in Nat /\ fctx.pkt \in Nat /\ user.sent = fctx.pkt + InFlight
           /\ fctx.next_finished \in P /\ fctx.next_decoding \in P
           /\ \A p \in P : /\ Ahead(p) \in 0..(N - 1) /\ th[p] \in Thread /\ th[p].pkt \in Nat
                            /\ \A r \in P : Ahead(r) = Ahead(p) => r = p
<1>1. N \in Nat /\ N >= 2
  BY SizesAssumption
<1>2. /\ user.sent \in Nat /\ fctx.pkt \in Nat
      /\ fctx.next_finished \in P /\ fctx.next_decoding \in P
      /\ \A p \in P : th[p] \in Thread /\ th[p].pkt \in Nat
  BY DEF Types, FrameContext, UserThread, Thread
<1>3. InFlight \in Int /\ user.sent = fctx.pkt + InFlight
  BY <1>2 DEF InFlight
<1>4. ASSUME NEW p \in P
      PROVE  /\ Ahead(p) \in 0..(N - 1)
             /\ \A r \in P : Ahead(r) = Ahead(p) => r = p
  BY <1>1, <1>2 DEF Ahead, P
<1> QED
  BY <1>1, <1>2, <1>3, <1>4

\* A thread whose result was collected does nothing, but to die.
LEMMA WorkerReady ==
    ASSUME Types, Places, NEW p \in P, Worker(p), th[p].state = "ready"
    PROVE  th'[p].state = "ready" /\ th'[p].df = th[p].df /\ th'[p].result = th[p].result
<1>1. th[p].pc \in {"wait", "gone"}
  BY DEF Places
<1>2. Wake(p)
  BY <1>1 DEF Worker, LockHwaccel, AllocFails, ReadHeader, Await, Frame, Ends, Release,
              Unlock, Ready, LockInSetup, AsyncLock, Publish
<1> QED
  BY <1>2, WorkerEffects DEF Moves, Keeps

\* The part of the state the order depends on, beside the threads.
SameTurn ==
    /\ UNCHANGED <<fctx.next_decoding, fctx.next_finished, fctx.pkt, fctx.df, fctx.result>>
    /\ UNCHANGED <<user.pc, user.sent, user.draining, user.input>>

LEMMA OrderWorker ==
    ASSUME Types, Places, Order, NEW p \in P, Worker(p)
    PROVE  Order'
<1>1. WorkerKeeps(p)
  BY WorkerStep
<1>2. SameTurn
  BY <1>1 DEF WorkerKeeps, SameTurn, Types, FrameContext
<1>3. Turn'
  BY <1>2 DEF Order, Turn, SameTurn, InFlight
<1>4. \A r \in P : (Busy(r) <=> Busy(r)') /\ Ahead(r)' = Ahead(r)
  BY <1>2 DEF Busy, SameTurn, InFlight, Ahead
<1>5. \A r \in P : th'[r].pkt = th[r].pkt /\ th'[r].eof = th[r].eof
  BY <1>1 DEF WorkerKeeps
<1>6. Packets'
  <2>1. ASSUME NEW r \in P, ~Busy(r)
        PROVE  th'[r].state = "ready" /\ th'[r].df = 0 /\ th'[r].result = "ok"
    BY <1>1, <2>1, WorkerReady DEF WorkerKeeps, Order, Packets
  <2> QED
    BY <1>2, <1>4, <1>5, <2>1 DEF Order, Packets, SameTurn
<1>7. ASSUME NEW r \in P, th'[r].result = "eof" PROVE th'[r].eof
  <2>1. CASE r # p
    BY <1>1, <1>7, <2>1 DEF WorkerKeeps, Order, EndComing
  <2>2. CASE r = p
    <3>1. th'[p].result = th[p].result \/ th'[p].result = "error"
          \/ (th'[p].result = "eof" => th[p].eof)
      BY WorkerEffects DEF Worker, Keeps
    <3> QED
      BY <1>5, <1>7, <2>2, <3>1 DEF Order, EndComing
  <2> QED
    BY <2>1, <2>2
<1>8. EndComing'
  BY <1>2, <1>4, <1>5, <1>7 DEF Order, EndComing, SameTurn, Empty
<1> QED
  BY <1>3, <1>6, <1>8 DEF Order

\* The steps of the user's thread that leave the order alone.
LEMMA OrderKept ==
    ASSUME Types, Order,
           UNCHANGED <<fctx.next_decoding, fctx.next_finished, fctx.pkt, user.sent>>,
           Empty => Empty',
           user.pc # "collect", user'.pc # "collect",
           user'.pc = "previous" => fctx'.df = 0 /\ fctx'.result = "ok",
           fctx'.result \in {fctx.result, "ok"},
           \A p \in P : /\ th'[p].pkt = th[p].pkt /\ th'[p].eof = th[p].eof
                        /\ th'[p].state = th[p].state /\ th'[p].df = th[p].df
                        /\ th'[p].result = th[p].result
    PROVE  Order'
<1>1. Turn'
  BY DEF Order, Turn, InFlight
<1>2. \A p \in P : (Busy(p) <=> Busy(p)') /\ Ahead(p)' = Ahead(p)
  BY DEF Busy, InFlight, Ahead
<1>3. Packets'
  BY <1>2 DEF Order, Packets
<1>4. EndComing'
  BY <1>2 DEF Order, EndComing
<1> QED
  BY <1>1, <1>3, <1>4 DEF Order

\* Before a submission the next thread is the first one that has nothing to do.
LEMMA NextIsFree ==
    ASSUME Types, Order, user.pc # "collect"
    PROVE  /\ Ahead(fctx.next_decoding) = InFlight /\ ~Busy(fctx.next_decoding)
           /\ InFlight \in 0..(N - 1) /\ th[fctx.next_decoding].state = "ready"
           /\ th[fctx.next_decoding].df = 0 /\ th[fctx.next_decoding].result = "ok"
           /\ th[fctx.next_decoding].pkt <= fctx.pkt
<1>1. InFlight \in 0..(N - 1) /\ N \in Nat /\ fctx.next_decoding \in P
  BY Numbers DEF Order, Turn
<1>2. Ahead(fctx.next_decoding) = InFlight
  BY <1>1, Numbers DEF Order, Turn, Ahead, P
<1>3. ~Busy(fctx.next_decoding)
  BY <1>1, <1>2 DEF Busy
<1> QED
  BY <1>1, <1>2, <1>3 DEF Order, Packets

LEMMA OrderSubmits ==
    ASSUME Types, Order, Previous, NEW t \in Thread, Inherited(t), Submits(t)
    PROVE  Order' /\ \A r \in P : Busy(r)' <=> (Busy(r) \/ r = fctx.next_decoding)
<1> DEFINE u == Submitted(t)
<1>0. PICK p \in P, n \in Int : p = fctx.next_decoding /\ n = InFlight
  BY Numbers
<1>1. /\ user.pc = "previous" /\ p \in P /\ fctx.df = 0 /\ fctx.result = "ok"
      /\ n \in 0..(N - 1) /\ N \in Nat
  BY <1>0, Numbers, PreviousStep DEF Order, Turn
<1>2. Ahead(p) = n
  BY <1>0, <1>1, NextIsFree
<1>3. ~Busy(p) /\ th[p].state = "ready" /\ th[p].df = 0 /\ th[p].result = "ok"
  BY <1>0, <1>1, NextIsFree
<1>4. /\ th' = [th EXCEPT ![p] = u] /\ u.pkt = user.sent + 1 /\ u.eof = Empty
      /\ u.result = "ok"
  BY <1>0, <1>3, SubmittedThread DEF Submits, Inherited
<1>5. /\ fctx'.next_finished = fctx.next_finished /\ fctx'.pkt = fctx.pkt
      /\ fctx'.df = fctx.df /\ fctx'.result = fctx.result
      /\ fctx'.next_decoding = (p + 1) % N
      /\ user'.sent = user.sent + 1 /\ (Empty => Empty')
      /\ user'.pc = AfterSubmit((p + 1) % N)
  BY <1>0 DEF Submits, Types, FrameContext, UserThread, Empty
<1>6. InFlight' = n + 1 /\ \A r \in P : Ahead(r)' = Ahead(r)
  BY <1>0, <1>5, Numbers DEF InFlight, Ahead
<1>7. \A r \in P : Busy(r)' <=> (Busy(r) \/ r = p)
  BY <1>0, <1>1, <1>2, <1>6, Numbers DEF Busy
<1>8. Turn'
  <2>1. fctx'.next_decoding = IF p + 1 = N THEN 0 ELSE p + 1
    BY <1>1, <1>5, NextThread
  <2>2. fctx'.next_decoding = IF fctx.next_finished + (n + 1) >= N
                              THEN fctx.next_finished + (n + 1) - N
                              ELSE fctx.next_finished + (n + 1)
    <3>1. fctx.next_finished \in 0..(N - 1) /\ p \in 0..(N - 1)
      BY <1>0, Numbers DEF P
    <3>2. p = IF fctx.next_finished + n >= N THEN fctx.next_finished + n - N
              ELSE fctx.next_finished + n
      BY <1>0 DEF Order, Turn
    <3> QED
      BY <1>1, <2>1, <3>1, <3>2
  <2>3. user'.pc = "loop" => n + 1 < N
    BY <1>1, <1>5, <2>2, Numbers DEF AfterSubmit, P
  <2>4. user'.pc \in {"loop", "collect"}
    BY <1>5 DEF AfterSubmit
  <2> QED
    BY <1>1, <1>5, <1>6, <2>2, <2>3, <2>4 DEF Turn
<1>9. Packets'
  <2>1. ASSUME NEW r \in P, r # p
        PROVE  /\ Busy(r)' => th'[r].pkt = fctx'.pkt + 1 + Ahead(r)'
               /\ ~Busy(r)' => /\ th'[r].pkt <= fctx'.pkt
                               /\ th'[r].state = "ready" /\ th'[r].df = 0 /\ th'[r].result = "ok"
    BY <1>4, <1>5, <1>6, <1>7, <2>1 DEF Order, Packets, Types
  <2>2. Busy(p)' /\ th'[p].pkt = fctx'.pkt + 1 + Ahead(p)'
    BY <1>0, <1>1, <1>2, <1>4, <1>5, <1>6, <1>7, Numbers DEF Types
  <2> QED
    BY <2>1, <2>2 DEF Packets
<1>10. EndComing'
  <2>1. th'[p].eof = Empty /\ th'[p].result = "ok"
        /\ \A r \in P : r # p => th'[r] = th[r]
    BY <1>1, <1>4 DEF Types
  <2>2. \A r \in P : Busy(r) => Ahead(r) < Ahead(p)
    BY <1>0, <1>2 DEF Busy
  <2>3. ASSUME NEW a \in P, NEW r \in P, Busy(a)', th'[a].eof, Busy(r)', Ahead(a)' <= Ahead(r)'
        PROVE  Empty' /\ th'[r].eof
    <3>1. Empty
      BY <1>7, <2>1, <2>3 DEF Order, EndComing
    <3>2. CASE r = p
      BY <1>5, <2>1, <3>1, <3>2
    <3>3. CASE r # p
      <4>1. Busy(r) /\ Ahead(a) <= Ahead(r) /\ a # p
        BY <1>6, <1>7, <2>2, <2>3, <3>3, Numbers
      <4> QED
        BY <1>5, <1>7, <2>1, <2>3, <3>1, <3>3, <4>1 DEF Order, EndComing
    <3> QED
      BY <3>2, <3>3
  <2>4. \A r \in P : th'[r].result = "eof" => th'[r].eof
    BY <2>1 DEF Order, EndComing
  <2>5. fctx'.result # "eof"
    BY <1>1, <1>5
  <2>6. \A a \in P : Busy(a)' /\ th'[a].eof => Empty'
    BY <2>3, Numbers, <1>6
  <2> QED
    BY <2>3, <2>4, <2>5, <2>6 DEF EndComing
<1> QED
  BY <1>0, <1>7, <1>8, <1>9, <1>10 DEF Order

LEMMA OrderCollect ==
    ASSUME Types, Order, Collect
    PROVE  /\ Order'
           /\ th[fctx.next_finished].pkt = fctx.pkt + 1 /\ Busy(fctx.next_finished)
           /\ fctx.df = 0 /\ fctx.result = "ok"
           /\ InFlight' = InFlight - 1
           /\ \A r \in P : Busy(r)' <=> (Busy(r) /\ r # fctx.next_finished)
           /\ \A r \in P \ {fctx.next_finished} : Ahead(r)' = Ahead(r) - 1
<1>0. PICK p \in P, n \in Int : p = fctx.next_finished /\ n = InFlight
  BY Numbers
<1>1. /\ user.pc = "collect" /\ p \in P /\ fctx.df = 0 /\ fctx.result = "ok"
      /\ n \in 1..N /\ N \in Nat /\ th[p].state = "ready"
  BY <1>0, Numbers DEF Collect, Order, Turn
<1>2. Ahead(p) = 0 /\ Busy(p)
  BY <1>0, <1>1, Numbers DEF Ahead, P, Busy
<1>3. th[p].pkt = fctx.pkt + 1
  BY <1>1, <1>2, Numbers DEF Order, Packets
<1>4. /\ fctx'.next_finished = (p + 1) % N /\ fctx'.pkt = fctx.pkt + 1
      /\ fctx'.next_decoding = fctx.next_decoding
      /\ fctx'.df = th[p].df /\ fctx'.result = th[p].result
      /\ user'.sent = user.sent /\ Empty' = Empty /\ user'.pc = "loop"
  BY <1>0, <1>3 DEF Collect, Goto, Types, FrameContext, UserThread, Empty
<1>5. /\ \A r \in P : r # p => th'[r] = th[r]
      /\ th'[p].pkt = th[p].pkt /\ th'[p].eof = th[p].eof
      /\ th'[p].state = "ready" /\ th'[p].df = 0 /\ th'[p].result = "ok"
  BY <1>0, <1>1 DEF Collect, Types, Thread
<1>6. fctx'.next_finished = IF p + 1 = N THEN 0 ELSE p + 1
  BY <1>1, <1>4, NextThread
<1>7. InFlight' = n - 1
  BY <1>0, <1>4, Numbers DEF InFlight
<1>8. \A r \in P : Ahead(r)' = IF r = p THEN N - 1 ELSE Ahead(r) - 1
  BY <1>0, <1>1, <1>6, Numbers DEF Ahead, P
<1>9. \A r \in P : Busy(r)' <=> (Busy(r) /\ r # p)
  BY <1>0, <1>1, <1>2, <1>7, <1>8, Numbers DEF Busy
<1>10. Turn'
  <2>1. fctx.next_decoding \in 0..(N - 1) /\ p \in 0..(N - 1)
    BY Numbers DEF P
  <2>2. fctx.next_decoding = IF p + n >= N THEN p + n - N ELSE p + n
    BY <1>0 DEF Order, Turn
  <2>3. fctx'.next_decoding = IF fctx'.next_finished + (n - 1) >= N
                              THEN fctx'.next_finished + (n - 1) - N
                              ELSE fctx'.next_finished + (n - 1)
    BY <1>1, <1>4, <1>6, <2>1, <2>2
  <2> QED
    BY <1>1, <1>4, <1>7, <2>3 DEF Turn
<1>11. Packets'
  <2>1. ASSUME NEW r \in P, r # p
        PROVE  /\ Busy(r)' => th'[r].pkt = fctx'.pkt + 1 + Ahead(r)'
               /\ ~Busy(r)' => /\ th'[r].pkt <= fctx'.pkt
                               /\ th'[r].state = "ready" /\ th'[r].df = 0 /\ th'[r].result = "ok"
    BY <1>4, <1>5, <1>8, <1>9, <2>1, Numbers DEF Order, Packets
  <2>2. ~Busy(p)' /\ th'[p].pkt <= fctx'.pkt
    <3>1. fctx.pkt \in Nat
      BY Numbers
    <3> QED
      BY <1>3, <1>4, <1>5, <1>9, <3>1
  <2> QED
    BY <1>5, <2>1, <2>2 DEF Packets
<1>12. EndComing'
  <2>1. \A a \in P, r \in P : Busy(a)' /\ Busy(r)' /\ Ahead(a)' <= Ahead(r)' =>
            a # p /\ r # p /\ Busy(a) /\ Busy(r) /\ Ahead(a) <= Ahead(r)
    BY <1>8, <1>9, Numbers
  <2>2. \A a \in P : Busy(a)' /\ th'[a].eof => Empty'
    BY <1>4, <1>5, <1>9 DEF Order, EndComing
  <2>3. \A a \in P, r \in P :
            Busy(a)' /\ th'[a].eof /\ Busy(r)' /\ Ahead(a)' <= Ahead(r)' => th'[r].eof
    BY <1>5, <2>1 DEF Order, EndComing
  <2>4. \A r \in P : th'[r].result = "eof" => th'[r].eof
    BY <1>5 DEF Order, EndComing
  <2>5. ASSUME fctx'.result = "eof"
        PROVE  Empty' /\ \A r \in P : Busy(r)' => th'[r].eof
    <3>1. th[p].eof
      BY <1>1, <1>4, <2>5 DEF Order, EndComing
    <3>2. \A r \in P : Busy(r) => th[r].eof
      BY <1>1, <1>2, <3>1, Numbers DEF Order, EndComing
    <3> QED
      BY <1>1, <1>2, <1>4, <1>5, <1>9, <3>1, <3>2 DEF Order, EndComing
  <2> QED
    BY <2>2, <2>3, <2>4, <2>5 DEF EndComing
<1> QED
  BY <1>0, <1>1, <1>2, <1>3, <1>7, <1>8, <1>9, <1>10, <1>11, <1>12 DEF Order

LEMMA OrderFlush ==
    ASSUME Types, Order, FlushParked
    PROVE  Order' /\ \A p \in P : ~Busy(p)'
<1>1. /\ fctx'.next_decoding = 0 /\ fctx'.next_finished = 0 /\ fctx'.pkt = user.sent
      /\ fctx'.df = 0 /\ fctx'.result = "ok"
      /\ user'.sent = user.sent /\ user'.pc = "user"
  BY DEF FlushParked, Types, FrameContext, UserThread
<1>2. InFlight' = 0
  BY <1>1, Numbers DEF InFlight
<1>3. \A p \in P : ~Busy(p)'
  BY <1>1, <1>2, SizesAssumption DEF Busy, Ahead, P
<1>4. \A p \in P : th[p].pkt <= user.sent
  BY Numbers DEF Order, Turn, Packets, Busy
<1>5. Turn'
  BY <1>1, <1>2, Numbers DEF Turn
<1>6. Packets'
  BY <1>1, <1>3, <1>4, FlushStep DEF Packets
<1>7. EndComing'
  BY <1>1, <1>3, FlushStep DEF EndComing
<1> QED
  BY <1>3, <1>5, <1>6, <1>7 DEF Order

LEMMA OrderStep == Types /\ Places /\ Order /\ [Next]_vars => Order'
<1> SUFFICES ASSUME Types, Places, Order, [Next]_vars PROVE Order'
  OBVIOUS
<1>1. ASSUME NEW p \in P, Worker(p) PROVE Order'
  BY <1>1, OrderWorker
<1>2. CASE Previous
  <2>1. PICK t \in Thread : (Inherited(t) /\ Submits(t)) \/ CopyFails(t)
    BY <1>2, PreviousStep
  <2>2. CASE Inherited(t) /\ Submits(t)
    BY <1>2, <2>2, OrderSubmits
  <2>3. CASE CopyFails(t)
    <3> DEFINE p == fctx.next_decoding
    <3>1. /\ th' = [th EXCEPT ![p] = t] /\ fctx' = fctx
          /\ user'.pc = "failed" /\ user'.sent = user.sent /\ (Empty => Empty')
      BY <2>3 DEF CopyFails, Types, UserThread, Empty
    <3>2. t.pkt = th[p].pkt /\ t.eof = th[p].eof /\ t.state = th[p].state /\ t.df = th[p].df
          /\ t.result = th[p].result
      BY <2>3 DEF CopyFails, FailedCopy
    <3>3. \A r \in P : /\ th'[r].pkt = th[r].pkt /\ th'[r].eof = th[r].eof
                       /\ th'[r].state = th[r].state /\ th'[r].df = th[r].df
                       /\ th'[r].result = th[r].result
      BY <3>1, <3>2 DEF Types
    <3>4. user.pc = "previous"
      BY <1>2, PreviousStep
    <3> QED
      BY <3>1, <3>3, <3>4, OrderKept
  <2> QED
    BY <2>1, <2>2, <2>3
<1>3. CASE Collect
  BY <1>3, OrderCollect
<1>4. CASE FlushParked
  BY <1>4, OrderFlush
<1>5. CASE Receive \/ Submit \/ Return \/ Flush \/ Free \/ FreeParked \/ Freed
  <2>1. th' = th
    BY <1>5 DEF Receive, Submit, Return, Flush, Free, Park, FreeParked, Freed, WorkersKeep
  <2>2. /\ fctx'.next_decoding = fctx.next_decoding /\ fctx'.next_finished = fctx.next_finished
        /\ fctx'.pkt = fctx.pkt /\ fctx'.result \in {fctx.result, "ok"}
    BY <1>5 DEF Receive, Submit, Return, Flush, Free, Park, FreeParked, Freed, WorkersKeep,
                Types, FrameContext
  <2>3. user'.sent = user.sent /\ (Empty => Empty')
    BY <1>5 DEF Receive, Submit, Return, Flush, Free, Park, FreeParked, Freed, Goto,
                Types, UserThread, Empty
  <2>4. /\ user.pc # "collect" /\ user'.pc # "collect"
        /\ user'.pc = "previous" => fctx'.df = 0 /\ fctx'.result = "ok"
    <3>1. CASE Submit
      <4>1. fctx.df \in 0..1 /\ ~HasResult /\ fctx' = fctx
        BY <3>1 DEF Submit, Types, FrameContext
      <4>2. fctx.df = 0 /\ fctx.result = "ok"
        BY <4>1 DEF HasResult
      <4>3. user.pc = "loop" /\ user'.pc \in {"previous", "failed"}
        BY <3>1 DEF Submit, Goto, Types, UserThread
      <4> QED
        BY <4>1, <4>2, <4>3
    <3>2. CASE ~Submit
      BY <1>5, <3>2 DEF Receive, Return, Flush, Free, Park, FreeParked, Freed, Goto,
                        Types, UserThread
    <3> QED
      BY <3>1, <3>2
  <2> QED
    BY <2>1, <2>2, <2>3, <2>4, OrderKept
<1>6. CASE Kill \/ Join
  <2>1. /\ fctx' = fctx /\ user'.sent = user.sent /\ (Empty => Empty')
        /\ user.pc # "collect" /\ user'.pc \in {"kill", "join"}
    BY <1>6 DEF Kill, Join, Goto, Types, UserThread, Empty
  <2>2. \A r \in P : /\ th'[r].pkt = th[r].pkt /\ th'[r].eof = th[r].eof
                     /\ th'[r].state = th[r].state /\ th'[r].df = th[r].df
                     /\ th'[r].result = th[r].result
    BY <1>6 DEF Kill, Join, Types, Thread
  <2> QED
    BY <2>1, <2>2, OrderKept
<1>7. CASE UNCHANGED vars
  BY <1>7 DEF vars, Order, Turn, Packets, EndComing, InFlight, Busy, Ahead, Empty
<1> QED
  BY <1>1, <1>2, <1>3, <1>4, <1>5, <1>6, <1>7 DEF Next, UserSteps, Caller

-----------------------------------------------------------------------------
(* The context a thread starts from.                                       *)

LEMMA ContextNumbers ==
    ASSUME Types
    PROVE  /\ user.sent \in Nat /\ user.ctx \in Nat /\ fctx.pkt \in Nat /\ setup_of \in Nat
           /\ \A p \in P : th[p].ctx \in Nat /\ th[p].pkt \in Nat
           /\ Nobody \notin P /\ 0 \in P
           /\ fctx.prev \in P \cup {Nobody} /\ fctx.next_decoding \in P
<1>1. Nobody \notin P /\ 0 \in P
  BY SizesAssumption DEF Nobody, P
<1> QED
  BY <1>1 DEF Types, FrameContext, UserThread, Thread

\* No thread has a packet that was not sent.
LEMMA PacketsSent ==
    ASSUME Types, Order
    PROVE  /\ fctx.pkt <= user.sent
           /\ \A p \in P : th[p].pkt <= user.sent
BY Numbers DEF Order, Turn, Packets, Busy

LEMMA ContextKept ==
    ASSUME Types, Context,
           codec' = codec, setup_of' = setup_of, lost' = lost, fctx'.prev = fctx.prev,
           fctx'.next_decoding = fctx.next_decoding, user'.ctx <= fctx'.pkt,
           user'.sent = user.sent, Empty => Empty',
           \A r \in P : th'[r].ctx = th[r].ctx /\ th'[r].eof = th[r].eof
                        /\ th'[r].pkt = th[r].pkt,
           \A r \in P : Busy(r)' => Busy(r)
    PROVE  Context'
<1>1. fctx'.prev = Nobody => fctx'.next_decoding = 0
  BY DEF Context
<1>2. codec'.utc /\ ~lost' =>
          /\ fctx'.prev = Nobody => th'[0].ctx = setup_of'
          /\ \A p \in P : fctx'.prev = p /\ (~th'[p].eof \/ codec'.delay) =>
                th'[p].ctx = setup_of'
  BY ContextNumbers, Zenon DEF Context
<1>3. \A p \in P : fctx'.prev = p /\ th'[p].eof => Empty'
  BY Zenon DEF Context
<1>4. \A p \in P : th'[p].ctx <= user'.sent
  BY DEF Context
<1>5. \A p \in P : Busy(p)' => th'[p].ctx <= th'[p].pkt
  BY DEF Context
<1> QED
  BY <1>1, <1>2, <1>3, <1>4, <1>5, Zenon DEF Context, Nobody, P

LEMMA ContextWorker ==
    ASSUME Types, Order, Places, OneSetup, Context, NEW p \in P, Worker(p)
    PROVE  Context'
<1>1. WorkerKeeps(p)
  BY WorkerStep
<1>2. SameTurn /\ fctx'.prev = fctx.prev /\ user'.ctx = user.ctx /\ codec' = codec
  BY <1>1 DEF WorkerKeeps, SameTurn, Types, FrameContext
<1>3. \A r \in P : (Busy(r) <=> Busy(r)') /\ th'[r].pkt = th[r].pkt /\ th'[r].eof = th[r].eof
  BY <1>1, <1>2 DEF Busy, SameTurn, InFlight, Ahead, WorkerKeeps
<1>4. CASE ReadHeader(p)
  <2>1. th[p].state = "setup" /\ ~th[p].eof /\ setup_of' = th[p].pkt /\ codec.utc /\ ~lost'
    BY <1>4 DEF ReadHeader
  <2>2. th'[p].ctx = th[p].pkt /\ \A r \in P : r # p => th'[r] = th[r]
    BY <1>1, <1>4, WorkerEffects DEF WorkerKeeps
  <2>3. fctx.prev = p /\ fctx.prev # Nobody
    BY <2>1, ContextNumbers DEF OneSetup
  <2>4. th[p].pkt <= user.sent
    BY PacketsSent
  <2> QED
    BY <1>2, <1>3, <2>1, <2>2, <2>3, <2>4, ContextNumbers DEF Context, SameTurn, Empty
<1>5. CASE ~ReadHeader(p)
  <2>1. setup_of' = setup_of /\ lost' = lost
    BY <1>5 DEF Worker, Wake, LockHwaccel, AllocFails, Await, Frame, Ends, Release,
                Unlock, Ready, LockInSetup, AsyncLock, Publish, history
  <2>2. th'[p].ctx = th[p].ctx
    BY <1>5, WorkerEffects DEF Worker, Keeps
  <2>3. \A r \in P : th'[r].ctx = th[r].ctx
    BY <1>1, <2>2 DEF WorkerKeeps
  <2> QED
    <3>1. user'.ctx <= fctx'.pkt
      BY <1>2 DEF Context, SameTurn
    <3> QED
      BY <1>2, <1>3, <2>1, <2>3, <3>1, ContextKept DEF SameTurn, Empty
<1> QED
  BY <1>4, <1>5

LEMMA ContextPrevious ==
    ASSUME Types, Order, Context, Previous
    PROVE  Context'
<1>1. PICK t \in Thread : (Inherited(t) /\ Submits(t)) \/ CopyFails(t)
  BY PreviousStep
<1>2. PICK p \in P, q \in P \cup {Nobody} : p = fctx.next_decoding /\ q = fctx.prev
  BY ContextNumbers
<1>3. user.pc = "previous" /\ codec' = codec /\ setup_of' = setup_of /\ lost' = lost
  BY PreviousStep
<1>4. ~Busy(p)
  BY <1>2, <1>3, NextIsFree
<1>7. CASE Inherited(t) /\ Submits(t)
  <2>1. /\ th' = [th EXCEPT ![p] = Submitted(t)] /\ fctx'.prev = p /\ fctx'.pkt = fctx.pkt
        /\ user'.sent = user.sent + 1 /\ (Empty => Empty') /\ user'.ctx = user.ctx
    BY <1>2, <1>7 DEF Submits, Types, FrameContext, UserThread, Empty
  <2>2. /\ th'[p].ctx = t.ctx /\ th'[p].eof = Empty /\ th'[p].pkt = user.sent + 1
        /\ \A r \in P : r # p => th'[r] = th[r]
    BY <2>1, SubmittedThread DEF Types
  <2>6. t.ctx = IF Copies /\ codec.utc THEN th[q].ctx ELSE th[p].ctx
    BY <1>2, <1>7 DEF Inherited
  <2>7. t.ctx \in Nat /\ t.ctx <= user.sent
    BY <1>2, <2>6, ContextNumbers DEF Context, Copies
  <2>3. ASSUME codec.utc, ~lost, ~Empty \/ codec.delay PROVE t.ctx = setup_of
    <3>1. CASE q = Nobody
      BY <1>2, <2>6, <2>3, <3>1 DEF Context, Copies
    <3>2. CASE q # Nobody
      <4>1. q \in P /\ fctx.prev = q /\ Copies
        BY <1>2, <2>3, <3>2 DEF Copies
      <4>2. ~th[q].eof \/ codec.delay
        BY <2>3, <4>1 DEF Context
      <4> QED
        BY <2>6, <2>3, <4>1, <4>2 DEF Context
    <3> QED
      BY <3>1, <3>2
  <2>4. \A r \in P : Busy(r)' <=> (Busy(r) \/ r = p)
    BY <1>2, <1>7, OrderSubmits
  <2>5. /\ \A r \in P : th'[r].ctx <= user'.sent
        /\ \A r \in P : Busy(r)' => th'[r].ctx <= th'[r].pkt
    BY <2>7, <2>1, <2>2, <2>4, ContextNumbers DEF Context
  <2> QED
    BY <1>3, <2>1, <2>2, <2>3, <2>5, ContextNumbers DEF Context
<1>8. CASE CopyFails(t)
  <2>1. /\ th' = [th EXCEPT ![p] = t] /\ fctx' = fctx
        /\ user'.sent = user.sent /\ (Empty => Empty') /\ user'.ctx = user.ctx
    BY <1>2, <1>8 DEF CopyFails, Types, UserThread, Empty
  <2>5. q # Nobody /\ q \in P
    BY <1>2, <1>8, ContextNumbers DEF CopyFails
  <2>2. t.ctx \in {th[p].ctx, th[q].ctx} /\ t.eof = th[p].eof /\ t.pkt = th[p].pkt
    BY <1>2, <1>8 DEF CopyFails, FailedCopy
  <2>3. /\ th'[p].ctx = t.ctx /\ \A r \in P : r # p => th'[r] = th[r]
        /\ \A r \in P : th'[r].eof = th[r].eof /\ th'[r].pkt = th[r].pkt
    BY <2>1, <2>2 DEF Types
  <2>4. \A r \in P : Busy(r)' <=> Busy(r)
    BY <2>1 DEF Busy, InFlight, Ahead
  <2>6. th'[q].ctx = th[q].ctx
    BY <2>2, <2>3, <2>5
  <2>8. t.ctx \in Nat /\ t.ctx <= user.sent
    BY <2>2, <2>5, ContextNumbers DEF Context
  <2>7. /\ \A r \in P : th'[r].ctx <= user'.sent
        /\ \A r \in P : Busy(r)' => th'[r].ctx <= th'[r].pkt
    BY <1>4, <2>8, <2>1, <2>3, <2>4, ContextNumbers DEF Context
  <2> QED
    BY <1>2, <1>3, <2>1, <2>3, <2>5, <2>6, <2>7 DEF Context
<1> QED
  BY <1>1, <1>7, <1>8

LEMMA ContextFlush ==
    ASSUME Types, Order, Context, FlushParked
    PROVE  Context'
<1> DEFINE q == fctx.prev
<1>1. PICK t \in Thread : FlushedTo(t)
  BY FlushStep
<1>2. t.ctx \in {th[0].ctx, IF q \in P THEN th[q].ctx ELSE th[0].ctx}
  BY <1>1, ContextNumbers, UpdatedThread DEF FlushedTo, FailedCopy, Types
<1>3. th'[0].ctx = t.ctx /\ \A p \in P : p # 0 => th'[p].ctx = th[p].ctx
  BY <1>1, ContextNumbers DEF FlushedTo, Flushed, Thread, Types
<1>4. /\ fctx'.prev = Nobody /\ fctx'.next_decoding = 0 /\ fctx'.pkt = user.sent
      /\ user'.sent = user.sent /\ user'.ctx = user.ctx
      /\ codec' = codec /\ setup_of' = setup_of
  BY DEF FlushParked, Types, FrameContext, UserThread
<1>5. ASSUME codec.utc, ~lost' PROVE th'[0].ctx = setup_of'
  <2>1. ~lost /\ (q = Nobody \/ ~th[q].eof \/ codec.delay)
    BY <1>5 DEF FlushParked
  <2>2. t.ctx = IF q \in P THEN th[q].ctx ELSE th[0].ctx
    BY <1>1, <1>5, ContextNumbers, UpdatedThread DEF FlushedTo, Types
  <2>3. CASE q = Nobody
    BY <1>3, <1>4, <1>5, <2>1, <2>2, <2>3, ContextNumbers DEF Context
  <2>4. CASE q \in P
    BY <1>3, <1>4, <1>5, <2>1, <2>2, <2>4, ContextNumbers DEF Context
  <2> QED
    BY <2>3, <2>4, ContextNumbers
<1>6. \A p \in P : th'[p].ctx <= user'.sent
  BY <1>2, <1>3, <1>4, ContextNumbers DEF Context
<1>7. user'.ctx <= fctx'.pkt
  BY <1>4, ContextNumbers, PacketsSent DEF Context
<1> QED
  BY <1>4, <1>5, <1>6, <1>7, OrderFlush, ContextNumbers DEF Context

LEMMA ContextStep ==
    Types /\ Order /\ Places /\ OneSetup /\ Context /\ [Next]_vars => Context'
<1> SUFFICES ASSUME Types, Order, Places, OneSetup, Context, [Next]_vars PROVE Context'
  OBVIOUS
<1>1. CASE Collect
  <2>1. PICK p \in P : p = fctx.next_finished
    BY Numbers
  <2>2. /\ fctx'.prev = fctx.prev /\ fctx'.next_decoding = fctx.next_decoding
        /\ fctx'.pkt = th[p].pkt /\ user'.ctx \in {th[p].ctx, user.ctx} /\ codec' = codec
        /\ user'.sent = user.sent /\ (Empty => Empty') /\ setup_of' = setup_of /\ lost' = lost
    BY <1>1, <2>1 DEF Collect, Goto, Types, FrameContext, UserThread, Empty, history
  <2>3. \A r \in P : th'[r].ctx = th[r].ctx /\ th'[r].eof = th[r].eof /\ th'[r].pkt = th[r].pkt
    BY <1>1 DEF Collect, Types, Thread
  <2>4. Busy(p) /\ \A r \in P : Busy(r)' => Busy(r)
    BY <1>1, <2>1, OrderCollect
  <2>5. user'.ctx <= fctx'.pkt
    BY <1>1, <2>1, <2>2, <2>4, OrderCollect, ContextNumbers DEF Context
  <2> QED
    BY <2>2, <2>3, <2>4, <2>5, ContextKept
<1>2. CASE Kill \/ Join
  <2>1. /\ fctx' = fctx /\ user'.sent = user.sent /\ (Empty => Empty')
        /\ user'.ctx = user.ctx /\ setup_of' = setup_of /\ lost' = lost /\ codec' = codec
    BY <1>2 DEF Kill, Join, Goto, Types, UserThread, Empty, history
  <2>2. \A r \in P : th'[r].ctx = th[r].ctx /\ th'[r].eof = th[r].eof /\ th'[r].pkt = th[r].pkt
    BY <1>2 DEF Kill, Join, Types, Thread
  <2>3. \A r \in P : Busy(r)' <=> Busy(r)
    BY <2>1 DEF Busy, InFlight, Ahead
  <2> QED
    BY <2>1, <2>2, <2>3, ContextKept DEF Context
<1>3. CASE Receive \/ Submit \/ Return \/ Flush \/ Free \/ FreeParked \/ Freed \/ UNCHANGED vars
  <2>1. th' = th /\ codec' = codec /\ setup_of' = setup_of /\ lost' = lost
    BY <1>3 DEF Receive, Submit, Return, Flush, Free, Park, FreeParked, Freed, WorkersKeep, vars,
                history
  <2>2. /\ fctx'.next_decoding = fctx.next_decoding /\ fctx'.prev = fctx.prev
        /\ fctx'.pkt = fctx.pkt /\ fctx'.next_finished = fctx.next_finished
    BY <1>3 DEF Receive, Submit, Return, Flush, Free, Park, FreeParked, Freed, WorkersKeep,
                Types, FrameContext, vars
  <2>3. user'.sent = user.sent /\ user'.ctx = user.ctx /\ (Empty => Empty')
    BY <1>3 DEF Receive, Submit, Return, Flush, Free, Park, FreeParked, Freed, Goto,
                Types, UserThread, vars, Empty
  <2>4. \A r \in P : Busy(r)' <=> Busy(r)
    BY <2>2, <2>3 DEF Busy, InFlight, Ahead
  <2> QED
    BY <2>1, <2>2, <2>3, <2>4 DEF Context
<1> QED
  BY <1>1, <1>2, <1>3, ContextWorker, ContextPrevious, ContextFlush DEF Next, UserSteps, Caller

-----------------------------------------------------------------------------
(* The hwaccel and its locks.                                              *)

LEMMA OwnersWorker ==
    ASSUME Types, Places, OneKind, Locks, NEW p \in P, Worker(p)
    PROVE  /\ Owns(th'[p], p, hwaccel_mutex', async_lock')
           /\ hwaccel_mutex' # hwaccel_mutex =>
                 hwaccel_mutex \in {p, Nobody} /\ hwaccel_mutex' \in {p, Nobody}
           /\ async_lock' # async_lock =>
                 async_lock \in {p, Nobody} /\ async_lock' \in {p, Nobody}
<1> DEFINE s == th[p]
           t == th'[p]
<1>1. Owns(s, p, hwaccel_mutex, async_lock) /\ PlaceOf(s)
  BY DEF Locks, Places, PlaceOf
<1>12. \A h : AsyncUnsafe(h) => Serial(h)
  BY DEF AsyncUnsafe, Serial
<1>2. CASE Wake(p)
  <2>1. ~codec.utc => ~Serial(s.hw)
    BY DEF OneKind, Types, Serial
  <2>2. /\ s.pc = "wait" /\ t.state = s.state /\ t.hw = s.hw
        /\ t.pc \in {"gone", StartOf(s)} /\ UNCHANGED <<hwaccel_mutex, async_lock>>
    BY <1>2, WorkerEffects DEF Wake, Moves, locks
  <2> QED
    BY <1>1, <1>12, <2>1, <2>2 DEF StartOf, Owns, PlaceOf
<1>3. CASE LockHwaccel(p)
  BY <1>1, <1>3, WorkerEffects DEF LockHwaccel, Moves, Owns, PlaceOf
<1>14. ASSUME s.pc \in {"decode", "publish"}, t.pc = ReleaseOf(p), t.hw = s.hw,
              t.state = s.state \/ t.state = "finished"
       PROVE  Owns(t, p, hwaccel_mutex, async_lock)
  <2>1. /\ t.pc = "release" => hwaccel_mutex = p
        /\ t.pc = "unlock" => async_lock = p
        /\ t.pc # "release" => hwaccel_mutex # p
        /\ t.pc \in {"release", "unlock", "ready"}
    BY <1>14 DEF ReleaseOf
  <2>2. s.state # "ready" /\ (Serial(t.hw) => hwaccel_mutex = p)
    BY <1>1, <1>14 DEF Owns, PlaceOf
  <2> QED
    BY <1>14, <2>1, <2>2 DEF Owns
<1>15. ASSUME NEW h, t.hw = h, t.pc = SetupOf(p, h), t.state = "setup"
       PROVE  Owns(t, p, hwaccel_mutex, async_lock)
  BY <1>12, <1>15 DEF SetupOf, Owns
<1>4. CASE AllocFails(p)
  <2>1. /\ s.pc = "decode" /\ t.state = s.state /\ t.hw = s.hw /\ t.pc = ReleaseOf(p)
        /\ UNCHANGED <<hwaccel_mutex, async_lock>>
    BY <1>4, WorkerEffects DEF AllocFails, Moves, locks
  <2> QED
    BY <1>14, <2>1
<1>5. CASE ReadHeader(p)
  <2>1. /\ t.state = "setup" /\ t.pc = SetupOf(p, t.hw) /\ UNCHANGED <<hwaccel_mutex, async_lock>>
    BY <1>5, WorkerEffects DEF ReadHeader, locks
  <2> QED
    BY <1>15, <2>1
<1>6. CASE Await(p) \/ Frame(p)
  <2>1. /\ s.pc \in {"decode", "await"} /\ t.pc \in {"decode", "await"}
        /\ t.state = s.state /\ t.hw = s.hw /\ UNCHANGED <<hwaccel_mutex, async_lock>>
    BY <1>6, WorkerEffects DEF Await, Frame, Moves, locks
  <2> QED
    BY <1>1, <2>1 DEF Owns, PlaceOf
<1>7. CASE Ends(p)
  <2>1. /\ s.pc = "decode" /\ t.state = s.state /\ t.hw = s.hw
        /\ t.pc = IF s.state = "setup" THEN SetupOf(p, s.hw) ELSE ReleaseOf(p)
        /\ UNCHANGED <<hwaccel_mutex, async_lock>>
    BY <1>7, WorkerEffects DEF Ends, locks
  <2> QED
    BY <1>14, <1>15, <2>1
<1>8. CASE Release(p) \/ Unlock(p)
  BY <1>1, <1>8, WorkerEffects DEF Release, Unlock, Moves, Owns, PlaceOf, Serial, AsyncUnsafe
<1>9. CASE Ready(p)
  <2>1. /\ s.pc = "ready" /\ t.pc = "wait" /\ t.state = "ready" /\ t.hw = s.hw
        /\ UNCHANGED <<hwaccel_mutex, async_lock>>
    BY <1>9, WorkerEffects DEF Ready, locks
  <2> QED
    BY <1>1, <2>1 DEF Owns
<1>10. CASE LockInSetup(p) \/ AsyncLock(p)
  BY <1>1, <1>10, WorkerEffects DEF LockInSetup, AsyncLock, Moves, Owns, PlaceOf, Serial, AsyncUnsafe
<1>11. CASE Publish(p)
  <2>1. /\ s.pc = "publish" /\ t.state = "finished" /\ t.hw = s.hw
        /\ t.pc \in {"decode", ReleaseOf(p)} /\ UNCHANGED <<hwaccel_mutex, async_lock>>
    <3>1. s.pc = "publish" /\ UNCHANGED <<hwaccel_mutex, async_lock>>
      BY <1>11 DEF Publish, locks
    <3>2. /\ t.pc = (IF s.ended THEN ReleaseOf(p) ELSE "decode")
          /\ t.state = "finished" /\ t.hw = s.hw
      BY <1>11, WorkerEffects, Zenon
    <3>3. t.pc \in {"decode", ReleaseOf(p)}
      BY <3>2, Zenon
    <3> QED
      BY <3>1, <3>2, <3>3
  <2>2. CASE t.pc = ReleaseOf(p)
    BY <1>14, <2>1, <2>2
  <2>3. CASE t.pc = "decode"
    BY <1>1, <2>1, <2>3 DEF Owns
  <2> QED
    BY <2>1, <2>2, <2>3
<1> QED
  BY <1>2, <1>3, <1>4, <1>5, <1>6, <1>7, <1>8, <1>9, <1>10, <1>11 DEF Worker

LEMMA KindWorker ==
    ASSUME Types, Places, OneKind, Locks, NEW p \in P, Worker(p)
    PROVE  OneKind'
<1> DEFINE s == th[p]
           t == th'[p]
<1>1. WorkerKeeps(p) /\ s \in Thread /\ codec' = codec /\ user' = user
  BY WorkerStep DEF Types, WorkerKeeps
<1>2. s.hw \in {"none", codec.hwaccel} /\ Owns(s, p, hwaccel_mutex, async_lock) /\ p # Nobody
  BY SizesAssumption DEF OneKind, Locks, P, Nobody
<1>3. t.hw \in {"none", codec.hwaccel}
  <2>1. CASE ReadHeader(p)
    BY <2>1, WorkerEffects
  <2>2. CASE Release(p)
    BY <2>2, WorkerEffects
  <2>3. CASE ~ReadHeader(p) /\ ~Release(p)
    BY <1>2, <2>3, WorkerEffects DEF Worker, Moves
  <2> QED
    BY <2>1, <2>2, <2>3
<1>4. ASSUME SafeKind(s)
      PROVE  SafeKind(th[p])'
  <2>1. CASE ReadHeader(p)
    BY <1>1, <1>3, <2>1, WorkerEffects DEF SafeKind
  <2>2. CASE Release(p)
    BY <1>1, <1>4, <2>2, WorkerEffects DEF SafeKind
  <2>3. CASE Ends(p)
    <3>1. /\ t.hw = s.hw
          /\ s.state = "setup" => t.threadsafe = (s.hw = "safe")
          /\ s.state # "setup" => t.threadsafe = s.threadsafe
      BY <2>3, WorkerEffects, Zenon
    <3>2. CASE s.state = "setup"
      BY <1>1, <1>3, <3>1, <3>2 DEF SafeKind
    <3>3. CASE s.state # "setup"
      BY <1>1, <1>4, <3>1, <3>3 DEF SafeKind
    <3> QED
      BY <3>2, <3>3
  <2>4. CASE ~ReadHeader(p) /\ ~Release(p) /\ ~Ends(p)
    <3>1. t.hw = s.hw /\ t.threadsafe = s.threadsafe
      BY <2>4, WorkerEffects DEF Worker, Moves
    <3> QED
      BY <1>1, <1>4, <3>1 DEF SafeKind
  <2> QED
    BY <2>1, <2>2, <2>3, <2>4
<1>5. fctx'.stash \in {"none", codec.hwaccel} /\ fctx'.stash # "safe"
  <2>1. CASE Publish(p)
    <3>1. fctx'.stash = IF Serial(s.hw) THEN s.hw ELSE fctx.stash
      BY <2>1 DEF Publish, Types, FrameContext
    <3> QED
      BY <1>2, <3>1 DEF OneKind, Serial
  <2>2. CASE ~Publish(p)
    <3>1. fctx' = fctx
      BY <2>2 DEF Worker, Wake, LockHwaccel, AllocFails, ReadHeader, Await, Frame, Ends,
                  Release, Unlock, Ready, LockInSetup, AsyncLock
    <3> QED
      BY <3>1 DEF OneKind
  <2> QED
    BY <2>1, <2>2
<1>6. hwaccel_mutex' # Nobody => Serial(codec.hwaccel)
  <2>1. CASE LockHwaccel(p) \/ LockInSetup(p)
    BY <1>2, <2>1 DEF LockHwaccel, LockInSetup, Owns, Serial
  <2>2. CASE ~LockHwaccel(p) /\ ~LockInSetup(p)
    <3>1. hwaccel_mutex' \in {hwaccel_mutex, Nobody}
      BY <2>2, Zenon DEF Worker, Wake, AllocFails, ReadHeader, Await, Frame, Ends,
                  Release, Unlock, Ready, AsyncLock, Publish, locks
    <3> QED
      BY <3>1 DEF OneKind
  <2> QED
    BY <2>1, <2>2
<1>7. \A r \in P : th'[r].hw \in {"none", codec'.hwaccel}
  BY <1>1, <1>3 DEF OneKind, WorkerKeeps
<1>8. user'.pc \notin {"kill", "join", "freed"} =>
          /\ user'.hw = "none"
          /\ \A r \in P : SafeKind(th[r])'
  BY <1>1, <1>4 DEF OneKind, WorkerKeeps, SafeKind
<1> QED
  BY <1>1, <1>5, <1>6, <1>7, <1>8 DEF OneKind

LEMMA HwaccelWorker ==
    ASSUME Types, Places, OneSetup, OneKind, Stash, Locks, NEW p \in P, Worker(p)
    PROVE  OneKind' /\ Stash' /\ Locks'
<1>1. WorkerKeeps(p) /\ user' = user
  BY WorkerStep DEF WorkerKeeps
<1>2. OneKind'
  BY KindWorker
<1>3. Stash'
  <2>1. ASSUME NEW r \in P, th'[r].state = "setup"
        PROVE  fctx'.stash = "none"
    <3>1. th[r].state = "setup"
      BY <1>1, <2>1, PlacesWorker DEF WorkerKeeps
    <3>2. CASE Publish(p)
      <4>1. r = p
        BY <3>1, <3>2 DEF Publish, Places, OneSetup
      <4> QED
        BY <2>1, <3>2, <4>1, WorkerEffects
    <3>3. CASE ~Publish(p)
      <4>1. fctx' = fctx
        BY <3>3 DEF Worker, Wake, LockHwaccel, AllocFails, ReadHeader, Await, Frame, Ends,
                    Release, Unlock, Ready, LockInSetup, AsyncLock
      <4> QED
        BY <3>1, <4>1 DEF Stash
    <3> QED
      BY <3>2, <3>3
  <2> QED
    BY <2>1 DEF Stash
<1>4. Locks'
  <2>1. ASSUME NEW r \in P, r # p
        PROVE  Owns(th'[r], r, hwaccel_mutex', async_lock')
    <3>1. th'[r] = th[r] /\ Owns(th[r], r, hwaccel_mutex, async_lock) /\ r # Nobody
      BY <1>1, <2>1, SizesAssumption DEF WorkerKeeps, Locks, P, Nobody
    <3>2. (hwaccel_mutex = r => hwaccel_mutex' = r) /\ (async_lock = r => async_lock' = r)
      BY <2>1, <3>1, OwnersWorker
    <3> QED
      BY <3>1, <3>2 DEF Owns
  <2>2. user'.pc = "user" => async_lock' = User
    <3>1. User # p /\ User # Nobody
      BY SizesAssumption DEF P, User, Nobody
    <3> QED
      BY <1>1, <3>1, OwnersWorker DEF Locks
  <2> QED
    BY <2>1, <2>2, OwnersWorker DEF Locks
<1> QED
  BY <1>2, <1>3, <1>4

\* The user's thread gives the lock back before it waits for anyone.
LEMMA OwnersUser ==
    ASSUME Types, Locks, UNCHANGED hwaccel_mutex,
           user'.pc = "user" => async_lock' = User,
           async_lock' = async_lock \/ user.pc = "user" \/ async_lock = Nobody,
           \A r \in P : Owns(th'[r], r, hwaccel_mutex, async_lock)
    PROVE  Locks'
<1>1. ASSUME NEW r \in P PROVE Owns(th'[r], r, hwaccel_mutex', async_lock')
  <2>1. async_lock = r => async_lock' = r
    BY SizesAssumption DEF Locks, P, User, Nobody
  <2> QED
    BY <2>1 DEF Owns
<1> QED
  BY <1>1 DEF Locks

LEMMA UpdatedKind ==
    ASSUME NEW d \in Thread, NEW s \in Thread, SafeKind(d), SafeKind(s),
           ~Serial(d.hw), ~Serial(s.hw), NEW t \in Thread, t.threadsafe = s.threadsafe,
           t.hw = IF s.threadsafe THEN s.hw ELSE IF d.threadsafe THEN "none" ELSE d.hw
    PROVE  SafeKind(t) /\ ~Serial(t.hw) /\ t.hw \in {"none", d.hw, s.hw}
<1>1. CASE s.threadsafe
  BY <1>1 DEF SafeKind
<1>2. CASE ~s.threadsafe
  BY <1>2 DEF SafeKind, Serial
<1> QED
  BY <1>1, <1>2

LEMMA FailedKind ==
    ASSUME NEW d \in Thread, NEW s \in Thread, SafeKind(d), ~Serial(d.hw),
           NEW t \in Thread, FailedCopy(t, d, s)
    PROVE  SafeKind(t) /\ ~Serial(t.hw) /\ t.hw \in {"none", d.hw}
BY DEF FailedCopy, SafeKind, Serial

LEMMA HwaccelPrevious ==
    ASSUME Types, Places, Order, OneSetup, OneKind, Stash, Locks, Previous
    PROVE  OneKind' /\ Stash' /\ Locks'
<1>1. PICK t \in Thread : (Inherited(t) /\ Submits(t)) \/ CopyFails(t)
  BY PreviousStep
<1>2. PICK p \in P : p = fctx.next_decoding
  BY ContextNumbers
<1>3. /\ user.pc = "previous" /\ codec' = codec /\ async_lock' = async_lock
      /\ hwaccel_mutex' = hwaccel_mutex /\ user.hw = "none"
      /\ \A r \in P : SafeKind(th[r]) /\ th[r] \in Thread
  BY PreviousStep DEF locks, OneKind, Types
<1>4. ~Busy(p)
  BY <1>2, <1>3, NextIsFree
<1>5. th[p].state = "ready" /\ th[p].pc \in {"wait", "gone"} /\ ~Serial(th[p].hw)
  BY <1>4 DEF Order, Packets, Places, Locks, Owns
<1>6. /\ t.hw \in {"none", codec.hwaccel} /\ SafeKind(t)
      /\ Submits(t) => ~Serial(t.hw)
      /\ CopyFails(t) => ~Serial(t.hw)
      /\ t.pc = th[p].pc /\ t.state = "ready"
  <2>1. t.pc = th[p].pc /\ t.state = "ready"
    BY <1>1, <1>2, <1>5 DEF Inherited, CopyFails, FailedCopy
  <2>2. CASE t.hw = th[p].hw /\ t.threadsafe = th[p].threadsafe
    BY <1>3, <1>5, <2>1, <2>2 DEF OneKind, SafeKind
  <2>3. ASSUME NEW q \in P, t.threadsafe = th[q].threadsafe,
               t.hw = IF t.threadsafe THEN th[q].hw ELSE IF th[p].threadsafe THEN "none" ELSE th[p].hw
        PROVE  t.hw \in {"none", codec.hwaccel} /\ SafeKind(t) /\ ~Serial(t.hw)
    <3>1. SafeKind(th[p]) /\ SafeKind(th[q])
      BY <1>3
    <3>2. th[p].hw \in {"none", codec.hwaccel} /\ th[q].hw \in {"none", codec.hwaccel}
      BY DEF OneKind
    <3>3. CASE t.threadsafe
      BY <2>3, <3>1, <3>2, <3>3 DEF SafeKind, Serial
    <3>4. CASE ~t.threadsafe
      BY <1>5, <2>3, <3>1, <3>2, <3>4 DEF SafeKind, Serial
    <3> QED
      BY <3>3, <3>4
  <2>4. CASE Inherited(t)
    <3>1. \/ t.hw = th[p].hw /\ t.threadsafe = th[p].threadsafe
          \/ \E q \in P :
                /\ t.threadsafe = th[q].threadsafe
                /\ t.hw = IF t.threadsafe THEN th[q].hw
                          ELSE IF th[p].threadsafe THEN "none" ELSE th[p].hw
      BY <1>2, <2>4, Zenon DEF Inherited
    <3> QED
      BY <2>1, <2>2, <2>3, <3>1
  <2>5. CASE CopyFails(t)
    <3>1. PICK q \in P : FailedCopy(t, th[p], th[q])
      BY <1>2, <2>5 DEF CopyFails
    <3>2. SafeKind(t) /\ ~Serial(t.hw) /\ t.hw \in {"none", th[p].hw}
      BY <1>3, <1>5, <3>1, FailedKind
    <3> QED
      BY <2>1, <3>2 DEF OneKind
  <2> QED
    BY <1>1, <2>4, <2>5
<1>7. t.threadsafe => fctx.stash = "none"
  BY <1>6 DEF OneKind, SafeKind
<1>8. CASE Inherited(t) /\ Submits(t)
  <2> DEFINE u == Submitted(t)
  <2>1. /\ th' = [th EXCEPT ![p] = u] /\ user'.pc \in {"loop", "collect"} /\ user'.hw = "none"
        /\ fctx'.stash = IF t.threadsafe THEN fctx.stash ELSE t.hw
    BY <1>2, <1>3, <1>8 DEF Submits, AfterSubmit, Types, FrameContext, UserThread
  <2>2. /\ u.pc = th[p].pc /\ u.state = "setup" /\ u.threadsafe = t.threadsafe
        /\ u.hw = IF t.threadsafe THEN t.hw ELSE fctx.stash
    BY <1>6, SubmittedThread
  <2>3. fctx'.stash = "none"
    <3>1. CASE t.threadsafe
      BY <1>7, <2>1, <3>1
    <3>2. CASE ~t.threadsafe
      <4>1. t.hw # "safe" /\ ~Serial(t.hw)
        BY <1>6, <1>8, <3>2 DEF SafeKind
      <4>2. t.hw \in Kinds
        BY DEF Thread
      <4> QED
        BY <2>1, <3>2, <4>1, <4>2 DEF Serial, Kinds
    <3> QED
      BY <3>1, <3>2
  <2>4. u.hw \in {"none", codec.hwaccel} /\ SafeKind(u)
    <3> HIDE DEF u
    <3> QED
      BY <1>6, <2>2 DEF OneKind, SafeKind
  <2>5. /\ th'[p] = u /\ \A r \in P : r # p => th'[r] = th[r]
    BY <2>1 DEF Types
  <2> HIDE DEF u
  <2>6. OneKind'
    <3>1. \A r \in P : th'[r].hw \in {"none", codec'.hwaccel}
      BY <1>3, <2>4, <2>5 DEF OneKind
    <3>2. \A r \in P : SafeKind(th[r])'
      BY <1>3, <2>4, <2>5 DEF SafeKind
    <3>3. hwaccel_mutex' # Nobody => Serial(codec'.hwaccel)
      BY <1>3 DEF OneKind
    <3> QED
      BY <2>1, <2>3, <3>1, <3>2, <3>3 DEF OneKind
  <2>7. Owns(u, p, hwaccel_mutex, async_lock)
    BY <1>5, <2>2 DEF Owns
  <2>8. \A r \in P : Owns(th'[r], r, hwaccel_mutex, async_lock)
    BY <2>5, <2>7 DEF Locks
  <2> QED
    BY <1>3, <2>1, <2>3, <2>6, <2>8, OwnersUser DEF Stash
<1>9. CASE CopyFails(t)
  <2>1. /\ th' = [th EXCEPT ![p] = t] /\ fctx' = fctx
        /\ user'.pc = "failed" /\ user'.hw = "none"
    BY <1>2, <1>3, <1>9 DEF CopyFails, Types, UserThread
  <2>3. /\ th'[p] = t /\ \A r \in P : r # p => th'[r] = th[r]
    BY <2>1 DEF Types
  <2>4. OneKind'
    <3>1. \A r \in P : th'[r].hw \in {"none", codec'.hwaccel}
      BY <1>3, <1>6, <2>3 DEF OneKind
    <3>2. \A r \in P : SafeKind(th[r])'
      BY <1>3, <1>6, <2>3 DEF SafeKind
    <3>3. hwaccel_mutex' # Nobody => Serial(codec'.hwaccel)
      BY <1>3 DEF OneKind
    <3> QED
      BY <1>3, <2>1, <3>1, <3>2, <3>3 DEF OneKind
  <2>5. Owns(t, p, hwaccel_mutex, async_lock)
    BY <1>5, <1>6, <1>9 DEF Owns
  <2>6. \A r \in P : Owns(th'[r], r, hwaccel_mutex, async_lock)
    BY <2>3, <2>5 DEF Locks
  <2>7. Stash'
    BY <1>5, <1>6, <2>1, <2>3 DEF Stash
  <2> QED
    BY <1>3, <2>1, <2>4, <2>6, <2>7, OwnersUser
<1> QED
  BY <1>1, <1>8, <1>9

LEMMA HwaccelFlush ==
    ASSUME Types, Places, OneKind, Locks, FlushParked
    PROVE  OneKind' /\ Stash' /\ Locks'
<1> DEFINE q == fctx.prev
<1>1. /\ user.pc = "flush" /\ user'.pc = "user" /\ user'.hw = "none" /\ user.hw = "none"
      /\ async_lock = Nobody /\ async_lock' = User /\ hwaccel_mutex' = hwaccel_mutex
      /\ codec' = codec /\ fctx'.stash = fctx.stash
      /\ \A r \in P : th[r].state = "ready"
  BY DEF FlushParked, Parked, OneKind, Types, UserThread, FrameContext
<1>2. \A r \in P : /\ th[r].pc \in {"wait", "gone"} /\ ~Serial(th[r].hw)
                   /\ th[r].hw \in {"none", codec.hwaccel}
                   /\ SafeKind(th[r]) /\ th[r] \in Thread
  BY <1>1 DEF OneKind, Places, Locks, Owns, Types
<1>3. 0 \in P
  BY SizesAssumption DEF P
<1>4. PICK t \in Thread : FlushedTo(t)
  BY FlushStep
<1>5. ~Serial(t.hw) /\ t.hw \in {"none", codec.hwaccel} /\ SafeKind(t)
  <2>1. CASE t = th[0]
    BY <1>2, <1>3, <2>1
  <2>2. CASE q \in P /\ t = Updated(th[0], th[q])
    <3>1. /\ t.threadsafe = th[q].threadsafe
          /\ t.hw = IF th[q].threadsafe THEN th[q].hw
                    ELSE IF th[0].threadsafe THEN "none" ELSE th[0].hw
      BY <1>2, <1>3, <2>2, UpdatedThread
    <3>2. SafeKind(t) /\ ~Serial(t.hw) /\ t.hw \in {"none", th[0].hw, th[q].hw}
      BY <1>2, <1>3, <2>2, <3>1, UpdatedKind
    <3> QED
      BY <1>2, <1>3, <2>2, <3>2
  <2>3. CASE q \in P /\ FailedCopy(t, th[0], th[q])
    <3>1. SafeKind(t) /\ ~Serial(t.hw) /\ t.hw \in {"none", th[0].hw}
      BY <1>2, <1>3, <2>3, FailedKind
    <3> QED
      BY <1>2, <1>3, <3>1
  <2> QED
    BY <1>4, <2>1, <2>2, <2>3 DEF FlushedTo
<1>6. \A r \in P : /\ th'[r].hw \in {"none", codec.hwaccel} /\ ~Serial(th'[r].hw)
                   /\ SafeKind(th[r])'
  <2>1. ASSUME NEW r \in P
        PROVE  /\ th'[r].hw = (IF r = 0 THEN t.hw ELSE th[r].hw)
               /\ th'[r].threadsafe = (IF r = 0 THEN t.threadsafe ELSE th[r].threadsafe)
    BY <1>4 DEF FlushedTo, Flushed, Types, Thread
  <2> QED
    BY <1>1, <1>2, <1>5, <2>1 DEF SafeKind
<1>7. \A r \in P : th'[r].pc \in {"wait", "gone"} /\ th'[r].state = "ready"
  BY <1>2, FlushStep
<1>8. OneKind'
  BY <1>1, <1>6 DEF OneKind
<1>9. \A r \in P : Owns(th'[r], r, hwaccel_mutex, async_lock)
  BY <1>6, <1>7 DEF Owns
<1> QED
  BY <1>1, <1>7, <1>8, <1>9, OwnersUser DEF Stash

LEMMA HwaccelStep ==
    Types /\ Places /\ Order /\ OneSetup /\ OneKind /\ Stash /\ Locks /\ [Next]_vars
       => OneKind' /\ Stash' /\ Locks'
<1> SUFFICES ASSUME Types, Places, Order, OneSetup, OneKind, Stash, Locks, [Next]_vars
             PROVE  OneKind' /\ Stash' /\ Locks'
  OBVIOUS
<1>1. CASE Receive \/ Submit \/ Return \/ Flush \/ Free \/ FreeParked
  <2>1. /\ th' = th /\ codec' = codec /\ hwaccel_mutex' = hwaccel_mutex
        /\ user.pc \notin {"kill", "join", "freed"}
    BY <1>1 DEF Receive, Submit, Return, Flush, Free, Park, FreeParked, WorkersKeep
  <2>2. fctx'.stash = fctx.stash
    BY <1>1 DEF Receive, Submit, Return, Flush, Free, Park, FreeParked, WorkersKeep,
                Types, FrameContext
  <2>3. user'.hw = user.hw /\ user'.pc # "freed"
    BY <1>1 DEF Receive, Submit, Return, Flush, Free, Park, FreeParked, Goto, Types, UserThread
  <2>4. /\ user'.pc = "user" => async_lock' = User
        /\ async_lock' = async_lock \/ user.pc = "user" \/ async_lock = Nobody
    BY <1>1 DEF Receive, Submit, Return, Flush, Free, Park, FreeParked, Goto, Parked,
                Types, UserThread
  <2>5. Locks'
    BY <2>1, <2>4, OwnersUser DEF Locks
  <2>6. OneKind' /\ Stash'
    BY <2>1, <2>2, <2>3 DEF OneKind, SafeKind, Stash
  <2> QED
    BY <2>5, <2>6
<1>2. CASE Freed
  <2>1. /\ th' = th /\ codec' = codec /\ hwaccel_mutex' = hwaccel_mutex /\ async_lock' = async_lock
        /\ user'.pc = "freed" /\ fctx'.stash = "none" /\ user'.hw = fctx.stash
    BY <1>2 DEF Freed, WorkersKeep, OneKind, Types, FrameContext, UserThread
  <2>2. Locks'
    BY <2>1, OwnersUser DEF Locks
  <2> QED
    BY <2>1, <2>2 DEF OneKind, Stash
<1>3. CASE Collect
  <2>1. /\ codec' = codec /\ hwaccel_mutex' = hwaccel_mutex /\ async_lock' = async_lock
        /\ user.pc = "collect" /\ user'.pc = "loop" /\ user'.hw = user.hw
        /\ fctx'.stash = fctx.stash
    BY <1>3 DEF Collect, Goto, locks, Types, FrameContext, UserThread
  <2>2. \A r \in P : /\ th'[r].pc = th[r].pc /\ th'[r].state = th[r].state
                     /\ th'[r].hw = th[r].hw /\ th'[r].threadsafe = th[r].threadsafe
    BY <1>3 DEF Collect, Types, Thread
  <2>3. \A r \in P : Owns(th'[r], r, hwaccel_mutex, async_lock)
    BY <2>2 DEF Locks, Owns
  <2>4. Locks'
    BY <2>1, <2>3, OwnersUser
  <2>5. Stash'
    BY <2>1, <2>2 DEF Stash
  <2>6. OneKind'
    BY <2>1, <2>2 DEF OneKind, SafeKind
  <2> QED
    BY <2>4, <2>5, <2>6
<1>4. CASE Kill \/ Join
  <2>1. /\ codec' = codec /\ hwaccel_mutex' = hwaccel_mutex /\ async_lock' = async_lock
        /\ user.pc \in {"kill", "join"} /\ user'.pc \in {"kill", "join"} /\ user'.hw = user.hw
        /\ fctx' = fctx
    BY <1>4 DEF Kill, Join, Goto, locks, Types, UserThread
  <2>2. \A r \in P : /\ th'[r].pc = th[r].pc /\ th'[r].state = th[r].state
                     /\ th'[r].hw = th[r].hw \/ (th'[r].hw = "none" /\ th[r].pc = "gone")
    BY <1>4 DEF Kill, Join, Types, Thread
  <2>3. \A r \in P : Owns(th'[r], r, hwaccel_mutex, async_lock)
    <3>1. ~Serial("none")
      BY DEF Serial
    <3> QED
      BY <2>2, <3>1 DEF Locks, Owns
  <2>4. Locks'
    BY <2>1, <2>3, OwnersUser
  <2>5. OneKind' /\ Stash'
    BY <2>1, <2>2 DEF OneKind, Stash
  <2> QED
    BY <2>4, <2>5
<1>5. CASE UNCHANGED vars
  BY <1>5, Zenon DEF vars, locks, OneKind, SafeKind, Stash, Locks
<1> QED
  BY <1>1, <1>2, <1>3, <1>4, <1>5, HwaccelWorker, HwaccelPrevious, HwaccelFlush
     DEF Next, UserSteps, Caller

-----------------------------------------------------------------------------
(* The invariant, and what follows from it.                                *)

LEMMA InitIInv == Init => IInv
<1> SUFFICES ASSUME Init PROVE IInv
  OBVIOUS
<1>1. /\ N \in Nat /\ N >= 2 /\ 0 \in P /\ User \notin P /\ Nobody \notin P
      /\ \A p \in P : p \in 0..(N - 1) /\ th[p] = Thread0
  BY SizesAssumption DEF P, Init, User, Nobody
<1>2. Thread0 \in Thread
  BY DEF Thread0, Thread, ThreadPlaces, Kinds, Results
<1>3. /\ fctx.next_decoding = 0 /\ fctx.next_finished = 0 /\ fctx.prev = Nobody
      /\ fctx.stash = "none" /\ fctx.pkt = 0 /\ fctx.df = 0 /\ fctx.result = "ok"
      /\ user.pc = "user" /\ user.sent = 0 /\ user.hw = "none" /\ user.ctx = 0
      /\ setup_of = 0 /\ lost = FALSE /\ async_lock = User /\ hwaccel_mutex = Nobody
  BY DEF Init
<1>4. Types
  <2>1. codec \in [hwaccel : Kinds, utc : BOOLEAN, delay : BOOLEAN]
    BY SizesAssumption DEF Init, Kinds
  <2>2. th \in [P -> Thread]
    BY <1>2 DEF Init
  <2>3. fctx \in FrameContext
    BY <1>1 DEF Init, FrameContext, Kinds, Results
  <2>4. user \in UserThread
    BY DEF Init, UserThread, UserPlaces, Kinds
  <2>5. codec.hwaccel # "none" => codec.utc
    BY DEF Init
  <2>6. async_lock \in P \cup {User, Nobody} /\ hwaccel_mutex \in P \cup {Nobody}
    BY <1>3
  <2>7. setup_of \in Nat
    BY <1>3
  <2>8. lost \in BOOLEAN
    BY <1>3
  <2> QED
    BY <2>1, <2>2, <2>3, <2>4, <2>5, <2>6, <2>7, <2>8, Zenon DEF Types
<1>5. InFlight = 0 /\ \A p \in P : ~Busy(p)
  BY <1>1, <1>3 DEF InFlight, Busy, Ahead
<1>6. Turn
  BY <1>1, <1>3, <1>5 DEF Turn
<1>7. Packets /\ EndComing
  BY <1>1, <1>3, <1>5 DEF Packets, EndComing, Thread0
<1>8. Places /\ OneSetup /\ Stash
  BY <1>1, <1>3 DEF Places, OneSetup, Stash, Thread0
<1>9. Context
  BY <1>1, <1>3, <1>5 DEF Context, Thread0
<1>10. OneKind
  BY <1>1, <1>3 DEF OneKind, SafeKind, Thread0
<1>11. Locks
  BY <1>1, <1>3 DEF Locks, Owns, Thread0, Serial
<1> QED
  BY <1>4, <1>6, <1>7, <1>8, <1>9, <1>10, <1>11 DEF IInv

LEMMA Inductive == IInv /\ [Next]_vars => IInv'
<1> SUFFICES ASSUME IInv, [Next]_vars PROVE IInv'
  OBVIOUS
<1>1. /\ Types /\ Order /\ Places /\ OneSetup /\ Context /\ OneKind /\ Stash /\ Locks
  BY DEF IInv, Order
<1>2. Types'
  BY <1>1, TypesStep
<1>3. Order'
  BY <1>1, OrderStep
<1>4. Places' /\ OneSetup'
  BY <1>1, PlacesStep
<1>5. Context'
  BY <1>1, ContextStep
<1>6. OneKind' /\ Stash' /\ Locks'
  BY <1>1, HwaccelStep
<1> QED
  BY <1>2, <1>3, <1>4, <1>5, <1>6 DEF IInv, Order

LEMMA Invariant == Spec => []IInv
BY InitIInv, Inductive, PTL DEF Spec

\* Two threads never decode with hwaccels that are not thread-safe at the same
\* time, none decodes with one that is not async-safe while the user is outside
\* of these functions, and the stash is empty when a thread fills it: what
\* hwaccel_mutex, async_lock and the stash of pthread_frame.c are for.
THEOREM OneHwaccelAtATime == Spec => []HwaccelAlone
<1>1. IInv => HwaccelAlone
  BY DEF IInv, HwaccelAlone, Locks, Owns, Stash, Places
<1> QED
  BY <1>1, Invariant, PTL

\* A thread begins a packet with the context the last packet with a header has
\* left, also after a failed submission (submit_packet() and
\* update_context_from_thread()), and also after ff_thread_flush() - save, up to
\* the next header, after a flush that could not copy the context to thread 0 or
\* that came when a codec without delay had been given an empty packet. And the
\* user sees no context later than the packet whose frames are returned.
THEOREM ContextFollows == Spec => []ContextIsPredecessors
<1>1. IInv => ContextIsPredecessors
  BY DEF IInv, ContextIsPredecessors, Context, OneSetup
<1> QED
  BY <1>1, Invariant, PTL

\* ff_thread_receive_frame() returns the frames of the packets in the order
\* the packets were sent, none twice and none skipped, and the end only when
\* no thread has anything left.
THEOREM PacketsInOrder == Spec => OutputInOrder
<1> DEFINE Step ==
      /\ Collect =>
           /\ th[fctx.next_finished].pkt = fctx.pkt + 1
           /\ fctx.df = 0 /\ fctx.result = "ok"
      /\ \A p \in P : th'[p].pkt # th[p].pkt =>
           /\ th[p].state = "ready" /\ th[p].pkt <= fctx.pkt
           /\ th[p].df = 0 /\ th[p].result = "ok"
      /\ user'.ended /\ ~user.ended =>
           \A p \in P : th[p].pkt <= fctx.pkt \/ th[p].eof
<1>1. ASSUME IInv, Next PROVE Step
  <2>1. Types /\ Order /\ Places
    BY <1>1 DEF IInv, Order
  <2>2. Collect => /\ th[fctx.next_finished].pkt = fctx.pkt + 1
                   /\ fctx.df = 0 /\ fctx.result = "ok"
    BY <2>1, OrderCollect
  <2>3. ASSUME NEW p \in P, th'[p].pkt # th[p].pkt
        PROVE  /\ th[p].state = "ready" /\ th[p].pkt <= fctx.pkt
               /\ th[p].df = 0 /\ th[p].result = "ok"
    <3>1. Previous
      <4>1. ASSUME NEW r \in P, Worker(r) PROVE FALSE
        BY <2>1, <2>3, <4>1, WorkerStep DEF WorkerKeeps
      <4>2. CASE Collect \/ Kill \/ Join
        BY <2>1, <2>3, <4>2 DEF Collect, Kill, Join, Types, Thread
      <4>3. CASE FlushParked
        BY <2>1, <2>3, <4>3, FlushStep
      <4>4. CASE Receive \/ Submit \/ Return \/ Flush \/ Free \/ FreeParked \/ Freed
        BY <2>3, <4>4 DEF Receive, Submit, Return, Flush, Free, Park, FreeParked, Freed,
                          WorkersKeep
      <4> QED
        BY <1>1, <4>1, <4>2, <4>3, <4>4 DEF Next, UserSteps, Caller
    <3>2. PICK t \in Thread : (Inherited(t) /\ Submits(t)) \/ CopyFails(t)
      BY <2>1, <3>1, PreviousStep
    <3>3. PICK d \in P : d = fctx.next_decoding
      BY <2>1, ContextNumbers
    <3>4. p = d
      BY <2>1, <2>3, <3>2, <3>3 DEF Submits, CopyFails, Types
    <3>5. ~Busy(d)
      BY <2>1, <3>1, <3>3, NextIsFree, PreviousStep
    <3> QED
      BY <2>1, <3>4, <3>5 DEF Order, Packets
  <2>4. ASSUME user'.ended, ~user.ended, NEW p \in P
        PROVE  th[p].pkt <= fctx.pkt \/ th[p].eof
    <3>1. Return
      BY <1>1, <2>1, <2>4, WorkerStep
         DEF Next, UserSteps, Caller, Submit, Previous, Collect, FlushParked, FreeParked,
             Kill, Join, Freed, Receive, Flush, Free, Park, Goto, Types, UserThread, WorkerKeeps
    <3>2. fctx.result = "eof"
      BY <2>1, <2>4, <3>1 DEF Return, Types, UserThread
    <3> QED
      BY <2>1, <3>2 DEF Order, EndComing, Packets
  <2> QED
    BY <2>2, <2>3, <2>4
<1>2. IInv /\ [Next]_vars => [Step]_vars
  BY <1>1
<1> QED
  BY <1>2, Invariant, PTL DEF Spec, OutputInOrder

-----------------------------------------------------------------------------
(* The packets there can be: the bounds of the model hold.                 *)

Most == MaxPackets + (N + 2) * (MaxIncidents + 1)
Inputs == IF user.input THEN 1 ELSE 0
Budget == Most - (left.packets + (N + 2) * left.incidents)

\* What may be sent beyond the packets the user has and those that the next
\* incidents pay for.
Spare == Budget - (user.sent + Inputs)
Due == IF user.pc = "collect" THEN 0 ELSE 1

\* Thread p has an empty packet and will give the end of the stream.
EndComes(p) ==
    Busy(p) /\ th[p].eof /\ th[p].result # "error" /\ Ahead(p) + Due <= Spare

\* A user that drains sends an empty packet for each one it collects, until it
\* collects an end; only an incident may spoil the end, and it pays for N + 2.
Room ==
    /\ left \in [packets : Nat, incidents : Nat]
    /\ Spare \in Nat
    /\ ~Empty \/ user.pc = "flush" => Spare >= N + 1
    /\ Empty => \/ InFlight + Due <= Spare
                \/ \E p \in P : EndComes(p)
                \/ fctx.result = "eof" \/ user.ended

Calls ==
    /\ user.pc = "previous" => HasPacket
    /\ user.ended => user.pc \in {"user", "flush", "free", "kill", "join", "freed"}
    /\ user.p \in 0..N /\ (user.pc = "join" => user.p \in P)
    /\ setup_of <= user.sent

\* A thread that is through with an empty packet has a result.
Finished(t) ==
    /\ t.ended => t.pc \in {"lock_setup", "lock_async", "publish"}
    /\ t.eof /\ (t.pc \in {"release", "unlock", "ready"} \/ t.ended) => t.result # "ok"

Finishing ==
    \A p \in P :
        /\ Finished(th[p])
        /\ Busy(p) /\ th[p].eof /\ th[p].state = "ready" => th[p].result # "ok"

BInv == IInv /\ Room /\ Calls /\ Finishing

LEMMA Costs ==
    /\ N \in Nat /\ N >= 2 /\ Most \in Int
    /\ \A i \in Nat : (N + 2) * i \in Nat
    /\ \A i \in Nat : i > 0 => i - 1 \in Nat /\ (N + 2) * (i - 1) = (N + 2) * i - (N + 2)
BY SizesAssumption DEF Most

\* What a step takes of the bounds, it adds to the budget.
LEMMA BudgetStep ==
    ASSUME left \in [packets : Nat, incidents : Nat]
    PROVE  /\ Budget \in Int
           /\ UNCHANGED left => left' \in [packets : Nat, incidents : Nat] /\ Budget' = Budget
           /\ Incident => /\ left' \in [packets : Nat, incidents : Nat]
                          /\ Budget' = Budget + (N + 2)
           /\ left.packets > 0 /\ left' = [left EXCEPT !.packets = @ - 1] =>
                 /\ left' \in [packets : Nat, incidents : Nat]
                 /\ Budget' = Budget + 1
<1> DEFINE a == left.packets
           i == left.incidents
<1>1. a \in Nat /\ i \in Nat
  OBVIOUS
<1>2. Budget \in Int /\ Most' = Most /\ Most \in Int /\ N \in Nat
  BY <1>1, Costs DEF Budget, Most
<1>3. ASSUME UNCHANGED left
      PROVE  left' \in [packets : Nat, incidents : Nat] /\ Budget' = Budget
  BY <1>2, <1>3 DEF Budget
<1>4. ASSUME Incident
      PROVE  left' \in [packets : Nat, incidents : Nat] /\ Budget' = Budget + (N + 2)
  <2>1. i > 0 /\ left'.incidents = i - 1 /\ left'.packets = a
        /\ left' = [left EXCEPT !.incidents = i - 1]
    BY <1>4 DEF Incident
  <2>2. i - 1 \in Nat /\ (N + 2) * (i - 1) = (N + 2) * i - (N + 2) /\ (N + 2) * i \in Nat
    BY <1>1, <2>1, Costs
  <2>3. left' \in [packets : Nat, incidents : Nat]
    BY <2>1, <2>2
  <2> HIDE DEF a, i
  <2>4. Budget' = Most - (a + ((N + 2) * i - (N + 2)))
    BY <1>2, <2>1, <2>2 DEF Budget
  <2>5. Budget = Most - (a + (N + 2) * i)
    BY DEF Budget, a, i
  <2> DEFINE x == (N + 2) * i
  <2>6. x \in Nat
    BY <2>2
  <2> HIDE DEF x
  <2>7. Most - (a + (x - (N + 2))) = Most - (a + x) + (N + 2)
    BY <1>1, <1>2, <2>6
  <2> QED
    BY <2>3, <2>4, <2>5, <2>7 DEF x
<1>5. ASSUME a > 0, left' = [left EXCEPT !.packets = @ - 1]
      PROVE  left' \in [packets : Nat, incidents : Nat] /\ Budget' = Budget + 1
  <2>1. left'.packets = a - 1 /\ left'.incidents = i /\ a - 1 \in Nat
        /\ left' = [left EXCEPT !.packets = a - 1]
    BY <1>1, <1>5
  <2>2. left' \in [packets : Nat, incidents : Nat]
    BY <2>1
  <2> DEFINE x == (N + 2) * i
  <2>3. x \in Nat
    BY <1>1, Costs
  <2>4. Budget' = Most - ((a - 1) + x) /\ Budget = Most - (a + x)
    BY <1>2, <2>1 DEF Budget
  <2> HIDE DEF x, a
  <2>5. Most - ((a - 1) + x) = Most - (a + x) + 1
    BY <1>1, <1>2, <2>3
  <2> QED
    BY <2>2, <2>4, <2>5
<1> QED
  BY <1>2, <1>3, <1>4, <1>5

\* An incident, and whatever leaves N + 1 to spare, makes room for any ending.
LEMMA RoomPaid ==
    ASSUME Order', left' \in [packets : Nat, incidents : Nat], Spare' \in Int, Spare' >= N + 1
    PROVE  Room'
<1>1. N \in Nat
  BY SizesAssumption
<1>2. InFlight' \in 0..N /\ (user'.pc # "collect" => InFlight' < N)
  BY DEF Order, Turn
<1>3. Due' = 0 \/ (Due' = 1 /\ InFlight' < N)
  BY <1>2, Zenon DEF Due
<1>4. PICK f \in 0..N, d \in 0..1, s \in Int : f = InFlight' /\ d = Due' /\ s = Spare'
  BY <1>1, <1>2, <1>3
<1>5. (d = 0 \/ (d = 1 /\ f < N)) /\ s >= N + 1
  BY <1>3, <1>4, Zenon
<1>6. f + d <= s /\ s \in Nat
  BY <1>1, <1>5
<1> QED
  BY <1>4, <1>6, Zenon DEF Room

LEMMA RoomKept ==
    ASSUME Types, Room, left' \in [packets : Nat, incidents : Nat], Spare' \in Int, Spare' >= Spare,
           Empty' = Empty, UNCHANGED <<user.sent, fctx.pkt, fctx.next_finished>>,
           user.ended => user'.ended,
           fctx.result = "eof" => fctx'.result = "eof" \/ user'.ended,
           Due' = Due,
           user'.pc = "flush" => user.pc = "flush",
           \A p \in P : th[p].eof /\ th[p].result # "error"
                           => th'[p].eof /\ th'[p].result # "error"
    PROVE  Room'
<1>1. /\ N \in Nat /\ Spare \in Nat /\ InFlight' = InFlight /\ Due \in 0..1
      /\ InFlight \in Int
  BY Numbers DEF Room, InFlight, Due
<1>2. \A p \in P : Ahead(p)' = Ahead(p) /\ Ahead(p) \in Int
  BY Numbers DEF Ahead
<1>3. \A p \in P : EndComes(p) => EndComes(p)'
  BY <1>1, <1>2 DEF EndComes, Busy
<1>4. Empty' => \/ InFlight' + Due' <= Spare'
                \/ \E p \in P : EndComes(p)'
                \/ fctx'.result = "eof" \/ user'.ended
  BY <1>1, <1>3 DEF Room
<1>5. ~Empty' \/ user'.pc = "flush" => Spare' >= N + 1
  BY <1>1 DEF Room
<1>6. Spare' \in Nat
  BY <1>1
<1> QED
  BY <1>4, <1>5, <1>6 DEF Room

GoesOn(p) ==
    \/ Wake(p) \/ LockHwaccel(p) \/ ReadHeader(p) \/ Await(p) \/ Frame(p)
    \/ Release(p) \/ Unlock(p) \/ Ready(p) \/ LockInSetup(p) \/ AsyncLock(p)

\* How decoder threads end their packets.
LEMMA WorkerEnds ==
    ASSUME Types, NEW p \in P, Worker(p)
    PROVE  LET s == th[p]
               t == th'[p]
           IN  /\ Ends(p) => /\ t.ended <=> s.state = "setup"
                             /\ s.eof => t.result # "ok"
                             /\ IF t.result = "error" THEN Incident ELSE UNCHANGED left
               /\ AllocFails(p) => (t.ended <=> s.ended) /\ Incident
               /\ Publish(p) => ~t.ended /\ UNCHANGED left
               /\ GoesOn(p) => (t.ended <=> s.ended) /\ UNCHANGED left
<1> DEFINE s == th[p]
           t == th'[p]
<1>1. th \in [P -> Thread] /\ th[p] \in Thread
  BY DEF Types
<1>2. ASSUME Ends(p)
      PROVE  /\ t.ended <=> s.state = "setup"
             /\ s.eof => t.result # "ok"
             /\ IF t.result = "error" THEN Incident ELSE UNCHANGED left
  <2>1. PICK r \in Results :
          /\ s.eof => r # "ok"
          /\ IF r = "error" THEN Incident ELSE UNCHANGED left
          /\ LET u == [th[p] EXCEPT !.result = r, !.ended = (th[p].state = "setup")] IN
             th' = [th EXCEPT ![p] = IF u.state = "setup" THEN FinishSetup(u, p, u.hw)
                                     ELSE [u EXCEPT !.pc = ReleaseOf(p)]]
    BY <1>2 DEF Ends, Ending, Results
  <2>2. t.result = r /\ (t.ended <=> s.state = "setup")
    BY <1>1, <2>1 DEF FinishSetup, Thread
  <2> QED
    BY <2>1, <2>2
<1>3. ASSUME AllocFails(p) PROVE (t.ended <=> s.ended) /\ Incident
  BY <1>1, <1>3 DEF AllocFails, Thread
<1>4. ASSUME Publish(p) PROVE ~t.ended /\ UNCHANGED left
  BY <1>1, <1>4 DEF Publish, Thread
<1>5. ASSUME GoesOn(p)
      PROVE (t.ended <=> s.ended) /\ UNCHANGED left
  <2>1. UNCHANGED left
    BY <1>5 DEF GoesOn, Wake, LockHwaccel, ReadHeader, Await, Frame, Release, Unlock, Ready,
                LockInSetup, AsyncLock
  <2>2. CASE ReadHeader(p)
    BY <1>1, <2>2 DEF ReadHeader, FinishSetup, Thread
  <2>3. CASE Wake(p) \/ LockHwaccel(p) \/ Await(p) \/ Unlock(p) \/ LockInSetup(p) \/ AsyncLock(p)
    BY <1>1, <2>3 DEF Wake, LockHwaccel, Await, Unlock, LockInSetup, AsyncLock, To, Thread
  <2>4. CASE Frame(p) \/ Release(p) \/ Ready(p)
    BY <1>1, <2>4 DEF Frame, Release, Ready, Thread
  <2> QED
    BY <1>5, <2>1, <2>2, <2>3, <2>4 DEF GoesOn
<1> QED
  BY <1>2, <1>3, <1>4, <1>5, Zenon

LEMMA FinishingWorker ==
    ASSUME Types, Places, Order, Finishing, NEW p \in P, Worker(p)
    PROVE  Finishing'
<1> DEFINE s == th[p]
           t == th'[p]
<1>1. WorkerKeeps(p) /\ s \in Thread /\ t.eof = s.eof /\ Finished(s)
  BY WorkerStep DEF WorkerKeeps, Types, Finishing
<1>2. ReleaseOf(p) \in {"release", "unlock", "ready"}
  BY DEF ReleaseOf
<1>3. Finished(t)
  <2>1. CASE Wake(p)
    <3>1. /\ t.pc = (IF s.die THEN "gone" ELSE StartOf(s)) /\ t.result = s.result
          /\ (t.ended <=> s.ended)
      BY <2>1, WorkerEffects, WorkerEnds
         DEF Moves, Keeps, Wake, GoesOn
    <3>2. StartOf(s) \in {"publish", "lock_hwaccel", "decode"} /\ s.pc = "wait"
      BY <2>1 DEF StartOf, Wake
    <3>3. t.pc \in {"gone", "publish", "lock_hwaccel", "decode"}
      BY <3>1, <3>2
    <3> QED
      BY <1>1, <3>1, <3>2, <3>3 DEF Finished
  <2>2. CASE LockHwaccel(p) \/ Await(p) \/ Frame(p)
    <3>1. /\ t.pc \in {"decode", "await"} /\ t.result = s.result /\ (t.ended <=> s.ended)
          /\ s.pc \in {"lock_hwaccel", "decode", "await"}
      BY <2>2, WorkerEffects, WorkerEnds
         DEF Moves, Keeps, LockHwaccel, Await, Frame, GoesOn
    <3> QED
      BY <1>1, <3>1 DEF Finished
  <2>3. CASE AllocFails(p)
    <3>1. t.result = "error" /\ (t.ended <=> s.ended) /\ s.pc = "decode"
      BY <2>3, WorkerEffects, WorkerEnds DEF AllocFails
    <3> QED
      BY <1>1, <3>1 DEF Finished
  <2>4. CASE ReadHeader(p)
    <3>1. (t.ended <=> s.ended) /\ s.pc = "decode" /\ ~s.eof
      BY <2>4, WorkerEnds DEF ReadHeader, GoesOn
    <3> QED
      BY <1>1, <3>1 DEF Finished
  <2>5. CASE Ends(p)
    <3>1. /\ (t.ended <=> s.state = "setup") /\ (s.eof => t.result # "ok")
          /\ s.state = "setup" => t.pc = SetupOf(p, s.hw)
      BY <2>5, WorkerEffects, WorkerEnds
    <3>2. SetupOf(p, s.hw) \in {"lock_setup", "lock_async", "publish"}
      BY DEF SetupOf
    <3> QED
      BY <1>1, <3>1, <3>2 DEF Finished
  <2>6. CASE Release(p) \/ Unlock(p)
    <3>1. /\ t.result = s.result /\ (t.ended <=> s.ended) /\ s.pc \in {"release", "unlock"}
      BY <2>6, WorkerEffects, WorkerEnds
         DEF Keeps, Release, Unlock, GoesOn
    <3> QED
      BY <1>1, <3>1 DEF Finished
  <2>7. CASE Ready(p)
    <3>1. /\ t.result = s.result /\ (t.ended <=> s.ended) /\ s.pc = "ready" /\ t.pc = "wait"
      BY <2>7, WorkerEffects, WorkerEnds DEF Keeps, Ready, GoesOn
    <3> QED
      BY <1>1, <3>1 DEF Finished
  <2>8. CASE LockInSetup(p) \/ AsyncLock(p)
    <3>1. /\ t.result = s.result /\ (t.ended <=> s.ended)
          /\ t.pc \in {"lock_async", "publish"}
      BY <2>8, WorkerEffects, WorkerEnds
         DEF Moves, Keeps, LockInSetup, AsyncLock, GoesOn
    <3> QED
      BY <1>1, <3>1 DEF Finished
  <2>9. CASE Publish(p)
    <3>1. /\ t.pc = (IF s.ended THEN ReleaseOf(p) ELSE "decode")
          /\ t.result = s.result /\ ~t.ended
      BY <2>9, WorkerEffects, WorkerEnds DEF Keeps
    <3> QED
      BY <1>1, <1>2, <3>1 DEF Finished
  <2> QED
    BY <2>1, <2>2, <2>3, <2>4, <2>5, <2>6, <2>7, <2>8, <2>9 DEF Worker
<1>4. ASSUME Busy(p), t.eof, t.state = "ready"
      PROVE  t.result # "ok"
  <2>1. CASE s.state = "ready"
    BY <1>1, <1>4, <2>1, WorkerReady DEF Finishing
  <2>2. CASE s.state # "ready"
    <3>1. Ready(p)
      BY <1>4, <2>2, WorkerEffects DEF Worker, Moves
    <3>2. t.result = s.result /\ s.pc = "ready"
      BY <3>1, WorkerEffects DEF Keeps, Ready
    <3> QED
      BY <1>1, <1>4, <3>2 DEF Finished
  <2> QED
    BY <2>1, <2>2
<1>5. \A r \in P : Busy(r)' <=> Busy(r)
  <2>1. UNCHANGED <<fctx.next_finished, fctx.pkt, user.sent>>
    BY <1>1 DEF WorkerKeeps, Types, FrameContext
  <2> QED
    BY <2>1 DEF Busy, InFlight, Ahead
<1>6. \A r \in P : r # p => th'[r] = th[r]
  BY <1>1 DEF WorkerKeeps
<1> HIDE DEF s, t
<1> QED
  BY <1>3, <1>4, <1>5, <1>6 DEF Finishing, s, t

\* A user's step that leaves what the threads do alone.
LEMMA FinishingKept ==
    ASSUME Finishing,
           \A r \in P : Busy(r)' => Busy(r),
           \A r \in P : /\ th'[r].pc = th[r].pc /\ th'[r].state = th[r].state
                        /\ th'[r].eof = th[r].eof /\ th'[r].result = th[r].result
                        /\ th'[r].ended = th[r].ended
    PROVE  Finishing'
BY DEF Finishing, Finished

LEMMA FinishingPrevious ==
    ASSUME Types, Places, Order, Finishing, Previous
    PROVE  Finishing'
<1>1. PICK t \in Thread : (Inherited(t) /\ Submits(t)) \/ CopyFails(t)
  BY PreviousStep
<1>2. PICK p \in P : p = fctx.next_decoding
  BY ContextNumbers
<1>3. ~Busy(p) /\ th[p].state = "ready" /\ th \in [P -> Thread] /\ user.pc = "previous"
  BY <1>2, NextIsFree, PreviousStep DEF Types
<1>4. th[p].pc \in {"wait", "gone"} /\ ~th[p].ended
  BY <1>3 DEF Places, Finishing, Finished
<1>5. CASE Inherited(t) /\ Submits(t)
  <2> DEFINE u == Submitted(t)
  <2>1. th' = [th EXCEPT ![p] = u]
    BY <1>2, <1>5 DEF Submits
  <2>2. u.pc = th[p].pc /\ u.state = "setup" /\ u.ended = th[p].ended
    BY <1>5, <1>2, SubmittedThread DEF Inherited
  <2>3. th'[p] = u /\ \A r \in P : r # p => th'[r] = th[r]
    BY <1>3, <2>1
  <2> HIDE DEF u
  <2>4. Finished(u)
    BY <1>4, <2>2 DEF Finished
  <2>5. \A r \in P : r # p /\ Busy(r)' => Busy(r)
    BY <1>2, <1>5, OrderSubmits
  <2> QED
    BY <2>2, <2>3, <2>4, <2>5 DEF Finishing
<1>6. CASE CopyFails(t)
  <2>1. th' = [th EXCEPT ![p] = t] /\ fctx' = fctx /\ user'.sent = user.sent
    BY <1>2, <1>6 DEF CopyFails, Types, UserThread
  <2>2. /\ t.pc = th[p].pc /\ t.state = th[p].state /\ t.eof = th[p].eof
        /\ t.result = th[p].result /\ t.ended = th[p].ended
    BY <1>2, <1>6 DEF CopyFails, FailedCopy
  <2>3. th'[p] = t /\ \A r \in P : r # p => th'[r] = th[r]
    BY <1>3, <2>1
  <2>4. \A r \in P : Busy(r)' => Busy(r)
    BY <2>1 DEF Busy, InFlight, Ahead
  <2> QED
    BY <2>2, <2>3, <2>4, FinishingKept
<1> QED
  BY <1>1, <1>5, <1>6

LEMMA FinishingCollect ==
    ASSUME Types, Places, Order, Finishing, Collect
    PROVE  Finishing'
<1>1. PICK p \in P : p = fctx.next_finished
  BY Numbers
<1>2. th[p].state = "ready" /\ th \in [P -> Thread]
  BY <1>1 DEF Collect, Types
<1>3. th[p].pc \in {"wait", "gone"} /\ ~th[p].ended
  BY <1>2 DEF Places, Finishing, Finished
<1>4. \A r \in P : Busy(r)' => Busy(r) /\ r # p
  BY <1>1, OrderCollect
<1>5. /\ th'[p].pc = th[p].pc /\ th'[p].ended = th[p].ended
      /\ \A r \in P : r # p => th'[r] = th[r]
  BY <1>1, <1>2 DEF Collect, Thread
<1>6. Finished(th'[p])
  BY <1>3, <1>5 DEF Finished
<1> QED
  BY <1>4, <1>5, <1>6 DEF Finishing

LEMMA FinishingStep ==
    ASSUME Types, Places, Order, Finishing, [Next]_vars
    PROVE  Finishing'
<1>1. CASE FlushParked
  <2>1. \A r \in P : /\ th'[r].pc = th[r].pc /\ th'[r].ended = th[r].ended /\ ~Busy(r)'
                     /\ th[r].state = "ready"
    BY <1>1, FlushStep, OrderFlush DEF FlushParked, Parked
  <2>2. \A r \in P : Finished(th'[r])
    BY <2>1 DEF Places, Finishing, Finished
  <2> QED
    BY <2>1, <2>2 DEF Finishing
<1>2. CASE \/ Receive \/ Submit \/ Return \/ Flush \/ Free \/ FreeParked \/ Freed \/ Kill \/ Join
           \/ UNCHANGED vars
  <2>1. /\ fctx'.next_finished = fctx.next_finished /\ fctx'.pkt = fctx.pkt
        /\ user'.sent = user.sent
    BY <1>2 DEF Receive, Submit, Return, Flush, Free, Park, FreeParked, Freed, Kill, Join,
                Goto, WorkersKeep, vars, Types, FrameContext, UserThread
  <2>2. \A r \in P : Busy(r)' => Busy(r)
    BY <2>1 DEF Busy, InFlight, Ahead
  <2>3. \A r \in P : /\ th'[r].pc = th[r].pc /\ th'[r].state = th[r].state
                     /\ th'[r].eof = th[r].eof /\ th'[r].result = th[r].result
                     /\ th'[r].ended = th[r].ended
    <3>1. CASE Kill \/ Join
      BY <3>1 DEF Kill, Join, Types, Thread
    <3>2. CASE th' = th
      BY <3>2
    <3> QED
      BY <1>2, <3>1, <3>2
         DEF Receive, Submit, Return, Flush, Free, Park, FreeParked, Freed, WorkersKeep, vars
  <2> QED
    BY <2>2, <2>3, FinishingKept
<1> QED
  BY <1>1, <1>2, FinishingWorker, FinishingPrevious, FinishingCollect
     DEF Next, UserSteps, Caller

LEMMA CallsStep ==
    ASSUME Types, Places, Order, Context, Calls, Types', Context', [Next]_vars
    PROVE  Calls'
<1>1. /\ user.p \in 0..N /\ (user.pc = "join" => user.p \in P) /\ setup_of <= user.sent
      /\ user.sent \in Nat /\ setup_of \in Nat /\ user \in UserThread /\ N \in Nat
      /\ user.ended => user.pc \in {"user", "flush", "free", "kill", "join", "freed"}
      /\ user.pc = "previous" => HasPacket
  BY Numbers DEF Calls, Types
<1>2. ASSUME NEW p \in P, Worker(p) PROVE Calls'
  <2>1. user' = user
    BY <1>2, WorkerStep DEF WorkerKeeps
  <2>2. setup_of' \in {setup_of, th[p].pkt}
    BY <1>2 DEF Worker, Wake, LockHwaccel, AllocFails, ReadHeader, Await, Frame, Ends, Release,
                Unlock, Ready, LockInSetup, AsyncLock, Publish, history
  <2>3. th[p].pkt <= user.sent
    BY PacketsSent
  <2> QED
    BY <1>1, <2>1, <2>2, <2>3 DEF Calls, HasPacket
<1>3. CASE Submit
  <2>1. /\ user'.pc \in {"previous", "failed"} /\ user'.draining = user.draining
        /\ user'.pc = "previous" => user'.input = user.input
        /\ ~user'.ended /\ user'.p = user.p /\ user'.sent = user.sent
        /\ HasPacket /\ setup_of' = setup_of
    BY <1>1, <1>3 DEF Submit, Goto, WorkersKeep, UserThread, history
  <2> QED
    BY <1>1, <2>1 DEF Calls, HasPacket
<1>4. CASE Previous
  <2>1. /\ user'.pc \in {"loop", "collect", "failed"} /\ ~user'.ended /\ user'.p = user.p
        /\ user'.sent \in {user.sent, user.sent + 1} /\ setup_of' = setup_of
    BY <1>1, <1>4 DEF Previous, AfterSubmit, UserThread, history
  <2> QED
    BY <1>1, <2>1 DEF Calls
<1>5. CASE Collect \/ Receive
  <2>1. /\ user'.pc = "loop" /\ ~user'.ended /\ user'.p = user.p
        /\ user'.sent = user.sent /\ setup_of' = setup_of
    BY <1>1, <1>5 DEF Collect, Receive, Goto, WorkersKeep, UserThread, history
  <2> QED
    BY <1>1, <2>1 DEF Calls
<1>6. CASE Return
  <2>1. user'.pc = "user" /\ user'.p = user.p /\ user'.sent = user.sent /\ setup_of' = setup_of
    BY <1>1, <1>6 DEF Return, WorkersKeep, UserThread, history
  <2> QED
    BY <1>1, <2>1 DEF Calls
<1>7. CASE Flush \/ Free \/ FreeParked
  <2>1. /\ user'.pc \in {"flush", "free", "kill"} /\ user'.p = user.p
        /\ user'.sent = user.sent /\ setup_of' = setup_of
    BY <1>1, <1>7 DEF Flush, Free, Park, FreeParked, Goto, WorkersKeep, UserThread, history
  <2> QED
    BY <1>1, <2>1 DEF Calls
<1>8. CASE FlushParked
  <2>1. /\ user'.pc = "user" /\ user'.p = user.p /\ user'.sent = user.sent
        /\ setup_of' = setup_of
    BY <1>1, <1>8 DEF FlushParked, UserThread
  <2> QED
    BY <1>1, <2>1 DEF Calls
<1>9. CASE Kill
  <2>1. /\ user'.pc = "join" /\ user'.p = user.p /\ user.p \in P
        /\ user'.sent = user.sent /\ setup_of' = setup_of
    BY <1>1, <1>9 DEF Kill, Goto, UserThread, history
  <2> QED
    BY <1>1, <2>1 DEF Calls
<1>10. CASE Join
  <2>1. user.p \in P /\ user'.pc = "kill" /\ user'.p = user.p + 1
        /\ user'.sent = user.sent /\ setup_of' = setup_of
    BY <1>1, <1>10 DEF Join, UserThread, history
  <2>2. user.p + 1 \in 0..N
    BY <1>1, <2>1 DEF P
  <2> QED
    BY <1>1, <2>1, <2>2 DEF Calls
<1>11. CASE Freed
  <2>1. user'.pc = "freed" /\ user'.p = user.p /\ user'.sent = user.sent /\ setup_of' = setup_of
    BY <1>1, <1>11 DEF Freed, WorkersKeep, UserThread, history
  <2> QED
    BY <1>1, <2>1 DEF Calls
<1>12. CASE UNCHANGED vars
  BY <1>12 DEF vars, Calls, HasPacket, history
<1> QED
  BY <1>2, <1>3, <1>4, <1>5, <1>6, <1>7, <1>8, <1>9, <1>10, <1>11, <1>12
     DEF Next, UserSteps, Caller

\* Each incident pays for the packets of another drain.
LEMMA RoomIncident ==
    ASSUME Types, Order', Room, Incident, user'.sent = user.sent, Inputs' \in {Inputs, 0}
    PROVE  Room'
<1>1. /\ left \in [packets : Nat, incidents : Nat] /\ Spare \in Nat /\ N \in Nat
      /\ user.sent \in Nat /\ Inputs \in 0..1
  BY Numbers DEF Room, Inputs
<1>2. left' \in [packets : Nat, incidents : Nat] /\ Budget' = Budget + (N + 2) /\ Budget \in Int
  BY <1>1, BudgetStep
<1>3. Spare = Budget - (user.sent + Inputs) /\ Spare' = Budget' - (user'.sent + Inputs')
  BY DEF Spare
<1>4. Inputs' = Inputs \/ (Inputs' = 0 /\ Inputs >= 0)
  BY <1>1
<1>5. Spare' \in Int /\ Spare' >= N + 1
  BY <1>1, <1>2, <1>3, <1>4
<1> QED
  BY <1>2, <1>5, RoomPaid

LEMMA RoomWorker ==
    ASSUME Types, Places, Order, Room, NEW p \in P, Worker(p), Order'
    PROVE  Room'
<1>1. WorkerKeeps(p)
  BY WorkerStep
<1>2. user' = user /\ Inputs' = Inputs /\ Due' = Due
  BY <1>1 DEF WorkerKeeps, Inputs, Due
<1>3. CASE Incident
  BY <1>2, <1>3, RoomIncident
<1>4. CASE UNCHANGED left
  <2>1. /\ left' \in [packets : Nat, incidents : Nat] /\ Budget' = Budget
        /\ Spare \in Nat
    BY <1>4, BudgetStep DEF Room
  <2>2. Spare' = Spare
    BY <1>2, <2>1 DEF Spare
  <2>3. /\ fctx'.next_finished = fctx.next_finished /\ fctx'.pkt = fctx.pkt
        /\ fctx'.result = fctx.result
    BY <1>1 DEF WorkerKeeps, Types, FrameContext
  <2>5. Empty' = Empty
    BY <1>2 DEF Empty
  <2>4. ASSUME NEW r \in P, th[r].eof, th[r].result # "error"
        PROVE  th'[r].eof /\ th'[r].result # "error"
    <3>1. CASE r # p
      BY <1>1, <2>4, <3>1 DEF WorkerKeeps
    <3>2. CASE r = p
      <4>1. ASSUME Incident PROVE FALSE
        <5>1. left.incidents \in Nat /\ left' = [left EXCEPT !.incidents = @ - 1]
          BY <4>1 DEF Incident, Room
        <5>2. left'.incidents = left.incidents - 1
          BY <5>1 DEF Room
        <5> QED
          BY <1>4, <5>1, <5>2
      <4>2. CASE Ends(p)
        BY <1>1, <2>4, <3>2, <4>1, <4>2, WorkerEnds DEF WorkerKeeps
      <4>3. CASE GoesOn(p) \/ Publish(p)
        BY <1>1, <2>4, <3>2, <4>3, WorkerEffects DEF WorkerKeeps, Keeps, GoesOn, ReadHeader
      <4> QED
        BY <4>1, <4>2, <4>3 DEF Worker, GoesOn, AllocFails
    <3> QED
      BY <3>1, <3>2
  <2> QED
    BY <1>2, <2>1, <2>2, <2>3, <2>4, <2>5, RoomKept
<1> QED
  BY <1>3, <1>4, WorkerEnds DEF Worker, GoesOn

\* A draining user has one packet less to spare, and one more thread that will
\* give the end.
LEMMA RoomDrains ==
    ASSUME Types, Places, Order, Room, Calls, Previous, NEW t \in Thread, Inherited(t), Submits(t),
           UNCHANGED left, Empty
    PROVE  Room'
<1>1. PICK p \in P : p = fctx.next_decoding
  BY ContextNumbers
<1>2. /\ Ahead(p) = InFlight /\ th[p].result = "ok" /\ user.pc = "previous"
      /\ InFlight \in Int /\ N \in Nat /\ user.sent \in Nat
  BY <1>1, NextIsFree, Numbers, PreviousStep
<1>3. /\ user'.sent = user.sent + 1 /\ Empty' /\ user'.input = FALSE
      /\ user'.pc = "collect" /\ user'.ended = user.ended
      /\ fctx'.next_finished = fctx.next_finished /\ fctx'.pkt = fctx.pkt
      /\ fctx'.result = fctx.result
  BY DEF Submits, AfterSubmit, Types, UserThread, FrameContext, Empty
<1>4. /\ th'[p].eof /\ th'[p].result = "ok"
      /\ \A r \in P : r # p => th'[r] = th[r]
  <2>1. th' = [th EXCEPT ![p] = Submitted(t)] /\ th \in [P -> Thread]
    BY <1>1 DEF Submits, Types
  <2>2. Submitted(t).eof = TRUE /\ Submitted(t).result = "ok"
    BY <1>1, <1>2, SubmittedThread DEF Inherited
  <2> QED
    BY <2>1, <2>2
<1>5. Due = 1 /\ Due' = 0
  BY <1>2, <1>3 DEF Due
<1>6. left' \in [packets : Nat, incidents : Nat] /\ Spare \in Nat
      /\ Spare' \in Int /\ Spare' >= Spare - 1
  <2>1. /\ left' \in [packets : Nat, incidents : Nat] /\ Budget' = Budget /\ Spare \in Nat
        /\ Budget \in Int
    BY BudgetStep DEF Room
  <2>2. Inputs \in 0..1 /\ Inputs' = 0
    BY <1>3 DEF Inputs
  <2>3. Spare = Budget - (user.sent + Inputs) /\ Spare' = Budget' - (user'.sent + Inputs')
    BY DEF Spare
  <2> QED
    BY <1>2, <1>3, <2>1, <2>2, <2>3
<1>7. \A r \in P : Ahead(r)' = Ahead(r) /\ Ahead(r) \in Nat /\ (Busy(r)' <=> (Busy(r) \/ r = p))
  <2>1. \A r \in P : Ahead(r)' = Ahead(r) /\ Ahead(r) \in Nat
    BY <1>3, Numbers DEF Ahead
  <2> QED
    BY <1>1, <2>1, OrderSubmits
<1>8. \E r \in P : EndComes(r)'
  <2>1. fctx.result = "ok" /\ ~user.ended
    BY <1>2 DEF Order, Turn, Calls
  <2>2. CASE InFlight + Due <= Spare
    <3>1. Ahead(p)' + Due' <= Spare'
      BY <1>2, <1>5, <1>6, <1>7, <2>2
    <3> QED
      BY <1>4, <1>7, <3>1 DEF EndComes
  <2>3. ASSUME NEW r \in P, EndComes(r) PROVE EndComes(r)'
    <3>1. Busy(r) /\ th[r].eof /\ th[r].result # "error" /\ Ahead(r) + Due <= Spare
      BY <2>3 DEF EndComes
    <3>2. Ahead(r)' + Due' <= Spare'
      BY <1>5, <1>6, <1>7, <3>1
    <3>3. th'[r].eof /\ th'[r].result # "error"
      BY <1>4, <3>1
    <3> QED
      BY <1>7, <3>1, <3>2, <3>3 DEF EndComes
  <2> QED
    BY <2>1, <2>2, <2>3 DEF Room
<1>9. Spare' \in Nat
  <2>1. PICK r \in P : EndComes(r)'
    BY <1>8
  <2>2. Ahead(r)' + Due' <= Spare'
    BY <2>1 DEF EndComes
  <2> QED
    BY <1>5, <1>6, <1>7, <2>2
<1> QED
  BY <1>3, <1>6, <1>8, <1>9 DEF Room

LEMMA RoomPrevious ==
    ASSUME Types, Places, Order, Room, Calls, Previous, Order'
    PROVE  Room'
<1>1. PICK t \in Thread : (Inherited(t) /\ Submits(t)) \/ CopyFails(t)
  BY PreviousStep
<1>2. /\ user.pc = "previous" /\ user \in UserThread /\ HasPacket
      /\ \/ user'.pc = "failed" /\ Incident
         \/ user'.pc # "failed" /\ UNCHANGED left
  BY DEF Previous, Calls, AfterSubmit, Types, UserThread
<1>3. CASE CopyFails(t)
  <2>1. user'.pc = "failed" /\ user'.sent = user.sent /\ ~user'.input
    BY <1>2, <1>3 DEF CopyFails, UserThread
  <2> QED
    BY <1>2, <2>1, RoomIncident DEF Inputs
<1>4. CASE Inherited(t) /\ Submits(t)
  <2>1. /\ user'.pc \in {"loop", "collect"} /\ user'.sent = user.sent + 1 /\ ~user'.input
        /\ UNCHANGED left
    BY <1>2, <1>4 DEF Submits, AfterSubmit, UserThread
  <2>2. CASE Empty
    BY <1>4, <2>1, <2>2, RoomDrains
  <2>3. CASE ~Empty
    <3>1. /\ left' \in [packets : Nat, incidents : Nat] /\ Budget' = Budget /\ Spare \in Nat
          /\ Budget \in Int /\ user.sent \in Nat /\ Spare >= N + 1
      BY <2>1, <2>3, BudgetStep, Numbers DEF Room
    <3>2. Inputs = 1 /\ Inputs' = 0
      BY <1>2, <2>1, <2>3 DEF Inputs, HasPacket, Empty
    <3>3. Spare = Budget - (user.sent + Inputs) /\ Spare' = Budget' - (user'.sent + Inputs')
      BY DEF Spare
    <3>4. Spare' = Spare
      BY <2>1, <3>1, <3>2, <3>3
    <3> QED
      BY <3>1, <3>4, RoomPaid
  <2> QED
    BY <2>2, <2>3
<1> QED
  BY <1>1, <1>3, <1>4

\* Collecting brings the end one thread nearer, or is the end.
LEMMA RoomCollected ==
    ASSUME Types, Order, Room, Finishing, Collect, Order', UNCHANGED left
    PROVE  Room'
<1>1. PICK p \in P : p = fctx.next_finished
  BY Numbers
<1>2. /\ user.pc = "collect" /\ th[p].state = "ready" /\ th \in [P -> Thread]
      /\ user'.pc = "loop" /\ user'.sent = user.sent /\ user'.input = user.input
      /\ Empty' = Empty /\ user'.ended = user.ended
      /\ fctx'.result = th[p].result
  BY <1>1 DEF Collect, Goto, Types, UserThread, FrameContext, Empty
<1>3. Due = 0 /\ Due' = 1
  BY <1>2 DEF Due
<1>4. left' \in [packets : Nat, incidents : Nat] /\ Spare \in Nat /\ Spare' = Spare
  <2>1. left' \in [packets : Nat, incidents : Nat] /\ Budget' = Budget /\ Spare \in Nat
    BY <1>2, BudgetStep DEF Room
  <2>2. Inputs' = Inputs
    BY <1>2 DEF Inputs
  <2> QED
    BY <1>2, <2>1, <2>2 DEF Spare
<1>5. /\ InFlight' = InFlight - 1 /\ InFlight \in Int
      /\ \A r \in P : Busy(r)' <=> (Busy(r) /\ r # p)
      /\ \A r \in P \ {p} : Ahead(r)' = Ahead(r) - 1 /\ Ahead(r) \in Nat
      /\ \A r \in P \ {p} : th'[r] = th[r]
  BY <1>1, <1>2, OrderCollect, Numbers DEF Collect
<1>6. CASE ~Empty
  BY <1>4, <1>6, RoomPaid DEF Room
<1>7. CASE Empty
  <2>1. CASE InFlight + Due <= Spare
    <3>1. InFlight' + Due' <= Spare'
      BY <1>3, <1>4, <1>5, <2>1
    <3> QED
      BY <1>2, <1>4, <1>7, <3>1 DEF Room
  <2>2. ASSUME NEW r \in P, EndComes(r) PROVE Room'
    <3>1. Busy(r) /\ th[r].eof /\ th[r].result # "error" /\ Ahead(r) + Due <= Spare
      BY <2>2 DEF EndComes
    <3>2. CASE r = p
      <4>1. th[p].result = "eof"
        BY <1>2, <3>1, <3>2 DEF Finishing, Thread, Results
      <4> QED
        BY <1>2, <1>4, <1>7, <4>1 DEF Room
    <3>3. CASE r # p
      <4>1. Ahead(r)' + Due' <= Spare'
        BY <1>3, <1>4, <1>5, <3>1, <3>3
      <4>2. EndComes(r)'
        BY <1>5, <3>1, <3>3, <4>1 DEF EndComes
      <4> QED
        BY <1>2, <1>4, <1>7, <4>2 DEF Room
    <3> QED
      BY <3>2, <3>3
  <2>3. ASSUME user.ended PROVE Room'
    BY <1>2, <1>4, <1>7, <2>3 DEF Room
  <2>4. fctx.result # "eof"
    BY OrderCollect
  <2> QED
    BY <1>7, <2>1, <2>2, <2>3, <2>4 DEF Room
<1> QED
  BY <1>6, <1>7

LEMMA RoomCollect ==
    ASSUME Types, Order, Room, Finishing, Collect, Order'
    PROVE  Room'
<1>1. CASE Incident
  <2>1. user'.sent = user.sent /\ user'.input = user.input
    BY DEF Collect, Goto, Types, UserThread
  <2> QED
    BY <1>1, <2>1, RoomIncident DEF Inputs
<1>2. CASE UNCHANGED left
  BY <1>2, RoomCollected
<1> QED
  BY <1>1, <1>2 DEF Collect

\* The rest of the user's steps.
LEMMA RoomCaller ==
    ASSUME Types, Order, Room, Calls, Order',
           \/ Receive \/ Submit \/ Return \/ Flush \/ Free \/ FlushParked \/ FreeParked
           \/ Kill \/ Join \/ Freed
    PROVE  Room'
<1>1. /\ left \in [packets : Nat, incidents : Nat] /\ Spare \in Nat /\ Budget \in Int
      /\ N \in Nat /\ user.sent \in Nat /\ user \in UserThread
      /\ ~Empty \/ user.pc = "flush" => Spare >= N + 1
  BY BudgetStep, Numbers DEF Room, Types
<1>2. Inputs \in 0..1 /\ Inputs' \in 0..1
  BY DEF Inputs
<1>3. Spare = Budget - (user.sent + Inputs) /\ Spare' = Budget' - (user'.sent + Inputs')
  BY DEF Spare
<1>4. user'.sent = user.sent
  BY <1>1 DEF Receive, Submit, Return, Flush, Free, Park, FlushParked, FreeParked, Kill, Join,
              Freed, Goto, UserThread
<1>5. ASSUME Incident, Submit \/ Flush PROVE Room'
  <2>1. Inputs' \in {Inputs, 0}
    BY <1>1, <1>5 DEF Inputs, Submit, Flush, Park, Goto, UserThread
  <2> QED
    BY <1>4, <1>5, <2>1, RoomIncident
<1>6. ASSUME UNCHANGED left, Inputs' \in {Inputs, 0}
      PROVE  /\ left' \in [packets : Nat, incidents : Nat]
             /\ Spare' \in Int /\ Spare' >= Spare
  BY <1>1, <1>2, <1>3, <1>4, <1>6, BudgetStep
<1>7. CASE Receive
  <2>1. CASE user'.input = user.input /\ UNCHANGED left
    <3>1. Inputs' = Inputs
      BY <2>1 DEF Inputs
    <3>2. /\ left' \in [packets : Nat, incidents : Nat]
          /\ Spare' \in Int /\ Spare' >= Spare
      BY <1>6, <2>1, <3>1
    <3>3. CASE ~Empty
      BY <1>1, <3>2, <3>3, RoomPaid
    <3>4. CASE Empty
      <4>1. /\ user.pc = "user" /\ user'.pc = "loop" /\ Empty' /\ fctx' = fctx /\ th' = th
            /\ user'.ended = user.ended
        BY <1>1, <1>7, <3>4 DEF Receive, Goto, WorkersKeep, UserThread, Empty
      <4>2. Due' = Due
        BY <4>1 DEF Due
      <4> QED
        BY <1>4, <3>2, <3>4, <4>1, <4>2, RoomKept
    <3> QED
      BY <3>3, <3>4
  <2>2. CASE left.packets > 0 /\ left' = [left EXCEPT !.packets = @ - 1] /\ ~Empty
    <3>1. left' \in [packets : Nat, incidents : Nat] /\ Budget' = Budget + 1
      BY <1>1, <2>2, BudgetStep
    <3>2. Spare' \in Int /\ Spare' >= Spare
      BY <1>1, <1>2, <1>3, <1>4, <3>1
    <3> QED
      BY <1>1, <2>2, <3>1, <3>2, RoomPaid
  <2> QED
    BY <1>1, <1>7, <2>1, <2>2 DEF Receive, Goto, UserThread, Empty
<1>8. CASE FlushParked
  <2>1. user.pc = "flush" /\ UNCHANGED left /\ ~user'.input
    BY <1>1, <1>8 DEF FlushParked, UserThread
  <2>2. Inputs' = 0
    BY <2>1 DEF Inputs
  <2> QED
    BY <1>1, <1>6, <2>1, <2>2, RoomPaid
<1>13. ASSUME UNCHANGED left, Incident PROVE FALSE
  <2>1. left.incidents \in Nat /\ left' = [left EXCEPT !.incidents = @ - 1]
    BY <1>1, <1>13 DEF Incident
  <2>2. left'.incidents = left.incidents - 1
    BY <1>1, <2>1
  <2> QED
    BY <1>13, <2>1, <2>2
<1>9. ASSUME UNCHANGED left, Submit \/ Return \/ Free \/ FreeParked \/ Kill \/ Join \/ Freed
      PROVE  Room'
  <2>1. /\ Empty' = Empty
        /\ user.pc # "collect" /\ user'.pc \notin {"collect", "flush"}
        /\ fctx'.next_finished = fctx.next_finished /\ fctx'.pkt = fctx.pkt
    <3>1. user.pc # "collect" /\ user'.pc \notin {"collect", "flush"}
      BY <1>1, <1>9 DEF Submit, Return, Free, Park, FreeParked, Kill, Join, Freed, Goto, UserThread
    <3>2. fctx'.next_finished = fctx.next_finished /\ fctx'.pkt = fctx.pkt
      BY <1>9 DEF Submit, Return, Free, Park, FreeParked, Kill, Join, Freed, Types, FrameContext
    <3>3. CASE Submit
      <4>1. user' = [user EXCEPT !.pc = "previous"]
        BY <1>9, <1>13, <3>3 DEF Submit, Goto
      <4> QED
        BY <1>1, <3>1, <3>2, <4>1 DEF UserThread, Empty
    <3>4. CASE Return \/ Free \/ FreeParked \/ Kill \/ Join \/ Freed
      <4>1. user'.draining = user.draining /\ user'.input = user.input
        BY <1>1, <3>4 DEF Return, Free, Park, FreeParked, Kill, Join, Freed, Goto, UserThread
      <4> QED
        BY <3>1, <3>2, <4>1 DEF Empty
    <3> QED
      BY <1>9, <3>3, <3>4
  <2>2. Inputs' \in {Inputs, 0}
    BY <1>1, <1>9 DEF Inputs, Submit, Return, Free, Park, FreeParked, Kill, Join, Freed, Goto,
                      UserThread
  <2>3. Due' = Due
    BY <2>1 DEF Due
  <2>4. \A r \in P : th'[r].eof = th[r].eof /\ th'[r].result = th[r].result
    BY <1>9 DEF Submit, Return, Free, Park, FreeParked, Kill, Join, Freed, WorkersKeep,
                Types, Thread
  <2>5. /\ user.ended => user'.ended
        /\ fctx.result = "eof" => fctx'.result = "eof" \/ user'.ended
    <3>1. CASE Return
      <4>1. user.pc \in {"loop", "failed"}
        BY <3>1 DEF Return
      <4>2. ~user.ended
        BY <4>1 DEF Calls
      <4>3. fctx.result = "eof" => fctx'.result = "eof" \/ user'.ended
        BY <1>1, <3>1 DEF Return, Types, FrameContext, UserThread
      <4> QED
        BY <4>2, <4>3
    <3>2. CASE ~Return
      <4>1. fctx'.result = fctx.result
        BY <1>9, <3>2 DEF Submit, Free, Park, FreeParked, Kill, Join, Freed, Types, FrameContext
      <4>2. user'.ended = user.ended \/ (Submit /\ user.pc = "loop")
        BY <1>1, <1>9, <3>2 DEF Submit, Free, Park, FreeParked, Kill, Join, Freed, Goto, UserThread
      <4>3. user.pc = "loop" => ~user.ended
        BY DEF Calls
      <4> QED
        BY <4>1, <4>2, <4>3
    <3> QED
      BY <3>1, <3>2
  <2>6. /\ left' \in [packets : Nat, incidents : Nat]
        /\ Spare' \in Int /\ Spare' >= Spare
    BY <1>6, <1>9, <2>2
  <2> QED
    BY <1>4, <2>1, <2>3, <2>4, <2>5, <2>6, RoomKept
<1>10. Submit => Incident \/ UNCHANGED left
  BY DEF Submit
<1>11. Flush => Incident
  BY DEF Flush
<1>12. Return \/ Free \/ FreeParked \/ Kill \/ Join \/ Freed => UNCHANGED left
  BY DEF Return, Free, FreeParked, Kill, Join, Freed
<1> QED
  BY <1>5, <1>7, <1>8, <1>9, <1>10, <1>11, <1>12

LEMMA InitBInv == Init => BInv
<1> SUFFICES ASSUME Init PROVE BInv
  OBVIOUS
<1>1. /\ IInv /\ N \in Nat /\ MaxPackets \in Nat /\ MaxIncidents \in Nat
  BY InitIInv, SizesAssumption
<1>2. /\ left = [packets |-> MaxPackets, incidents |-> MaxIncidents]
      /\ user.pc = "user" /\ ~user.input /\ ~user.draining /\ ~user.ended
      /\ user.sent = 0 /\ user.p = 0 /\ setup_of = 0 /\ th = [p \in P |-> Thread0]
  BY DEF Init
<1>3. Spare = N + 2
  <2> DEFINE a == (N + 2) * MaxIncidents
             b == (N + 2) * (MaxIncidents + 1)
  <2>1. a \in Nat /\ b = a + (N + 2)
    BY <1>1
  <2>2. Spare = (MaxPackets + b) - (MaxPackets + a) - (0 + 0)
    BY <1>2 DEF Spare, Budget, Most, Inputs
  <2> HIDE DEF a, b
  <2> QED
    BY <1>1, <2>1, <2>2
<1>4. Room
  BY <1>1, <1>2, <1>3 DEF Room, Empty
<1>5. Calls
  BY <1>1, <1>2 DEF Calls
<1>6. Finishing
  BY <1>2 DEF Finishing, Finished, Thread0
<1> QED
  BY <1>1, <1>4, <1>5, <1>6 DEF BInv

LEMMA BInvStep == BInv /\ [Next]_vars => BInv'
<1> SUFFICES ASSUME BInv, [Next]_vars PROVE BInv'
  OBVIOUS
<1>1. Types /\ Places /\ Order /\ Context /\ Room /\ Calls /\ Finishing
  BY DEF BInv, IInv, Order
<1>2. IInv' /\ Types' /\ Order' /\ Context'
  BY Inductive DEF BInv, IInv, Order
<1>3. Calls'
  BY <1>1, <1>2, CallsStep
<1>4. Finishing'
  BY <1>1, FinishingStep
<1>5. Room'
  <2>1. CASE UNCHANGED vars
    BY <1>1, <2>1 DEF vars, Room, Spare, Budget, Inputs, Due, InFlight, EndComes, Busy, Ahead, Empty
  <2> QED
    BY <1>1, <1>2, <2>1, RoomWorker, RoomPrevious, RoomCollect, RoomCaller
       DEF Next, UserSteps, Caller
<1> QED
  BY <1>2, <1>3, <1>4, <1>5 DEF BInv

\* The variables of pthread_frame.c keep their types, and the numbers of the
\* packets stay within what the bounds of the model allow: a user that drains
\* submits at most N + 2 empty packets before ff_thread_receive_frame() gives
\* it AVERROR_EOF, unless an incident spoils the end.
THEOREM TypeCorrect == Spec => []TypeOK
<1>1. ASSUME BInv PROVE TypeOK
  <2>1. Types /\ Order /\ Context /\ Room /\ Calls
    BY <1>1 DEF BInv, IInv, Order
  <2>2. /\ user.sent \in Nat /\ fctx.pkt \in Nat /\ setup_of \in Nat
        /\ \A p \in P : th[p] \in Thread /\ th[p].pkt \in Nat /\ th[p].ctx \in Nat
    BY <2>1, Numbers, ContextNumbers
  <2>3. user.sent <= Most
    <3> DEFINE a == (N + 2) * left.incidents
    <3>1. a \in Nat /\ left.packets \in Nat /\ Most \in Int /\ Spare \in Nat /\ Inputs \in 0..1
      BY <2>1, Costs DEF Room, Inputs
    <3>2. Spare = Most - (left.packets + a) - (user.sent + Inputs)
      BY DEF Spare, Budget
    <3> HIDE DEF a
    <3> QED
      BY <2>2, <3>1, <3>2
  <2>4. Most \in Int /\ Sent = 0..Most
    BY Costs DEF Sent, Most
  <2>5. fctx.pkt <= user.sent /\ setup_of <= user.sent
    BY <2>1, Numbers DEF Order, Turn, Calls
  <2>6. \A p \in P : th[p].pkt <= user.sent /\ th[p].ctx <= user.sent
    BY <2>1, PacketsSent DEF Context
  <2>7. /\ user.sent \in Sent /\ fctx.pkt \in Sent /\ setup_of \in Sent
        /\ \A p \in P : th[p].pkt \in Sent /\ th[p].ctx \in Sent
    BY <2>2, <2>3, <2>4, <2>5, <2>6
  <2>8. \A p \in P : th[p] \in ThreadType
    BY <2>2, <2>7 DEF Thread, ThreadType, ThreadPlaces
  <2>9. fctx \in [next_decoding : P, next_finished : P, prev : P \cup {Nobody},
                  stash : Kinds, pkt : Sent, df : 0..1, result : Results]
    BY <2>1, <2>7 DEF Types, FrameContext
  <2>10. user.pc \in UserPlaces /\ user.hw \in Kinds /\ user.p \in 0..N
    BY <2>1 DEF Types, UserThread, Calls
  <2> QED
    BY <2>1, <2>7, <2>8, <2>9, <2>10 DEF TypeOK, Types, UserPlaces
<1>2. Spec => []BInv
  BY InitBInv, BInvStep, PTL DEF Spec
<1> QED
  BY <1>1, <1>2, PTL
=============================================================================

----------------------------- MODULE Scheduler -----------------------------
(***************************************************************************)
(* One transcoding of fftools/ffmpeg_sched.c with the loops of its tasks.  *)
(* Stream 1 of the output is copied by the demuxer "d". Stream 2 comes     *)
(* from the encoder "enc", which the filtergraph "fg" feeds: the           *)
(* filtergraph gets the demuxer's second stream through the decoder "dec"  *)
(* when it is fed, and is a source of its own otherwise. "mux" is the      *)
(* muxer's thread and "main" the one of transcode().                       *)
(*                                                                         *)
(*     d ----------------------------- copy --------> mux                  *)
(*      \--- dec ---> fg (fed) ---> enc ------------>                      *)
(*                                                                         *)
(* Packets are numbered, the number is also the dts. A packet is one frame *)
(* and the codecs hold none back. thread_queue.c is in ThreadQueue, and a  *)
(* mutex is a variable only where it is held over more than one step.      *)
(***************************************************************************)
EXTENDS ThreadQueue, Integers

CONSTANTS N,              \* packets of a stream
          PreMax,         \* most packets a pre-muxing queue holds
          Tolerance,      \* SCHEDULE_TOLERANCE, in packets
          MaxIncidents    \* errors, limits of the output, stops by the user

ASSUME SchedulerAssumption ==
    /\ N \in Nat \ {0} /\ PreMax \in Nat \ {0}
    /\ Tolerance \in Nat \ {0} /\ MaxIncidents \in Nat

Tasks == {"d", "dec", "fg", "enc", "mux"}
Queues == {"dec", "fg", "enc", "mux"}
Waiters == {"d", "fg"}
OutStreams == {1, 2}
Nobody == "nobody"
Null == 0                 \* a packet that is NULL, or no packet
EofFrame == N + 1         \* FRAME_OPAQUE_EOF, which a decoder sends at its end
NoDts == 0                \* AV_NOPTS_VALUE

\* Inputs of the filtergraph's queue: its input and the control stream.
In == 1
Ctl == 2

VARIABLES
    fed,                  \* the filtergraph has an input
    q,                    \* the queues
    choked,               \* SchWaiter.choked of the demuxer and the filtergraph
    terminate, task_failed,
    ms,                   \* SchMuxStream of both streams
    mux_started,
    mux_ready_lock,       \* who holds it
    schedule,             \* who holds schedule_lock, and what it is about to do
    task_exited,          \* which sources have set it
    opened,               \* SchEnc.opened
    fg,                   \* FilterGraphThread: graph is configured, got_frame
    ended,                \* the dst_finished and in_finished that are set
    th,                   \* the threads: place, packet in hand, result so far
    next,                 \* the next packet of each source stream
    left,                 \* incidents that may still happen
    written               \* the last packet of each stream that was muxed

vars == <<fed, q, choked, terminate, task_failed, ms, mux_started, mux_ready_lock, schedule,
          task_exited, opened, fg, ended, th, next, left, written>>

Idle == [by |-> Nobody, todo |-> {}, choke |-> {}]

Thread(pc) == [pc |-> pc, n |-> Null, then |-> "", closing |-> FALSE, err |-> FALSE]

Init ==
    /\ fed \in BOOLEAN
    /\ q = [k \in Queues |-> EmptyQueue]
    /\ choked = [w \in Waiters |-> FALSE]
    /\ terminate = FALSE /\ task_failed = FALSE
    /\ ms = [s \in OutStreams |-> [last_dts |-> NoDts, source_finished |-> FALSE,
                                   pre |-> <<>>, init_eof |-> FALSE]]
    /\ mux_started = FALSE /\ mux_ready_lock = Nobody
    /\ schedule = Idle
    /\ task_exited = {} /\ opened = FALSE /\ ended = {}
    /\ fg = [graph |-> ~fed, got_frame |-> FALSE]
    /\ th = [t \in Tasks \cup {"main"} |->
               Thread(CASE t = "d" -> "read"
                        [] t = "dec" -> IF fed THEN "recv" ELSE "gone"
                        [] t \in {"fg", "enc"} -> "recv"
                        [] t = "mux" -> "none"
                        [] t = "main" -> "start")]
    /\ next = [k \in {"d1", "d2", "fg"} |-> 1]
    /\ left = MaxIncidents
    /\ written = [s \in OutStreams |-> 0]

Goto(t, pc) == th' = [th EXCEPT ![t].pc = pc]
Fails(t, pc) == th' = [th EXCEPT ![t].pc = pc, ![t].err = TRUE, ![t].closing = TRUE]
Incident == left > 0 /\ left' = left - 1

\* What a step that only moves its thread, uses its queues and ends a
\* destination leaves alone.
SchedKeep == UNCHANGED <<choked, ms, schedule, task_exited>>
MainKeep == UNCHANGED <<fed, terminate>>
MuxKeep == UNCHANGED <<mux_started, mux_ready_lock, opened, fg, written>>
Local == SchedKeep /\ MainKeep /\ MuxKeep /\ UNCHANGED task_failed

-----------------------------------------------------------------------------
(* Choking the sources: trailing_dts(), schedule_update_locked().          *)

Unfinished(m) == {s \in OutStreams : ~m[s].source_finished}

trailing_dts(m) ==
    LET dts == {m[s].last_dts : s \in Unfinished(m)}
    IN  IF dts = {} THEN NoDts ELSE CHOOSE x \in dts : \A y \in dts : x <= y

SourceOf(s) == IF s = 2 /\ ~fed THEN "fg" ELSE "d"

\* A bug: streams are not compared with the trailing one.
AnyUnfinished(m) == Unfinished(m)

\* The streams that are not finished nor too far ahead of the trailing one.
NotAhead(m) ==
    LET dts == trailing_dts(m) IN
    {s \in Unfinished(m) : IF dts = NoDts THEN m[s].last_dts = NoDts
                           ELSE m[s].last_dts - dts < Tolerance}

\* Their sources are not to be choked; if there is none, one that still runs.
ChokedNext(m, exited) ==
    LET asked == {SourceOf(s) : s \in NotAhead(m)}
        running == Waiters \ exited
    IN  Waiters \ (IF asked # {} THEN asked
                   ELSE IF "d" \in running THEN {"d"} ELSE running)

\* Thread t changes what the schedule depends on, and with schedule_lock held
\* it computes who is to be choked. The waiters are set in steps of their own;
\* on termination there are none.
Update(t, m, exited, pc) ==
    LET choke == ChokedNext(m, exited)
        todo == {w \in Waiters : choked[w] # (w \in choke)}
    IN
    /\ schedule.by = Nobody
    /\ ms' = m /\ task_exited' = exited
    /\ IF terminate \/ todo = {}
       THEN Goto(t, pc) /\ UNCHANGED schedule
       ELSE /\ schedule' = [by |-> t, todo |-> todo, choke |-> choke]
            /\ th' = [th EXCEPT ![t].pc = "set", ![t].then = pc]
    /\ UNCHANGED choked

\* waiter_set() of the next waiter, demuxers first.
WaiterSet(t) ==
    LET w == IF "d" \in schedule.todo THEN "d" ELSE "fg"
        rest == schedule.todo \ {w}
    IN
    /\ th[t].pc = "set"
    /\ choked' = [choked EXCEPT ![w] = (w \in schedule.choke)]
    /\ schedule' = IF rest = {} THEN Idle ELSE [schedule EXCEPT !.todo = rest]
    /\ th' = IF rest = {} THEN [th EXCEPT ![t].pc = th[t].then, ![t].then = ""] ELSE th
    /\ UNCHANGED <<ms, task_exited, task_failed, q, ended, next, left>> /\ MainKeep /\ MuxKeep

-----------------------------------------------------------------------------
(* send_to_mux(), in the demuxer for stream 1 and in the encoder for 2.    *)

StreamOf(t) == IF t = "d" THEN 1 ELSE 2
Copy == "copy"            \* the demuxer's dst_finished of stream 1
Coded == "dec"            \* and the one of its other stream

\* task_wrapper() has more to do after an error.
Leaves(t) == IF th[t].err THEN "exit" ELSE "gone"

SourceStreams == IF fed THEN {Copy, Coded} ELSE {Copy}

\* The demuxer reads on while a stream has a consumer.
AfterEnd(e) == IF SourceStreams \subseteq e THEN "done" ELSE "read"

\* send_to_mux() of NULL ends the destination, whatever it returns.
EndedBy(t) == IF th[t].n # Null THEN ended
              ELSE ended \cup {IF t = "d" THEN Copy ELSE "mux"}

Resume(t) ==
    IF t = "d" THEN IF th[t].closing THEN "done" ELSE AfterEnd(EndedBy(t))
               ELSE IF th[t].closing THEN Leaves(t) ELSE "recv"

\* send_to_mux() returns an error: on AVERROR_EOF, NULL is sent.
Returns(t, ret) ==
    /\ ended' = EndedBy(t)
    /\ IF th[t].n = Null THEN Goto(t, Resume(t))
       ELSE IF ret = "eof" THEN th' = [th EXCEPT ![t].n = Null]
       ELSE Fails(t, "done")

\* mux_queue_packet(), while the muxer is not started. The size in bytes is at
\* its threshold, and no allocation fails.
PreQueue(t) ==
    LET s == StreamOf(t) IN
    /\ th[t].pc = "mux"
    /\ ~mux_started /\ mux_ready_lock = Nobody
    /\ IF Len(ms[s].pre) < PreMax
       THEN /\ ms' = [ms EXCEPT ![s].pre = Append(@, th[t].n)]
            /\ Goto(t, "update") /\ UNCHANGED ended
       ELSE Returns(t, "enospc") /\ UNCHANGED ms
    /\ UNCHANGED <<choked, schedule, task_exited, task_failed, q, next, left>>
    /\ MainKeep /\ MuxKeep

Put(t) ==
    LET s == StreamOf(t) IN
    /\ th[t].pc = "mux" /\ mux_started
    /\ IF th[t].n = Null
       THEN /\ q' = [q EXCEPT !["mux"] = SendFinish(@, s)]
            /\ Goto(t, "update") /\ UNCHANGED ended
       ELSE IF ms[s].init_eof THEN Returns(t, "eof") /\ UNCHANGED q
       ELSE \E o \in Send(q["mux"], s, th[t].n) :
                /\ q' = [q EXCEPT !["mux"] = o.q]
                /\ IF o.ret = "ok" THEN Goto(t, "update") /\ UNCHANGED ended
                                   ELSE Returns(t, o.ret)
    /\ Local /\ UNCHANGED <<next, left>>

\* The stream's dts or its end becomes known to the schedule.
UpdateSchedule(t) ==
    LET s == StreamOf(t)
        m == IF th[t].n = Null THEN [ms EXCEPT ![s].source_finished = TRUE]
                               ELSE [ms EXCEPT ![s].last_dts = th[t].n]
    IN
    /\ th[t].pc = "update"
    /\ Update(t, m, task_exited, Resume(t))
    /\ ended' = EndedBy(t)
    /\ UNCHANGED <<task_failed, q, next, left>> /\ MainKeep /\ MuxKeep

SendToMux(t) == PreQueue(t) \/ Put(t) \/ UpdateSchedule(t)

Exit(t) ==
    /\ th[t].pc = "exit"
    /\ Goto(t, "gone")
    /\ task_failed' = TRUE
    /\ SchedKeep /\ MainKeep /\ MuxKeep /\ UNCHANGED <<q, ended, next, left>>

LastUpdate(t) ==
    /\ th[t].pc = "last"
    /\ Update(t, ms, task_exited \cup {t}, Leaves(t))
    /\ UNCHANGED <<task_failed, q, ended, next, left>> /\ MainKeep /\ MuxKeep

-----------------------------------------------------------------------------
(* The demuxer: input_thread(), sch_demux_send(), demux_done().            *)

Has(dst) == dst \in SourceStreams \ ended /\ next[IF dst = Copy THEN "d1" ELSE "d2"] <= N
HasPackets == \E dst \in SourceStreams : Has(dst)

\* The end of the input, or an error in it, which fails the task when errors
\* are to (-xerror).
ReadEnd ==
    /\ th["d"].pc = "read"
    /\ \/ /\ ~HasPackets
          /\ th' = [th EXCEPT !["d"].pc = "done", !["d"].closing = TRUE]
          /\ UNCHANGED left
       \/ Incident /\ Fails("d", "done")
    /\ Local /\ UNCHANGED <<q, ended, next>>

\* waiter_wait() in sch_demux_send().
Waits(t) ==
    /\ th[t].pc = (IF t = "d" THEN "read" ELSE "recv") /\ choked[t]
    /\ IF t = "d" THEN HasPackets ELSE ~fed
    /\ Goto(t, "wait")
    /\ Local /\ UNCHANGED <<q, ended, next, left>>

Proceeds(t) ==
    /\ ~choked[t]
    /\ \/ th[t].pc = (IF t = "d" THEN "read" ELSE "recv")
       \/ th[t].pc = "wait" /\ ~terminate

TerminatedD ==
    /\ th["d"].pc = "wait" /\ terminate
    /\ th' = [th EXCEPT !["d"].pc = "done", !["d"].closing = TRUE]
    /\ Local /\ UNCHANGED <<q, ended, next, left>>

Take ==
    /\ Proceeds("d")
    /\ \E dst \in SourceStreams :
          LET k == IF dst = Copy THEN "d1" ELSE "d2" IN
          /\ Has(dst)
          /\ next' = [next EXCEPT ![k] = @ + 1]
          /\ th' = [th EXCEPT !["d"].pc = IF dst = Copy THEN "mux" ELSE "dec",
                              !["d"].n = next[k]]
    /\ Local /\ UNCHANGED <<q, ended, left>>

SendDec ==
    /\ th["d"].pc = "dec"
    /\ \E o \in Send(q["dec"], 1, th["d"].n) :
          IF o.ret = "ok"
          THEN q' = [q EXCEPT !["dec"] = o.q] /\ Goto("d", "read") /\ UNCHANGED ended
          ELSE /\ q' = [q EXCEPT !["dec"] = SendFinish(o.q, 1)]
               /\ ended' = ended \cup {Coded}
               /\ Goto("d", AfterEnd(ended'))
    /\ Local /\ UNCHANGED <<next, left>>

\* NULL goes to every destination that is not finished, in their order.
DemuxDone ==
    /\ th["d"].pc = "done"
    /\ IF Copy \notin ended
       THEN /\ th' = [th EXCEPT !["d"].pc = "mux", !["d"].n = Null, !["d"].closing = TRUE]
            /\ UNCHANGED <<q, ended>>
       ELSE /\ th' = [th EXCEPT !["d"].pc = "last", !["d"].n = Null]
            /\ ended' = ended \cup SourceStreams
            /\ q' = IF Coded \in SourceStreams \ ended
                    THEN [q EXCEPT !["dec"] = SendFinish(@, 1)] ELSE q
    /\ Local /\ UNCHANGED <<next, left>>

Demuxer ==
    \/ ReadEnd \/ Waits("d") \/ TerminatedD \/ Take \/ SendDec \/ DemuxDone
    \/ SendToMux("d") \/ LastUpdate("d") \/ Exit("d") \/ WaiterSet("d")

-----------------------------------------------------------------------------
(* The decoder: decoder_thread(), sch_dec_send(), dec_done().              *)

DecReceive ==
    /\ th["dec"].pc = "recv"
    /\ \E o \in Receive(q["dec"], {1}) :
          /\ q' = [q EXCEPT !["dec"] = o.q]
          /\ \/ /\ o.ret = "item"
                /\ th' = [th EXCEPT !["dec"].pc = "send", !["dec"].n = o.x]
                /\ UNCHANGED left
             \/ o.ret = "item" /\ Incident /\ Fails("dec", "done")
             \/ /\ o.ret \in {"eof", "end"}
                /\ th' = [th EXCEPT !["dec"].pc = "send", !["dec"].n = EofFrame]
                /\ UNCHANGED left
    /\ Local /\ UNCHANGED <<ended, next>>

\* The input of the filtergraph is ended by its sender, and with the last
\* input the control stream.
FinishInput(k) == SendFinish(SendFinish(k, In), Ctl)

\* A decoder whose frames no one wants ends, as it does after its last frame.
DecSend ==
    /\ th["dec"].pc = "send"
    /\ \E o \in Send(q["fg"], In, th["dec"].n) :
          IF o.ret = "ok"
          THEN /\ q' = [q EXCEPT !["fg"] = o.q]
               /\ Goto("dec", IF th["dec"].n = EofFrame THEN "done" ELSE "recv")
               /\ UNCHANGED ended
          ELSE /\ q' = [q EXCEPT !["fg"] = FinishInput(o.q)]
               /\ ended' = ended \cup {"fg"}
               /\ Goto("dec", "done")
    /\ Local /\ UNCHANGED <<next, left>>

DecDone ==
    /\ th["dec"].pc = "done"
    /\ q' = [q EXCEPT !["dec"] = ReceiveFinish(@, {1}),
                      !["fg"] = IF "fg" \in ended THEN @ ELSE FinishInput(@)]
    /\ ended' = ended \cup {"fg"}
    /\ th' = [th EXCEPT !["dec"].pc = Leaves("dec"), !["dec"].n = Null]
    /\ Local /\ UNCHANGED <<next, left>>

Decoder == DecReceive \/ DecSend \/ DecDone \/ Exit("dec")

-----------------------------------------------------------------------------
(* The filtergraph: filter_thread(), sch_filter_receive(),                 *)
(* sch_filter_send(), filter_done(). A frame makes a frame.                *)

FgInputs == IF fed THEN {In, Ctl} ELSE {Ctl}
FgKeep == SchedKeep /\ MainKeep /\ UNCHANGED <<mux_started, mux_ready_lock, opened, written, task_failed>>

\* The graph is configured with its first frame or, for the EOF frame, with
\* fallback parameters. Ends of single inputs are disregarded.
FgReceive ==
    /\ fed /\ th["fg"].pc = "recv"
    /\ \E o \in Receive(q["fg"], FgInputs) :
          /\ q' = [q EXCEPT !["fg"] = o.q]
          /\ \/ /\ o.ret = "item"
                /\ th' = [th EXCEPT !["fg"].pc = IF o.x = EofFrame THEN "close" ELSE "send",
                                    !["fg"].n = IF o.x = EofFrame THEN Null ELSE o.x]
                /\ fg' = [fg EXCEPT !.graph = TRUE]
                /\ UNCHANGED left
             \/ o.ret = "item" /\ Incident /\ Fails("fg", "done") /\ UNCHANGED fg
             \/ o.ret \in {"eof", "again"} /\ UNCHANGED <<th, fg, left>>
             \/ /\ o.ret = "end"
                /\ Goto("fg", IF fg.graph THEN "close" ELSE "done")
                /\ UNCHANGED <<fg, left>>
    /\ FgKeep /\ UNCHANGED <<ended, next>>

\* A source makes a frame whenever it is not choked.
FgSource ==
    /\ ~fed /\ Proceeds("fg")
    /\ th' = [th EXCEPT !["fg"].pc = "send", !["fg"].n = next["fg"]]
    /\ next' = [next EXCEPT !["fg"] = @ + 1]
    /\ Local /\ UNCHANGED <<q, ended, left>>

TerminatedFg ==
    /\ th["fg"].pc = "wait" /\ terminate
    /\ Goto("fg", "close")
    /\ Local /\ UNCHANGED <<q, ended, next, left>>

\* A bug: packets may pass the pre-muxing queues before these are empty.
EncOpenStarted ==
    /\ ~opened /\ mux_ready_lock = Nobody
    /\ th["fg"].pc = "send" \/ (th["fg"].pc = "close" /\ ~fg.got_frame)
    /\ mux_ready_lock' = "fg" /\ mux_started' = TRUE
    /\ th' = [th EXCEPT !["fg"].then = th["fg"].pc, !["fg"].pc = "flush", !["mux"].pc = "recv"]
    /\ SchedKeep /\ MainKeep
    /\ UNCHANGED <<opened, fg, written, task_failed, q, ended, next, left>>

\* The first frame opens the encoder, or a dummy one when there was none. Now
\* both streams are ready: the muxer's thread is started with mux_ready_lock
\* held. Opening the encoder or writing the header may fail.
EncOpen ==
    /\ ~opened
    /\ th["fg"].pc = "send" \/ (th["fg"].pc = "close" /\ ~fg.got_frame)
    /\ \/ /\ mux_ready_lock = Nobody
          /\ mux_ready_lock' = "fg"
          /\ th' = [th EXCEPT !["fg"].then = th["fg"].pc, !["fg"].pc = "flush",
                              !["mux"].pc = "recv"]
          /\ UNCHANGED left
       \/ Incident /\ Fails("fg", "done") /\ UNCHANGED mux_ready_lock
    /\ SchedKeep /\ MainKeep
    /\ UNCHANGED <<mux_started, opened, fg, written, task_failed, q, ended, next>>

\* A bug: NULL in a pre-muxing queue is not passed on.
FlushWithoutEnd(s) ==
    LET x == Head(ms[s].pre)
        popped == [ms EXCEPT ![s].pre = Tail(@)]
    IN  IF x = Null \/ ms[s].init_eof THEN ms' = popped /\ UNCHANGED q
        ELSE \E o \in Send(q["mux"], s, x) :
                /\ q' = [q EXCEPT !["mux"] = o.q]
                /\ ms' = [popped EXCEPT ![s].init_eof = (o.ret = "eof")]

\* The head of a pre-muxing queue goes to the muxer's queue, or is dropped
\* after the muxer has ended the stream.
FlushOne(s) ==
    LET x == Head(ms[s].pre)
        popped == [ms EXCEPT ![s].pre = Tail(@)]
    IN  IF x = Null THEN q' = [q EXCEPT !["mux"] = SendFinish(@, s)] /\ ms' = popped
        ELSE IF ms[s].init_eof THEN ms' = popped /\ UNCHANGED q
        ELSE \E o \in Send(q["mux"], s, x) :
                /\ q' = [q EXCEPT !["mux"] = o.q]
                /\ ms' = [popped EXCEPT ![s].init_eof = (o.ret = "eof")]

\* mux_task_start(): one stream after the other; then all packets go to the
\* muxer's queue at once.
Flush ==
    /\ th["fg"].pc = "flush"
    /\ \/ /\ \E s \in OutStreams :
                /\ ms[s].pre # <<>> /\ \A r \in 1..(s - 1) : ms[r].pre = <<>>
                /\ FlushOne(s)
          /\ UNCHANGED <<th, mux_started, mux_ready_lock, opened>>
       \/ /\ \A s \in OutStreams : ms[s].pre = <<>>
          /\ mux_started' = TRUE /\ mux_ready_lock' = Nobody /\ opened' = TRUE
          /\ th' = [th EXCEPT !["fg"].pc = th["fg"].then, !["fg"].then = ""]
          /\ UNCHANGED <<q, ms>>
    /\ UNCHANGED <<choked, schedule, task_exited, fg, written, task_failed, ended, next, left>>
    /\ MainKeep

\* A frame for the encoder; an encoder that has ended ends the graph. The
\* graph's end follows a source's last frame at once.
FgSend ==
    /\ th["fg"].pc = "send" /\ opened
    /\ \E o \in Send(q["enc"], 1, th["fg"].n) :
          /\ q' = [q EXCEPT !["enc"] = o.q]
          /\ IF o.ret = "ok"
             THEN /\ fg' = [fg EXCEPT !.got_frame = TRUE]
                  /\ Goto("fg", IF ~fed /\ th["fg"].n = N THEN "close" ELSE "recv")
                  /\ UNCHANGED ended
             ELSE Goto("fg", "done") /\ ended' = ended \cup {"enc"} /\ UNCHANGED fg
    /\ FgKeep /\ UNCHANGED <<next, left>>

\* The end of the graph, close_output(), is the end of the thread as well.
FgDone ==
    /\ th["fg"].pc = "done" \/ (th["fg"].pc = "close" /\ opened)
    /\ q' = [q EXCEPT !["fg"] = ReceiveFinish(@, FgInputs), !["enc"] = SendFinish(@, 1)]
    /\ th' = [th EXCEPT !["fg"].pc = "last", !["fg"].n = Null]
    /\ Local /\ UNCHANGED <<ended, next, left>>

FilterGraph ==
    \/ FgReceive \/ Waits("fg") \/ FgSource \/ TerminatedFg \/ EncOpen \/ Flush
    \/ FgSend \/ FgDone \/ LastUpdate("fg") \/ Exit("fg") \/ WaiterSet("fg")

-----------------------------------------------------------------------------
(* The encoder: encoder_thread(), sch_enc_send(), enc_done().              *)

\* A frame becomes a packet, sent unless the muxer has ended the stream; or
\* the frame is in error, or beyond the recording time. An encoder that never
\* was opened fails at the end.
EncReceive ==
    /\ th["enc"].pc = "recv"
    /\ \E o \in Receive(q["enc"], {1}) :
          /\ q' = [q EXCEPT !["enc"] = o.q]
          /\ \/ /\ o.ret = "item"
                /\ th' = IF "mux" \in ended THEN th
                         ELSE [th EXCEPT !["enc"].pc = "mux", !["enc"].n = o.x]
                /\ UNCHANGED left
             \/ o.ret = "item" /\ Incident /\ (Fails("enc", "done") \/ Goto("enc", "done"))
             \/ /\ o.ret = "eof"
                /\ IF opened THEN Goto("enc", "done") ELSE Fails("enc", "done")
                /\ UNCHANGED left
    /\ Local /\ UNCHANGED <<ended, next>>

EncDone ==
    /\ th["enc"].pc = "done"
    /\ q' = [q EXCEPT !["enc"] = ReceiveFinish(@, {1})]
    /\ th' = [th EXCEPT !["enc"].pc = IF "mux" \in ended THEN Leaves("enc") ELSE "mux",
                        !["enc"].n = Null, !["enc"].closing = TRUE]
    /\ Local /\ UNCHANGED <<ended, next, left>>

Encoder == EncReceive \/ EncDone \/ SendToMux("enc") \/ Exit("enc") \/ WaiterSet("enc")

-----------------------------------------------------------------------------
(* The muxer: muxer_thread(), sch_mux_receive_finish(), mux_done().        *)

\* A packet is written; or writing fails, the file is at its size limit, or
\* the copied stream is at its end by -t.
MuxReceive ==
    /\ th["mux"].pc = "recv"
    /\ \E o \in Receive(q["mux"], OutStreams) :
          \/ /\ o.ret = "item"
             /\ written' = [written EXCEPT ![o.s] = o.x]
             /\ q' = [q EXCEPT !["mux"] = o.q]
             /\ UNCHANGED <<th, left>>
          \/ /\ o.ret = "item" /\ Incident /\ UNCHANGED written
             /\ \/ /\ q' = [q EXCEPT !["mux"] = o.q]
                   /\ (Fails("mux", "done") \/ Goto("mux", "done"))
                \/ /\ o.s = 1
                   /\ q' = [q EXCEPT !["mux"] = ReceiveFinish(o.q, {1})]
                   /\ Goto("mux", "finish")
          \/ /\ o.ret \in {"eof", "again", "end"}
             /\ q' = [q EXCEPT !["mux"] = o.q]
             /\ IF o.ret = "end" THEN Goto("mux", "done") ELSE UNCHANGED th
             /\ UNCHANGED <<written, left>>
    /\ SchedKeep /\ MainKeep
    /\ UNCHANGED <<mux_started, mux_ready_lock, opened, fg, task_failed, ended, next>>

MuxFinish ==
    /\ th["mux"].pc = "finish"
    /\ Update("mux", [ms EXCEPT ![1].source_finished = TRUE], task_exited, "recv")
    /\ UNCHANGED <<task_failed, q, ended, next, left>> /\ MainKeep /\ MuxKeep

\* mux_done(), which main calls itself for a thread that was never started.
MuxDone(t, pc) ==
    /\ q' = [q EXCEPT !["mux"] = ReceiveFinish(@, OutStreams)]
    /\ Update(t, [s \in OutStreams |-> [ms[s] EXCEPT !.source_finished = TRUE]],
              task_exited, pc)
    /\ UNCHANGED <<task_failed, ended, next, left>> /\ MainKeep /\ MuxKeep

Muxer ==
    \/ MuxReceive \/ MuxFinish \/ (th["mux"].pc = "done" /\ MuxDone("mux", Leaves("mux")))
    \/ Exit("mux") \/ WaiterSet("mux")

-----------------------------------------------------------------------------
(* The main thread: sch_start(), sch_wait() in transcode(), sch_stop().    *)

Start ==
    /\ th["main"].pc = "start"
    /\ Update("main", ms, task_exited, "run")
    /\ UNCHANGED <<task_failed, q, ended, next, left>> /\ MainKeep /\ MuxKeep

MainLocal == UNCHANGED <<fed, q, ms, mux_started, mux_ready_lock, schedule, task_failed,
                         task_exited, opened, fg, ended, next, written>>

\* All muxers are done, or a task has failed; or the user types q.
Finish ==
    /\ th["main"].pc = "run" /\ (th["mux"].pc = "gone" \/ task_failed)
    /\ Goto("main", "stop")
    /\ MainLocal /\ UNCHANGED <<choked, terminate, left>>

UserStops ==
    /\ th["main"].pc = "run" /\ Incident
    /\ Goto("main", "stop")
    /\ MainLocal /\ UNCHANGED <<choked, terminate>>

Terminate ==
    /\ th["main"].pc = "stop"
    /\ terminate' = TRUE
    /\ Goto("main", "choke_fg")
    /\ MainLocal /\ UNCHANGED <<choked, left>>

ChokeAll ==
    /\ \/ /\ th["main"].pc = "choke_fg" /\ choked' = [choked EXCEPT !["fg"] = TRUE]
          /\ Goto("main", "choke_d")
       \/ /\ th["main"].pc = "choke_d" /\ choked' = [choked EXCEPT !["d"] = TRUE]
          /\ Goto("main", "join")
    /\ MainLocal /\ UNCHANGED <<terminate, left>>

\* The muxer is joined last.
Join ==
    /\ th["main"].pc = "join"
    /\ \A t \in Tasks \ {"mux"} : th[t].pc = "gone"
    /\ \/ /\ th["mux"].pc = "gone" /\ Goto("main", "stopped")
          /\ MainLocal /\ UNCHANGED <<choked, terminate, left>>
       \/ th["mux"].pc = "none" /\ MuxDone("main", "stopped")

Main == Start \/ Finish \/ Terminate \/ ChokeAll \/ Join \/ WaiterSet("main")

-----------------------------------------------------------------------------
Threads == Demuxer \/ Decoder \/ FilterGraph \/ Encoder \/ Muxer \/ Main

Next == Threads \/ UserStops

Spec == Init /\ [][Next]_vars

\* While one of the threads can go on, one does; reading, coding and writing
\* end. As the input is finite this is enough: no thread can be overtaken for
\* ever.
Fairness == WF_vars(Threads)
FairSpec == Spec /\ Fairness

-----------------------------------------------------------------------------
(* Properties.                                                             *)

Places == {"read", "wait", "mux", "update", "set", "dec", "recv", "send", "flush", "close",
           "done", "last", "exit", "gone", "none", "finish",
           "start", "run", "stop", "choke_fg", "choke_d", "join", "stopped"}

TypeOK ==
    /\ \A k \in Queues : Len(q[k].fifo) <= QueueSize /\ q[k].told \subseteq q[k].recv
    /\ choked \in [Waiters -> BOOLEAN]
    /\ \A s \in OutStreams : ms[s].last_dts \in 0..N /\ Len(ms[s].pre) <= PreMax
    /\ \A t \in Tasks \cup {"main"} :
          th[t].pc \in Places /\ th[t].n \in 0..EofFrame /\ th[t].err \in BOOLEAN
    /\ mux_started => opened
    /\ schedule.by # Nobody <=> schedule.todo # {}
    /\ schedule.by # Nobody => th[schedule.by].pc = "set"

\* The muxer gets the packets of a stream in their order, without one missing,
\* whether they went through the pre-muxing queue, the flush of it or past it;
\* and a transcoding without incident delivers all of them and does not fail.
Delivered ==
    /\ [][\A s \in OutStreams : written'[s] # written[s] => written'[s] = written[s] + 1]_vars
    /\ [](th["main"].pc = "stopped" /\ left = MaxIncidents
            => ~task_failed /\ \A s \in OutStreams : written[s] = N)

\* Each stream of the muxer's queue is a channel that knows nothing of the
\* other one.
Channel1 == INSTANCE StreamChannel WITH
    Items <- {1} \X (1..N),
    buf <- Pending(q["mux"], 1),
    sender <- Sender(q["mux"], 1),
    receiver <- Receiver(q["mux"], 1)

Channel2 == INSTANCE StreamChannel WITH
    Items <- {2} \X (1..N),
    buf <- Pending(q["mux"], 2),
    sender <- Sender(q["mux"], 2),
    receiver <- Receiver(q["mux"], 2)

QueueIsChannels == Channel1!ChannelSpec /\ Channel2!ChannelSpec

\* Two sources that know nothing of each other stay together: while both
\* streams are under way, none is further ahead of the other than the tolerance
\* and what is already on its way to the muxer.
OnTheWay(s) == IF s = 1 THEN 0 ELSE QueueSize + 1
BoundedLead ==
    ~fed /\ ~terminate /\ Unfinished(ms) = OutStreams =>
        \A s, r \in OutStreams : ms[s].last_dts - ms[r].last_dts <= Tolerance + OnTheWay(s)

\* The transcoding comes to its end, or to the one an incident makes of it:
\* the choking never leaves all sources choked for good, no end of a stream
\* gets lost, and sch_stop() can join every task.
TranscodeEnds == <>(th["main"].pc = "stopped")

\* A task that fails ends the transcoding (ffmpeg_sched.h: badly interleaved
\* input leads to "increasing amounts of buffering followed by eventual
\* transcoding failure").
FailureEnds == task_failed ~> th["main"].pc = "stopped"
=============================================================================

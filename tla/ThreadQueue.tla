---------------------------- MODULE ThreadQueue ----------------------------
(***************************************************************************)
(* The queue between two kinds of tasks, fftools/thread_queue.c: a bounded *)
(* FIFO of items of several streams, where each stream is ended on its     *)
(* own, by the side that sends or by the side that receives. A queue is a  *)
(* value here; an operation is the set of its outcomes, each one with the  *)
(* queue it leaves behind. The set is empty while the call has to wait.    *)
(*                                                                         *)
(* q.fifo holds <<stream, item>>; q.send and q.recv are the streams that   *)
(* have FINISHED_SEND and FINISHED_RECV set. q.told is not in the code: it *)
(* is the streams whose end tq_receive() has returned.                     *)
(***************************************************************************)
EXTENDS Naturals, Sequences

CONSTANT QueueSize          \* queue_size of tq_alloc()

ASSUME QueueSizeAssumption == QueueSize \in Nat \ {0}

EmptyQueue == [fifo |-> <<>>, send |-> {}, recv |-> {}, told |-> {}]

\* A bug: one item too many.
CanWriteOneMore(q) == Len(q.fifo) <= QueueSize

CanWrite(q) == Len(q.fifo) < QueueSize

\* tq_send(): a sender that waits for room is also woken by the end of its
\* stream, which it learns once.
Send(q, s, x) ==
    IF s \in q.send THEN {[ret |-> "einval", q |-> q]}
    ELSE IF s \in q.recv THEN {[ret |-> "eof", q |-> [q EXCEPT !.send = @ \cup {s}]]}
    ELSE IF CanWrite(q)
         THEN {[ret |-> "ok", q |-> [q EXCEPT !.fifo = Append(@, <<s, x>>)]]}
         ELSE {}

SendFinish(q, s) == [q EXCEPT !.send = @ \cup {s}]
ReceiveFinish(q, S) == [q EXCEPT !.recv = @ \cup S]

\* The place of the first item whose stream the receiver has not ended.
FirstLive(q) ==
    CHOOSE k \in 1..(Len(q.fifo) + 1) :
        /\ k <= Len(q.fifo) => q.fifo[k][1] \notin q.recv
        /\ \A j \in 1..(k - 1) : q.fifo[j][1] \in q.recv

Rest(q, k) == SubSeq(q.fifo, k, Len(q.fifo))
Outcome(ret, s, x, q) == [ret |-> ret, s |-> s, x |-> x, q |-> q]

\* A bug: the end of a stream is returned before what is left of it.
ReceiveEndFirst(q, streams) ==
    LET over == q.send \ q.recv
        s == CHOOSE t \in over : \A u \in over : t <= u
    IN  IF over # {}
        THEN {Outcome("eof", s, 0, [q EXCEPT !.recv = @ \cup {s}, !.told = @ \cup {s}])}
        ELSE IF q.fifo # <<>>
        THEN {Outcome("item", q.fifo[1][1], q.fifo[1][2], [q EXCEPT !.fifo = Tail(@)])}
        ELSE IF streams \subseteq q.recv THEN {Outcome("end", 0, 0, q)}
        ELSE {}

\* tq_receive() of a queue with the given streams. Items of a stream that the
\* receiver has ended are dropped, even if there is nothing to return then.
\* The end of a stream is returned behind its items, lowest stream first.
Receive(q, streams) ==
    LET k == FirstLive(q)
        dropped == [q EXCEPT !.fifo = Rest(q, k)]
        over == q.send \ q.recv
        s == CHOOSE t \in over : \A u \in over : t <= u
    IN  IF k <= Len(q.fifo)
        THEN {Outcome("item", q.fifo[k][1], q.fifo[k][2], [q EXCEPT !.fifo = Rest(q, k + 1)])}
        ELSE IF over # {}
        THEN {Outcome("eof", s, 0, [dropped EXCEPT !.recv = @ \cup {s}, !.told = @ \cup {s}])}
        ELSE IF streams \subseteq q.recv THEN {Outcome("end", 0, 0, dropped)}
        ELSE IF k > 1 THEN {Outcome("again", 0, 0, dropped)}
        ELSE {}

-----------------------------------------------------------------------------
(* A queue as its streams see it.                                          *)

\* The items of stream s, in their order.
OfStream(fifo, s) ==
    LET of[k \in 0..Len(fifo)] == IF k = 0 THEN <<>>
                                  ELSE IF fifo[k][1] = s THEN Append(of[k - 1], fifo[k])
                                  ELSE of[k - 1]
    IN  of[Len(fifo)]

\* The items of stream s that can still be received.
Pending(q, s) == IF s \in q.recv THEN <<>> ELSE OfStream(q.fifo, s)

Sender(q, s) == IF s \in q.send THEN "closed" ELSE "open"
Receiver(q, s) == IF s \in q.told THEN "ended" ELSE IF s \in q.recv THEN "gone" ELSE "open"
=============================================================================

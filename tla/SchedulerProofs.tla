-------------------------- MODULE SchedulerProofs --------------------------
(***************************************************************************)
(* Theorems about Scheduler, for any number of packets, any size of the    *)
(* queues, any tolerance and any number of incidents: the variables keep   *)
(* their types, the queue of ThreadQueue implements StreamChannel for each *)
(* of its streams, and two sources never are further apart than allowed.   *)
(* First what the operators of ThreadQueue return.                         *)
(***************************************************************************)
EXTENDS Scheduler, FiniteSetTheorems, SequenceTheorems, TLAPS

-----------------------------------------------------------------------------
(* Natural numbers: a set of them has a least one. As a set cannot be an   *)
(* operator, induction over them is stated of sets too.                    *)

LEMMA LeastOf ==
  ASSUME NEW T, T \subseteq Nat, T # {}
  PROVE  \E x \in T : \A y \in T : x <= y
<1> DEFINE Below(n) == 0..n
           B == {Below(n) : n \in T}
           R == StrictSubsetOrdering(Nat)
<1>1. IsWellFoundedOn(R, FiniteSubsetsOf(Nat))
  BY FS_StrictSubsetOrderingWellFounded
<1>2. B \subseteq FiniteSubsetsOf(Nat)
  <2> SUFFICES ASSUME NEW n \in T
               PROVE  Below(n) \in FiniteSubsetsOf(Nat)
    OBVIOUS
  <2>1. IsFiniteSet(Below(n))
    BY FS_Interval
  <2>2. Below(n) \subseteq Nat
    OBVIOUS
  <2> QED BY <2>1, <2>2 DEF FiniteSubsetsOf
<1>3. B # {}
  OBVIOUS
<1>4. PICK b \in B : \A c \in B : ~ (<<c, b>> \in R)
  <2> HIDE DEF B, R
  <2> QED BY <1>1, <1>2, <1>3, WFMin
<1>5. PICK x \in T : b = Below(x)
  BY <1>4
<1>6. ASSUME NEW y \in T, y < x
      PROVE  FALSE
  <2>1. Below(y) \subseteq Below(x) /\ Below(y) # Below(x)
    BY <1>6
  <2>2. Below(y) \in SUBSET Nat /\ Below(x) \in SUBSET Nat
    OBVIOUS
  <2>3. <<Below(y), Below(x)>> \in R
    BY <2>1, <2>2 DEF StrictSubsetOrdering
  <2> QED BY <2>3, <1>4, <1>5
<1> QED BY <1>6

LEMMA SetInduction ==
  ASSUME NEW T, 0 \in T, \A n \in Nat : n \in T => n + 1 \in T
  PROVE  Nat \subseteq T
<1> SUFFICES ASSUME Nat \ T # {}
             PROVE  FALSE
  OBVIOUS
<1>1. PICK x \in Nat \ T : \A y \in Nat \ T : x <= y
  BY LeastOf
<1>2. x - 1 \in Nat /\ x - 1 \in T
  BY <1>1
<1> QED BY <1>1, <1>2

-----------------------------------------------------------------------------
(* The operations of a queue keep its type and its bound.                  *)

Streams == {1, 2}

QueueType(items) == [fifo : Seq(Streams \X items), send : SUBSET Streams,
                     recv : SUBSET Streams, told : SUBSET Streams]

QueueOK(k, items) ==
    k \in QueueType(items) /\ Len(k.fifo) <= QueueSize /\ k.told \subseteq k.recv

LEMMA EmptyQueueOK == \A items : QueueOK(EmptyQueue, items)
BY QueueSizeAssumption DEF QueueOK, QueueType, EmptyQueue

LEMMA SendFinishOK ==
  ASSUME NEW items, NEW k, QueueOK(k, items), NEW s \in Streams
  PROVE  QueueOK(SendFinish(k, s), items)
BY DEF QueueOK, QueueType, SendFinish

LEMMA ReceiveFinishOK ==
  ASSUME NEW items, NEW k, QueueOK(k, items), NEW S \in SUBSET Streams
  PROVE  QueueOK(ReceiveFinish(k, S), items)
BY DEF QueueOK, QueueType, ReceiveFinish

LEMMA SendOK ==
  ASSUME NEW items, NEW k, QueueOK(k, items), NEW s \in Streams, NEW x \in items,
         NEW o \in Send(k, s, x)
  PROVE  QueueOK(o.q, items) /\ o.ret \in {"ok", "eof", "einval"}
<1>1. CASE s \in k.send
  BY <1>1 DEF Send
<1>2. CASE s \notin k.send /\ s \in k.recv
  <2>1. o = [ret |-> "eof", q |-> [k EXCEPT !.send = @ \cup {s}]]
    BY <1>2 DEF Send
  <2> QED BY <2>1 DEF QueueOK, QueueType
<1>3. CASE s \notin k.send /\ s \notin k.recv
  <2>1. CanWrite(k) /\ o = [ret |-> "ok", q |-> [k EXCEPT !.fifo = Append(@, <<s, x>>)]]
    BY <1>3 DEF Send
  <2>2. <<s, x>> \in Streams \X items /\ k.fifo \in Seq(Streams \X items)
    BY DEF QueueOK, QueueType
  <2>3. /\ Append(k.fifo, <<s, x>>) \in Seq(Streams \X items)
        /\ Len(Append(k.fifo, <<s, x>>)) = Len(k.fifo) + 1
    BY <2>2, AppendProperties
  <2>4. Len(k.fifo) + 1 <= QueueSize
    BY <2>1, <2>2, QueueSizeAssumption, LenProperties DEF CanWrite
  <2> QED BY <2>1, <2>3, <2>4 DEF QueueOK, QueueType
<1> QED BY <1>1, <1>2, <1>3

LEMMA WithFifo ==
  ASSUME NEW items, NEW k, QueueOK(k, items),
         NEW f \in Seq(Streams \X items), Len(f) <= QueueSize
  PROVE  QueueOK([k EXCEPT !.fifo = f], items)
BY DEF QueueOK, QueueType

\* What is left behind the first items of a queue.
LEMMA RestOK ==
  ASSUME NEW items, NEW k, QueueOK(k, items), NEW j \in 1..(Len(k.fifo) + 1)
  PROVE  /\ Rest(k, j) \in Seq(Streams \X items)
         /\ Len(Rest(k, j)) = Len(k.fifo) - j + 1
         /\ \A i \in 1..(Len(k.fifo) - j + 1) : Rest(k, j)[i] = k.fifo[i + j - 1]
<1>1. k.fifo \in Seq(Streams \X items)
  BY DEF QueueOK, QueueType
<1>2. Len(k.fifo) \in Nat /\ \A i \in j..Len(k.fifo) : k.fifo[i] \in Streams \X items
  BY <1>1, LenProperties, ElementOfSeq
<1>3. /\ SubSeq(k.fifo, j, Len(k.fifo)) \in Seq(Streams \X items)
      /\ Len(SubSeq(k.fifo, j, Len(k.fifo))) =
            (IF j <= Len(k.fifo) THEN Len(k.fifo) - j + 1 ELSE 0)
      /\ \A i \in 1 .. Len(k.fifo) - j + 1 : SubSeq(k.fifo, j, Len(k.fifo))[i] = k.fifo[j + i - 1]
  BY <1>2, SubSeqProperties
<1> QED BY <1>2, <1>3 DEF Rest

\* The place of the first live item exists: behind the last one, if need be.
Live(k, j) == j <= Len(k.fifo) => k.fifo[j][1] \notin k.recv

LEMMA FirstLiveIs ==
  ASSUME NEW items, NEW k, QueueOK(k, items)
  PROVE  /\ FirstLive(k) \in 1..(Len(k.fifo) + 1)
         /\ FirstLive(k) <= Len(k.fifo) => k.fifo[FirstLive(k)][1] \notin k.recv
         /\ \A j \in 1..(FirstLive(k) - 1) : k.fifo[j][1] \in k.recv
<1>1. Len(k.fifo) \in Nat
  BY LenProperties DEF QueueOK, QueueType
<1> DEFINE L == {j \in 1..(Len(k.fifo) + 1) : Live(k, j)}
<1>2. L \subseteq Nat /\ Len(k.fifo) + 1 \in L
  BY <1>1 DEF Live
<1>3. PICK x \in L : \A y \in L : x <= y
  BY <1>2, LeastOf
<1>4. x \in 1..(Len(k.fifo) + 1) /\ Live(k, x)
  OBVIOUS
<1>5. \A j \in 1..(x - 1) : k.fifo[j][1] \in k.recv
  <2> SUFFICES ASSUME NEW j \in 1..(x - 1), k.fifo[j][1] \notin k.recv
               PROVE  FALSE
    OBVIOUS
  <2>1. j \in L
    BY <1>1, <1>4 DEF Live
  <2> QED BY <1>1, <1>3, <1>4, <2>1
<1>6. \E j \in 1..(Len(k.fifo) + 1) :
         /\ j <= Len(k.fifo) => k.fifo[j][1] \notin k.recv
         /\ \A i \in 1..(j - 1) : k.fifo[i][1] \in k.recv
  BY <1>4, <1>5 DEF Live
<1> QED BY <1>6, Zenon DEF FirstLive

LEMMA LeastStream ==
  ASSUME NEW over \in SUBSET Streams, over # {}
  PROVE  (CHOOSE t \in over : \A u \in over : t <= u) \in over
<1>1. CASE 1 \in over
  <2>1. \A u \in over : 1 <= u
    BY DEF Streams
  <2> QED BY <1>1, <2>1
<1>2. CASE 1 \notin over
  <2>1. over = {2}
    BY <1>2 DEF Streams
  <2> QED BY <2>1
<1> QED BY <1>1, <1>2

LEMMA ReceiveOK ==
  ASSUME NEW items, NEW k, QueueOK(k, items), NEW S \in SUBSET Streams,
         NEW o \in Receive(k, S)
  PROVE  /\ QueueOK(o.q, items) /\ o.ret \in {"item", "eof", "end", "again"}
         /\ o.ret = "item" => o.s \in Streams /\ o.x \in items
<1> DEFINE j == FirstLive(k)
           dropped == [k EXCEPT !.fifo = Rest(k, j)]
           over == k.send \ k.recv
           s == CHOOSE t \in over : \A u \in over : t <= u
<1>1. Len(k.fifo) \in Nat /\ k.fifo \in Seq(Streams \X items)
  BY LenProperties DEF QueueOK, QueueType
<1>2. j \in 1..(Len(k.fifo) + 1)
  BY FirstLiveIs
<1>3. QueueOK(dropped, items)
  <2>1. Rest(k, j) \in Seq(Streams \X items) /\ Len(Rest(k, j)) = Len(k.fifo) - j + 1
    BY <1>2, RestOK
  <2>2. Len(k.fifo) - j + 1 <= QueueSize
    BY <1>1, <1>2, QueueSizeAssumption DEF QueueOK
  <2> QED BY <2>1, <2>2, WithFifo
<1>4. CASE j <= Len(k.fifo)
  <2>1. o = Outcome("item", k.fifo[j][1], k.fifo[j][2], [k EXCEPT !.fifo = Rest(k, j + 1)])
    BY <1>4 DEF Receive
  <2>2. j + 1 \in 1..(Len(k.fifo) + 1)
    BY <1>1, <1>2, <1>4
  <2>3. QueueOK([k EXCEPT !.fifo = Rest(k, j + 1)], items)
    <3>1. /\ Rest(k, j + 1) \in Seq(Streams \X items)
          /\ Len(Rest(k, j + 1)) = Len(k.fifo) - (j + 1) + 1
      BY <2>2, RestOK
    <3>2. Len(k.fifo) - (j + 1) + 1 <= QueueSize
      BY <1>1, <1>2, QueueSizeAssumption DEF QueueOK
    <3> QED BY <3>1, <3>2, WithFifo
  <2>4. k.fifo[j] \in Streams \X items
    BY <1>1, <1>2, <1>4, ElementOfSeq
  <2> QED BY <2>1, <2>3, <2>4 DEF Outcome
<1>5. CASE ~(j <= Len(k.fifo)) /\ over # {}
  <2>1. o = Outcome("eof", s, 0, [dropped EXCEPT !.recv = @ \cup {s}, !.told = @ \cup {s}])
    BY <1>5 DEF Receive
  <2>2. over \in SUBSET Streams
    BY DEF QueueOK, QueueType
  <2>3. s \in Streams
    BY <1>5, <2>2, LeastStream
  <2> HIDE DEF s, dropped
  <2>4. QueueOK([dropped EXCEPT !.recv = @ \cup {s}, !.told = @ \cup {s}], items)
    BY <1>3, <2>3 DEF QueueOK, QueueType
  <2> QED BY <2>1, <2>4 DEF Outcome
<1>6. CASE ~(j <= Len(k.fifo)) /\ over = {}
  <2>1. o = Outcome("end", 0, 0, dropped) \/ o = Outcome("again", 0, 0, dropped)
    BY <1>6 DEF Receive
  <2> QED BY <1>3, <2>1 DEF Outcome
<1> QED BY <1>4, <1>5, <1>6

-----------------------------------------------------------------------------
(* The items of one stream.                                                *)

\* f[k] is the items of stream s among the first k ones.
PicksUpTo(f, fifo, s, n) ==
    f = [k \in 0..n |-> IF k = 0 THEN <<>>
                        ELSE IF fifo[k][1] = s THEN Append(f[k - 1], fifo[k])
                        ELSE f[k - 1]]

\* Conditions on two queues, and on the first items of one.
SameUpTo(fifo, gifo, n) == \A k \in 1..n : fifo[k] = gifo[k]
ItemsIn(fifo, S, n) == \A k \in 1..n : fifo[k] \in S
IsBehind(rest, fifo, j, n) == \A k \in 1..n : rest[k] = fifo[j + k]
NoneUpTo(fifo, s, n) == \A k \in 1..n : fifo[k][1] # s

LEMMA PicksStep ==
  ASSUME NEW f, NEW fifo, NEW s, NEW n \in Nat, PicksUpTo(f, fifo, s, n)
  PROVE  /\ f[0] = <<>>
         /\ \A k \in 1..n : f[k] = IF fifo[k][1] = s THEN Append(f[k - 1], fifo[k]) ELSE f[k - 1]
<1> DEFINE g == [k \in 0..n |-> IF k = 0 THEN <<>>
                        ELSE IF fifo[k][1] = s THEN Append(f[k - 1], fifo[k])
                        ELSE f[k - 1]]
<1>1. f = g
  BY DEF PicksUpTo
<1>2. g[0] = <<>> /\ \A k \in 1..n : g[k] = IF fifo[k][1] = s THEN Append(f[k - 1], fifo[k]) ELSE f[k - 1]
  OBVIOUS
<1> HIDE DEF g
<1> QED BY <1>1, <1>2

LEMMA PicksExist ==
  ASSUME NEW fifo, NEW s, NEW n \in Nat
  PROVE  \E f : PicksUpTo(f, fifo, s, n)
<1> DEFINE T == {m \in Nat : \E f : PicksUpTo(f, fifo, s, m)}
<1>1. 0 \in T
  <2>1. PicksUpTo([k \in 0..0 |-> <<>>], fifo, s, 0)
    BY DEF PicksUpTo
  <2> QED BY <2>1
<1>2. ASSUME NEW m \in Nat, m \in T
      PROVE  m + 1 \in T
  <2>1. PICK f : PicksUpTo(f, fifo, s, m)
    BY <1>2
  <2> DEFINE g == [k \in 0..(m + 1) |-> IF k = 0 THEN <<>>
                        ELSE IF fifo[k][1] = s THEN Append(f[k - 1], fifo[k])
                        ELSE f[k - 1]]
  <2>2. \A k \in 0..m : g[k] = f[k]
    <3>1. f[0] = <<>> /\ g[0] = <<>>
      BY <2>1, PicksStep
    <3>2. ASSUME NEW k \in 1..m
          PROVE  g[k] = f[k]
      <4>1. f[k] = IF fifo[k][1] = s THEN Append(f[k - 1], fifo[k]) ELSE f[k - 1]
        BY <2>1, PicksStep
      <4>2. k # 0 /\ k \in 0..(m + 1)
        OBVIOUS
      <4> QED BY <4>1, <4>2
    <3>3. \A k \in 0..m : k = 0 \/ k \in 1..m
      OBVIOUS
    <3> QED BY <3>1, <3>2, <3>3
  <2>3. g = [k \in 0..(m + 1) |-> IF k = 0 THEN <<>>
                        ELSE IF fifo[k][1] = s THEN Append(g[k - 1], fifo[k])
                        ELSE g[k - 1]]
    <3>1. \A k \in 0..(m + 1) : k # 0 => k - 1 \in 0..m
      OBVIOUS
    <3>2. \A k \in 0..(m + 1) : k # 0 => g[k - 1] = f[k - 1]
      <4> HIDE DEF g
      <4> QED BY <2>2, <3>1
    <3> QED BY <3>2
  <2> HIDE DEF g
  <2> QED BY <2>3 DEF PicksUpTo
<1> HIDE DEF T
<1>3. n \in T
  BY <1>1, <1>2, SetInduction
<1> QED BY <1>3 DEF T

LEMMA OfStreamPicks ==
  ASSUME NEW S, NEW fifo \in Seq(S), NEW s
  PROVE  \E f : PicksUpTo(f, fifo, s, Len(fifo)) /\ OfStream(fifo, s) = f[Len(fifo)]
<1> DEFINE F == CHOOSE f : PicksUpTo(f, fifo, s, Len(fifo))
<1>1. \E f : PicksUpTo(f, fifo, s, Len(fifo))
  BY PicksExist, LenProperties
<1>2. PicksUpTo(F, fifo, s, Len(fifo))
  BY <1>1
<1>3. OfStream(fifo, s) = F[Len(fifo)]
  BY DEF OfStream, PicksUpTo
<1> QED BY <1>2, <1>3

\* The items picked depend on the items up to there only.
LEMMA PicksAgree ==
  ASSUME NEW fifo, NEW gifo, NEW s, NEW m \in Nat, NEW n \in Nat, NEW l \in Nat, l <= m, l <= n,
         NEW f, PicksUpTo(f, fifo, s, m), NEW g, PicksUpTo(g, gifo, s, n),
         SameUpTo(fifo, gifo, l)
  PROVE  f[l] = g[l]
<1> DEFINE T == {k \in Nat : k <= l => f[k] = g[k]}
<1>1. /\ f[0] = <<>> /\ g[0] = <<>>
      /\ \A k \in 1..m : f[k] = IF fifo[k][1] = s THEN Append(f[k - 1], fifo[k]) ELSE f[k - 1]
      /\ \A k \in 1..n : g[k] = IF gifo[k][1] = s THEN Append(g[k - 1], gifo[k]) ELSE g[k - 1]
  BY PicksStep
<1>2. 0 \in T
  BY <1>1
<1>3. ASSUME NEW k \in Nat, k \in T
      PROVE  k + 1 \in T
  <2> SUFFICES ASSUME k + 1 <= l
               PROVE  f[k + 1] = g[k + 1]
    OBVIOUS
  <2>1. /\ k + 1 \in 1..m /\ k + 1 \in 1..n /\ (k + 1) - 1 = k /\ f[k] = g[k]
        /\ fifo[k + 1] = gifo[k + 1]
    BY <1>3 DEF SameUpTo
  <2>2. f[k + 1] = IF fifo[k + 1][1] = s THEN Append(f[k], fifo[k + 1]) ELSE f[k]
    BY <1>1, <2>1
  <2>3. g[k + 1] = IF gifo[k + 1][1] = s THEN Append(g[k], gifo[k + 1]) ELSE g[k]
    BY <1>1, <2>1
  <2> QED BY <2>1, <2>2, <2>3
<1> HIDE DEF T
<1>4. l \in T
  BY <1>2, <1>3, SetInduction
<1> QED BY <1>4 DEF T

LEMMA PicksType ==
  ASSUME NEW S, NEW fifo, NEW s, NEW n \in Nat, NEW f, PicksUpTo(f, fifo, s, n),
         \A k \in 1..n : fifo[k] \in S
  PROVE  \A k \in 0..n : f[k] \in Seq(S)
<1> DEFINE T == {k \in Nat : k <= n => f[k] \in Seq(S)}
<1>1. /\ f[0] = <<>>
      /\ \A k \in 1..n : f[k] = IF fifo[k][1] = s THEN Append(f[k - 1], fifo[k]) ELSE f[k - 1]
  BY PicksStep
<1>2. 0 \in T
  BY <1>1, EmptySeq
<1>3. ASSUME NEW k \in Nat, k \in T
      PROVE  k + 1 \in T
  <2> SUFFICES ASSUME k + 1 <= n
               PROVE  f[k + 1] \in Seq(S)
    OBVIOUS
  <2>1. k + 1 \in 1..n /\ (k + 1) - 1 = k /\ f[k] \in Seq(S)
    BY <1>3
  <2>2. f[k + 1] = IF fifo[k + 1][1] = s THEN Append(f[k], fifo[k + 1]) ELSE f[k]
    BY <1>1, <2>1
  <2>3. Append(f[k], fifo[k + 1]) \in Seq(S)
    BY <2>1, AppendProperties
  <2> QED BY <2>1, <2>2, <2>3
<1>4. Nat \subseteq T
  <2> HIDE DEF T
  <2> QED BY <1>2, <1>3, SetInduction
<1> QED BY <1>4

LEMMA OfStreamType ==
  ASSUME NEW S, NEW fifo \in Seq(S), NEW s
  PROVE  OfStream(fifo, s) \in Seq(S)
<1>1. PICK f : PicksUpTo(f, fifo, s, Len(fifo)) /\ OfStream(fifo, s) = f[Len(fifo)]
  BY OfStreamPicks
<1>2. Len(fifo) \in Nat /\ \A k \in 1..Len(fifo) : fifo[k] \in S
  BY LenProperties, ElementOfSeq
<1>3. \A k \in 0..Len(fifo) : f[k] \in Seq(S)
  BY <1>1, <1>2, PicksType
<1> QED BY <1>1, <1>2, <1>3

LEMMA OfStreamAppend ==
  ASSUME NEW S, NEW fifo \in Seq(S), NEW s, NEW e \in S
  PROVE  /\ e[1] = s => OfStream(Append(fifo, e), s) = Append(OfStream(fifo, s), e)
         /\ e[1] # s => OfStream(Append(fifo, e), s) = OfStream(fifo, s)
<1> DEFINE n == Len(fifo)
           gifo == Append(fifo, e)
<1>1. /\ n \in Nat /\ gifo \in Seq(S) /\ Len(gifo) = n + 1
      /\ \A k \in 1..n : gifo[k] = fifo[k]
      /\ gifo[n + 1] = e
  BY AppendProperties, LenProperties
<1>2. PICK f : PicksUpTo(f, fifo, s, n) /\ OfStream(fifo, s) = f[n]
  BY OfStreamPicks
<1> HIDE DEF gifo, n
<1>3. PICK g : PicksUpTo(g, gifo, s, n + 1) /\ OfStream(gifo, s) = g[n + 1]
  BY <1>1, OfStreamPicks
<1>4. g[n] = f[n]
  <2> DEFINE m == n + 1
  <2>1. n \in Nat /\ m \in Nat /\ n <= n /\ n <= m /\ SameUpTo(fifo, gifo, n)
    BY <1>1 DEF SameUpTo
  <2>2. PicksUpTo(f, fifo, s, n) /\ PicksUpTo(g, gifo, s, m)
    BY <1>2, <1>3
  <2> HIDE DEF m
  <2>3. f[n] = g[n]
    BY <2>1, <2>2, PicksAgree
  <2> QED BY <2>3
<1>5. n + 1 \in 1..(n + 1) /\ (n + 1) - 1 = n /\ n + 1 \in Nat
  BY <1>1
<1>6. g[n + 1] = IF gifo[n + 1][1] = s THEN Append(g[n], gifo[n + 1]) ELSE g[n]
  BY <1>3, <1>5, PicksStep
<1> QED BY <1>1, <1>2, <1>3, <1>4, <1>6 DEF gifo

\* Before the first item of the stream there is none of it.
LEMMA PicksNone ==
  ASSUME NEW fifo, NEW s, NEW n \in Nat, NEW f, PicksUpTo(f, fifo, s, n),
         NEW l \in 0..n, NoneUpTo(fifo, s, l)
  PROVE  f[l] = <<>>
<1> DEFINE T == {k \in Nat : k <= l => f[k] = <<>>}
<1>1. /\ f[0] = <<>>
      /\ \A k \in 1..n : f[k] = IF fifo[k][1] = s THEN Append(f[k - 1], fifo[k]) ELSE f[k - 1]
  BY PicksStep
<1>2. 0 \in T
  BY <1>1
<1>3. ASSUME NEW k \in Nat, k \in T
      PROVE  k + 1 \in T
  <2> SUFFICES ASSUME k + 1 <= l
               PROVE  f[k + 1] = <<>>
    OBVIOUS
  <2>1. k + 1 \in 1..n /\ (k + 1) - 1 = k /\ f[k] = <<>> /\ fifo[k + 1][1] # s
    BY <1>3 DEF NoneUpTo
  <2>2. f[k + 1] = IF fifo[k + 1][1] = s THEN Append(f[k], fifo[k + 1]) ELSE f[k]
    BY <1>1, <2>1
  <2> QED BY <2>1, <2>2
<1> HIDE DEF T
<1>4. l \in T
  BY <1>2, <1>3, SetInduction
<1> QED BY <1>4 DEF T

LEMMA OfStreamNone ==
  ASSUME NEW S, NEW fifo \in Seq(S), NEW s, \A k \in 1..Len(fifo) : fifo[k][1] # s
  PROVE  OfStream(fifo, s) = <<>>
<1>1. PICK f : PicksUpTo(f, fifo, s, Len(fifo)) /\ OfStream(fifo, s) = f[Len(fifo)]
  BY OfStreamPicks
<1> DEFINE n == Len(fifo)
<1>2. n \in Nat /\ n \in 0..n
  BY LenProperties
<1>3. NoneUpTo(fifo, s, n)
  BY DEF NoneUpTo
<1>4. PicksUpTo(f, fifo, s, n)
  BY <1>1
<1> HIDE DEF n
<1>5. f[n] = <<>>
  BY <1>2, <1>3, <1>4, PicksNone, Zenon
<1> QED BY <1>1, <1>5 DEF n

\* f picks from a queue, h from what is behind its first j items.
PickBehind(S, fifo, rest, s, n, j, l, f, h) ==
    /\ n \in Nat /\ j \in 0..n /\ l \in Nat /\ j + l = n
    /\ ItemsIn(fifo, S, n) /\ IsBehind(rest, fifo, j, l)
    /\ PicksUpTo(f, fifo, s, n) /\ PicksUpTo(h, rest, s, l)

\* What is picked from a queue without its first j items.
LEMMA PicksBehind ==
  ASSUME NEW S, NEW fifo, NEW rest, NEW s, NEW n, NEW j, NEW l, NEW f, NEW h,
         PickBehind(S, fifo, rest, s, n, j, l, f, h)
  PROVE  /\ f[j] = <<>> => f[n] = h[l]
         /\ \A e \in S : f[j] = <<e>> => f[n] # <<>> /\ Head(f[n]) = e /\ Tail(f[n]) = h[l]
<1> DEFINE Good(m) ==
             /\ f[j] = <<>> => f[j + m] = h[m]
             /\ \A e \in S : f[j] = <<e>> => f[j + m] # <<>> /\ Head(f[j + m]) = e
                                             /\ Tail(f[j + m]) = h[m]
           T == {m \in Nat : m <= l => Good(m)}
<1>1. /\ n \in Nat /\ j \in 0..n /\ l \in Nat /\ j + l = n
      /\ ItemsIn(fifo, S, n) /\ IsBehind(rest, fifo, j, l)
      /\ PicksUpTo(f, fifo, s, n) /\ PicksUpTo(h, rest, s, l)
  BY DEF PickBehind
<1>2. /\ f[0] = <<>> /\ h[0] = <<>>
      /\ \A m \in 1..n : f[m] = IF fifo[m][1] = s THEN Append(f[m - 1], fifo[m]) ELSE f[m - 1]
      /\ \A m \in 1..l : h[m] = IF rest[m][1] = s THEN Append(h[m - 1], rest[m]) ELSE h[m - 1]
  BY <1>1, PicksStep
<1>3. \A m \in 0..n : f[m] \in Seq(S)
  BY <1>1, PicksType DEF ItemsIn
<1>4. 0 \in T
  <2>1. j + 0 = j
    BY <1>1
  <2>2. \A e : Head(<<e>>) = e /\ Tail(<<e>>) = <<>> /\ <<e>> # <<>>
    OBVIOUS
  <2>3. Good(0)
    BY <1>2, <2>1, <2>2
  <2> QED BY <2>3
<1>5. ASSUME NEW m \in Nat, m \in T
      PROVE  m + 1 \in T
  <2> SUFFICES ASSUME m + 1 <= l
               PROVE  Good(m + 1)
    OBVIOUS
  <2>1. /\ j + m \in 0..n /\ j + m + 1 \in 1..n /\ m + 1 \in 1..l /\ m <= l
        /\ (j + m + 1) - 1 = j + m /\ (m + 1) - 1 = m /\ j + (m + 1) = j + m + 1
    BY <1>1
  <2>2. Good(m)
    BY <1>5, <2>1
  <2>3. rest[m + 1] = fifo[j + m + 1] /\ fifo[j + m + 1] \in S
    BY <1>1, <2>1 DEF ItemsIn, IsBehind
  <2>4. f[j + m + 1] = IF rest[m + 1][1] = s THEN Append(f[j + m], rest[m + 1]) ELSE f[j + m]
    BY <1>2, <2>1, <2>3
  <2>5. h[m + 1] = IF rest[m + 1][1] = s THEN Append(h[m], rest[m + 1]) ELSE h[m]
    BY <1>2, <2>1
  <2>6. f[j] = <<>> => f[j + m + 1] = h[m + 1]
    BY <2>2, <2>4, <2>5
  <2>7. ASSUME NEW e \in S, f[j] = <<e>>
        PROVE  /\ f[j + m + 1] # <<>> /\ Head(f[j + m + 1]) = e
               /\ Tail(f[j + m + 1]) = h[m + 1]
    <3>1. f[j + m] # <<>> /\ Head(f[j + m]) = e /\ Tail(f[j + m]) = h[m] /\ f[j + m] \in Seq(S)
      BY <1>3, <2>1, <2>2, <2>7
    <3>2. CASE rest[m + 1][1] = s
      <4>1. /\ Head(Append(f[j + m], rest[m + 1])) = e
            /\ Tail(Append(f[j + m], rest[m + 1])) = Append(Tail(f[j + m]), rest[m + 1])
            /\ Append(f[j + m], rest[m + 1]) # <<>>
        <5> DEFINE a == f[j + m]
                   x == rest[m + 1]
        <5>1. a \in Seq(S) /\ x \in S /\ a # <<>> /\ Head(a) = e
          BY <2>3, <3>1
        <5> HIDE DEF a, x
        <5>2. /\ Head(Append(a, x)) = IF a = <<>> THEN x ELSE Head(a)
              /\ Tail(Append(a, x)) = IF a = <<>> THEN <<>> ELSE Append(Tail(a), x)
          BY <5>1, HeadTailAppend
        <5>3. Append(a, x) # <<>>
          BY <5>1, AppendProperties
        <5> QED BY <5>1, <5>2, <5>3 DEF a, x
      <4> QED BY <2>4, <2>5, <3>1, <3>2, <4>1
    <3>3. CASE rest[m + 1][1] # s
      BY <2>4, <2>5, <3>1, <3>3
    <3> QED BY <3>2, <3>3
  <2> QED BY <2>1, <2>6, <2>7
<1> HIDE DEF T
<1>6. l \in T
  BY <1>1, <1>4, <1>5, SetInduction
<1> QED BY <1>1, <1>6 DEF T

\* Items of other streams in front do not matter.
LEMMA OfStreamBehind ==
  ASSUME NEW S, NEW fifo \in Seq(S), NEW s, NEW j \in 0..Len(fifo),
         \A k \in 1..j : fifo[k][1] # s
  PROVE  OfStream(SubSeq(fifo, j + 1, Len(fifo)), s) = OfStream(fifo, s)
<1> DEFINE n == Len(fifo)
           rest == SubSeq(fifo, j + 1, n)
<1>1. n \in Nat /\ \A k \in 1..n : fifo[k] \in S
  BY LenProperties, ElementOfSeq
<1>2. /\ rest \in Seq(S) /\ Len(rest) = n - j
      /\ \A k \in 1..(n - j) : rest[k] = fifo[j + k]
  <2>1. \A i \in (j + 1)..n : fifo[i] \in S
    BY <1>1
  <2>2. /\ rest \in Seq(S) /\ Len(rest) = IF j + 1 <= n THEN n - (j + 1) + 1 ELSE 0
        /\ \A i \in 1..(n - (j + 1) + 1) : rest[i] = fifo[(j + 1) + i - 1]
    BY <1>1, <2>1, SubSeqProperties
  <2> QED BY <1>1, <2>2
<1>3. PICK f : PicksUpTo(f, fifo, s, n) /\ OfStream(fifo, s) = f[n]
  BY OfStreamPicks
<1>4. PICK h : PicksUpTo(h, rest, s, Len(rest)) /\ OfStream(rest, s) = h[Len(rest)]
  BY <1>2, OfStreamPicks
<1> DEFINE m == n - j
<1> HIDE DEF rest, n, m
<1>b. m \in Nat /\ ItemsIn(fifo, S, n) /\ IsBehind(rest, fifo, j, m) /\ PicksUpTo(h, rest, s, m)
  BY <1>1, <1>2, <1>4 DEF ItemsIn, IsBehind, n, m
<1>5. f[j] = <<>>
  <2>1. j \in 0..n /\ NoneUpTo(fifo, s, j)
    BY <1>1 DEF n, NoneUpTo
  <2> QED BY <1>1, <1>3, <2>1, PicksNone, Zenon
<1>6. m \in 0..m /\ m \in Nat /\ j + m = n /\ j \in 0..n
  BY <1>1 DEF n, m
<1>7. f[j] = <<>> => f[n] = h[m]
  <2>1. PickBehind(S, fifo, rest, s, n, j, m, f, h)
    BY <1>1, <1>b, <1>3, <1>6 DEF PickBehind
  <2> QED BY <2>1, PicksBehind
<1> QED BY <1>2, <1>3, <1>4, <1>5, <1>6, <1>7 DEF rest, n, m

\* The first item of stream s is the j-th one of the queue.
FirstOf(fifo, s, j) == fifo[j][1] = s /\ \A k \in 1..(j - 1) : fifo[k][1] # s

\* It is the first one of the stream's items as well.
LEMMA OfStreamFirst ==
  ASSUME NEW S, NEW fifo \in Seq(S), NEW s, NEW j \in 1..Len(fifo), FirstOf(fifo, s, j)
  PROVE  /\ OfStream(fifo, s) # <<>> /\ Head(OfStream(fifo, s)) = fifo[j]
         /\ Tail(OfStream(fifo, s)) = OfStream(SubSeq(fifo, j + 1, Len(fifo)), s)
<1> DEFINE n == Len(fifo)
           rest == SubSeq(fifo, j + 1, n)
<1>1. n \in Nat /\ \A k \in 1..n : fifo[k] \in S
  BY LenProperties, ElementOfSeq
<1>2. /\ rest \in Seq(S) /\ Len(rest) = n - j
      /\ \A k \in 1..(n - j) : rest[k] = fifo[j + k]
  <2>1. \A i \in (j + 1)..n : fifo[i] \in S
    BY <1>1
  <2>2. /\ rest \in Seq(S) /\ Len(rest) = IF j + 1 <= n THEN n - (j + 1) + 1 ELSE 0
        /\ \A i \in 1..(n - (j + 1) + 1) : rest[i] = fifo[(j + 1) + i - 1]
    BY <1>1, <2>1, SubSeqProperties
  <2> QED BY <1>1, <2>2
<1>3. PICK f : PicksUpTo(f, fifo, s, n) /\ OfStream(fifo, s) = f[n]
  BY OfStreamPicks
<1>4. PICK h : PicksUpTo(h, rest, s, Len(rest)) /\ OfStream(rest, s) = h[Len(rest)]
  BY <1>2, OfStreamPicks
<1> DEFINE m == n - j
<1> HIDE DEF rest, n, m
<1>b. m \in Nat /\ ItemsIn(fifo, S, n) /\ IsBehind(rest, fifo, j, m) /\ PicksUpTo(h, rest, s, m)
  BY <1>1, <1>2, <1>4 DEF ItemsIn, IsBehind, n, m
<1>5. f[j - 1] = <<>>
  <2>1. j - 1 \in 0..n
    BY <1>1 DEF n
  <2>2. NoneUpTo(fifo, s, j - 1)
    BY DEF NoneUpTo, FirstOf
  <2> DEFINE l == j - 1
  <2>3. l \in 0..n /\ NoneUpTo(fifo, s, l)
    BY <2>1, <2>2
  <2> HIDE DEF l
  <2>4. f[l] = <<>>
    BY <1>1, <1>3, <2>3, PicksNone
  <2> QED BY <2>4 DEF l
<1>6. m \in 0..m /\ m \in Nat /\ j + m = n /\ j \in 0..n /\ j \in 1..n
  BY <1>1 DEF n, m
<1>7. f[j] = <<fifo[j]>> /\ fifo[j] \in S
  <2>1. f[j] = Append(<<>>, fifo[j])
    <3>1. \A k \in 1..n : f[k] = IF fifo[k][1] = s THEN Append(f[k - 1], fifo[k]) ELSE f[k - 1]
      BY <1>1, <1>3, PicksStep
    <3> QED BY <1>5, <1>6, <3>1 DEF FirstOf
  <2> QED BY <1>1, <1>6, <2>1
<1>8. /\ f[n] # <<>> /\ Head(f[n]) = fifo[j]
      /\ Tail(f[n]) = h[m]
  <2>1. PickBehind(S, fifo, rest, s, n, j, m, f, h)
    BY <1>1, <1>b, <1>3, <1>6 DEF PickBehind
  <2> QED BY <1>7, <2>1, PicksBehind
<1> QED BY <1>2, <1>3, <1>4, <1>6, <1>8 DEF rest, n, m

-----------------------------------------------------------------------------
(* The types of the variables. TypeOK follows from TypeInv, which says as  *)
(* well what a thread has in hand where, and where it goes after an update *)
(* of the schedule: without that, a step could not be shown to keep it.    *)

Everyone == Tasks \cup {"main"}

ThreadType == [pc : Places, n : 0..EofFrame, then : Places \cup {""},
               closing : BOOLEAN, err : BOOLEAN]

StreamType == [last_dts : 0..N, source_finished : BOOLEAN,
               pre : Seq(0..N), init_eof : BOOLEAN]

ItemsOf(k) == IF k = "fg" THEN 1..EofFrame ELSE 1..N

\* Where a thread goes when the schedule is updated.
Rests == {"done", "read", "recv", "gone", "exit", "run", "stopped"}

\* The filtergraph has a frame to send, or is about to when the muxer is
\* started.
Sending(pc, then) == pc = "send" \/ (pc = "flush" /\ then = "send")

HandOK(t, pc, n, then) ==
    /\ t # "dec" => n \in 0..N
    /\ t = "d" /\ pc = "dec" => n # Null
    /\ t = "dec" /\ pc = "send" => n # Null
    /\ t = "fg" /\ Sending(pc, then) => n # Null
    /\ t = "fg" /\ pc = "flush" => then \in {"send", "close"}
    /\ t = "fg" /\ pc = "set" => then \in {"gone", "exit"}
    /\ pc = "set" => then \in Rests

\* A filtergraph that is a source stops at its last frame.
SourceOK(pc, n, then, nxt) ==
    /\ Sending(pc, then) => nxt = n + 1
    /\ pc \in {"recv", "wait"} => nxt <= N

ThreadsOK ==
    /\ th \in [Everyone -> ThreadType]
    /\ \A t \in Everyone : HandOK(t, th[t].pc, th[t].n, th[t].then)
    /\ ~fed => SourceOK(th["fg"].pc, th["fg"].n, th["fg"].then, next["fg"])

QueuesOK == DOMAIN q = Queues /\ \A k \in Queues : QueueOK(q[k], ItemsOf(k))

StreamsOK(m) ==
    /\ m \in [OutStreams -> StreamType]
    /\ \A s \in OutStreams : Len(m[s].pre) <= PreMax

ScheduleOK ==
    /\ schedule \in [by : Everyone \cup {Nobody}, todo : SUBSET Waiters, choke : SUBSET Waiters]
    /\ schedule.by # Nobody <=> schedule.todo # {}
    /\ \A t \in Everyone : th[t].pc = "set" <=> schedule.by = t
    /\ th["mux"].pc = "none" \/ opened \/ mux_ready_lock = "fg"

FlagsOK ==
    /\ fed \in BOOLEAN /\ terminate \in BOOLEAN /\ task_failed \in BOOLEAN
    /\ choked \in [Waiters -> BOOLEAN]
    /\ mux_started \in BOOLEAN /\ opened = mux_started
    /\ fg \in [graph : BOOLEAN, got_frame : BOOLEAN]
    /\ written \in [OutStreams -> 0..N]

CountersOK == next \in [{"d1", "d2", "fg"} -> 1..(N + 1)] /\ left \in 0..MaxIncidents

TypeInv == ThreadsOK /\ QueuesOK /\ StreamsOK(ms) /\ ScheduleOK /\ FlagsOK /\ CountersOK

LEMMA TypeInvImplies == TypeInv => TypeOK
<1> SUFFICES ASSUME TypeInv
             PROVE  TypeOK
  OBVIOUS
<1>1. \A k \in Queues : Len(q[k].fifo) <= QueueSize /\ q[k].told \subseteq q[k].recv
  BY DEF TypeInv, QueuesOK, QueueOK
<1>2. \A s \in OutStreams : ms[s].last_dts \in 0..N /\ Len(ms[s].pre) <= PreMax
  BY DEF TypeInv, StreamsOK, StreamType
<1>3. \A t \in Tasks \cup {"main"} :
          th[t].pc \in Places /\ th[t].n \in 0..EofFrame /\ th[t].err \in BOOLEAN
  BY DEF TypeInv, ThreadsOK, ThreadType, Everyone
<1>4. schedule.by # Nobody => th[schedule.by].pc = "set"
  BY DEF TypeInv, ScheduleOK
<1> QED
  BY <1>1, <1>2, <1>3, <1>4 DEF TypeOK, TypeInv, FlagsOK, ScheduleOK

-----------------------------------------------------------------------------
(* How threads move.                                                       *)

Moved(t, pc, n, then) ==
    /\ th' \in [Everyone -> ThreadType]
    /\ \A u \in Everyone \ {t} : th'[u] = th[u]
    /\ th'[t].pc = pc /\ th'[t].n = n /\ th'[t].then = then

LEMMA GotoMoves ==
  ASSUME ThreadsOK, NEW t \in Everyone, NEW p \in Places, Goto(t, p)
  PROVE  Moved(t, p, th[t].n, th[t].then)
BY DEF ThreadsOK, Goto, Moved, ThreadType

LEMMA FailsMoves ==
  ASSUME ThreadsOK, NEW t \in Everyone, NEW p \in Places, Fails(t, p)
  PROVE  Moved(t, p, th[t].n, th[t].then)
BY DEF ThreadsOK, Fails, Moved, ThreadType

LEMMA DropMoves ==
  ASSUME ThreadsOK, NEW t \in Everyone, th' = [th EXCEPT ![t].n = Null]
  PROVE  Moved(t, th[t].pc, Null, th[t].then)
<1>1. Null \in 0..EofFrame
  BY SchedulerAssumption DEF Null, EofFrame
<1> QED BY <1>1 DEF ThreadsOK, Moved, ThreadType

LEMMA SetMoves ==
  ASSUME ThreadsOK, NEW t \in Everyone, NEW p \in Places, NEW x \in Places \cup {""},
         th' = [th EXCEPT ![t].pc = p, ![t].then = x]
  PROVE  Moved(t, p, th[t].n, x)
BY DEF ThreadsOK, Moved, ThreadType

LEMMA ClosingMoves ==
  ASSUME ThreadsOK, NEW t \in Everyone, NEW p \in Places,
         th' = [th EXCEPT ![t].pc = p, ![t].closing = TRUE]
  PROVE  Moved(t, p, th[t].n, th[t].then)
BY DEF ThreadsOK, Moved, ThreadType

LEMMA HandMoves ==
  ASSUME ThreadsOK, NEW t \in Everyone, NEW p \in Places, NEW n \in 0..EofFrame,
         th' = [th EXCEPT ![t].pc = p, ![t].n = n]
  PROVE  Moved(t, p, n, th[t].then)
BY DEF ThreadsOK, Moved, ThreadType

LEMMA LastHandMoves ==
  ASSUME ThreadsOK, NEW t \in Everyone, NEW p \in Places, NEW n \in 0..EofFrame,
         th' = [th EXCEPT ![t].pc = p, ![t].n = n, ![t].closing = TRUE]
  PROVE  Moved(t, p, n, th[t].then)
BY DEF ThreadsOK, Moved, ThreadType

LEMMA MovedOK ==
  ASSUME ThreadsOK, NEW t \in Everyone, NEW p, NEW n, NEW x, Moved(t, p, n, x),
         HandOK(t, p, n, x), UNCHANGED fed,
         t # "fg" => next'["fg"] = next["fg"],
         t = "fg" /\ ~fed => SourceOK(p, n, x, next'["fg"])
  PROVE  ThreadsOK'
<1>1. "fg" \in Everyone
  BY DEF Everyone, Tasks
<1>2. \A u \in Everyone : HandOK(u, th'[u].pc, th'[u].n, th'[u].then)
  BY DEF ThreadsOK, Moved
<1>3. ~fed' => SourceOK(th'["fg"].pc, th'["fg"].n, th'["fg"].then, next'["fg"])
  BY <1>1 DEF ThreadsOK, Moved
<1> QED BY <1>2, <1>3 DEF ThreadsOK, Moved

LEMMA MovedScheduleOK ==
  ASSUME ScheduleOK, NEW t \in Everyone, NEW p, NEW n, NEW x, Moved(t, p, n, x),
         th[t].pc # "set", p # "set", t = "mux" => th[t].pc # "none",
         UNCHANGED <<schedule, opened, mux_ready_lock>>
  PROVE  ScheduleOK'
<1>1. "mux" \in Everyone
  BY DEF Everyone, Tasks
<1> QED BY <1>1 DEF ScheduleOK, Moved

\* A step of thread t that leaves the streams, the schedule and the flags as
\* they are.
LEMMA LocalType ==
  ASSUME TypeInv, Local, NEW t \in Everyone, NEW p, NEW n, NEW x, Moved(t, p, n, x),
         th[t].pc # "set", p # "set", t = "mux" => th[t].pc # "none", HandOK(t, p, n, x),
         t # "fg" => next'["fg"] = next["fg"],
         t = "fg" /\ ~fed => SourceOK(p, n, x, next'["fg"]),
         QueuesOK', CountersOK'
  PROVE  TypeInv'
<1>1. UNCHANGED <<fed, terminate, task_failed, choked, ms, schedule, mux_started, opened,
                  mux_ready_lock, fg, written>>
  BY DEF Local, SchedKeep, MainKeep, MuxKeep
<1>2. ThreadsOK'
  BY <1>1, MovedOK DEF TypeInv
<1>3. ScheduleOK'
  BY <1>1, MovedScheduleOK DEF TypeInv
<1>4. StreamsOK(ms)'
  BY <1>1 DEF TypeInv, StreamsOK
<1>5. FlagsOK'
  BY <1>1 DEF TypeInv, FlagsOK
<1> QED BY <1>2, <1>3, <1>4, <1>5 DEF TypeInv

LEMMA QueueChange ==
  ASSUME QueuesOK, NEW k \in Queues, NEW v, QueueOK(v, ItemsOf(k)), q' = [q EXCEPT ![k] = v]
  PROVE  QueuesOK'
BY DEF QueuesOK

LEMMA QueuesSame == ASSUME QueuesOK, UNCHANGED q PROVE QueuesOK'
BY DEF QueuesOK

LEMMA CountersSame == ASSUME CountersOK, UNCHANGED <<next, left>> PROVE CountersOK'
BY DEF CountersOK

LEMMA IncidentCounts == ASSUME CountersOK, Incident, UNCHANGED next PROVE CountersOK'
BY SchedulerAssumption DEF CountersOK, Incident

\* schedule_update_locked() by thread t, of the streams m.
LEMMA UpdateOK ==
  ASSUME TypeInv, NEW t \in Everyone, NEW m, StreamsOK(m), NEW e, NEW p \in Rests,
         Update(t, m, e, p), th[t].pc # "set", t = "mux" => th[t].pc # "none",
         UNCHANGED <<opened, mux_ready_lock>>
  PROVE  /\ StreamsOK(ms') /\ ScheduleOK' /\ UNCHANGED choked
         /\ \/ Moved(t, p, th[t].n, th[t].then)
            \/ Moved(t, "set", th[t].n, p)
<1> DEFINE choke == ChokedNext(m, e)
           todo == {w \in Waiters : choked[w] # (w \in choke)}
<1>1. schedule.by = Nobody /\ ms' = m /\ UNCHANGED choked /\ "mux" \in Everyone
  BY DEF Update, Everyone, Tasks
<1>2. p \in Places /\ "set" \in Places /\ p # "set"
  BY DEF Rests, Places
<1>3. CASE terminate \/ todo = {}
  <2>1. Goto(t, p) /\ UNCHANGED schedule
    BY <1>3 DEF Update
  <2>2. Moved(t, p, th[t].n, th[t].then)
    BY <1>2, <2>1, GotoMoves DEF TypeInv
  <2> QED BY <1>1, <1>2, <2>1, <2>2, MovedScheduleOK DEF TypeInv
<1>4. CASE ~(terminate \/ todo = {})
  <2>1. /\ schedule' = [by |-> t, todo |-> todo, choke |-> choke]
        /\ th' = [th EXCEPT ![t].pc = "set", ![t].then = p]
    BY <1>4 DEF Update
  <2>2. Moved(t, "set", th[t].n, p)
    BY <1>2, <2>1, SetMoves DEF TypeInv
  <2>3. choke \in SUBSET Waiters /\ todo \in SUBSET Waiters /\ todo # {}
    BY <1>4 DEF ChokedNext
  <2>4. t # Nobody
    BY DEF Everyone, Tasks, Nobody
  <2>5. \A u \in Everyone : th[u].pc # "set"
    BY <1>1 DEF TypeInv, ScheduleOK, Everyone, Tasks, Nobody
  <2> HIDE DEF choke, todo
  <2>6. ScheduleOK'
    BY <1>1, <2>1, <2>2, <2>3, <2>4, <2>5 DEF TypeInv, ScheduleOK, Moved
  <2> QED BY <1>1, <2>2, <2>6
<1> QED BY <1>3, <1>4

LEMMA UpdateType ==
  ASSUME TypeInv, NEW t \in Everyone, NEW m, StreamsOK(m), NEW e, NEW p \in Rests,
         Update(t, m, e, p), th[t].pc # "set", t = "mux" => th[t].pc # "none",
         HandOK(t, p, th[t].n, th[t].then), HandOK(t, "set", th[t].n, p),
         t = "fg" => p \in {"gone", "exit"},
         MainKeep, MuxKeep, UNCHANGED <<task_failed, next, left>>, QueuesOK'
  PROVE  TypeInv'
<1>1. /\ StreamsOK(ms') /\ ScheduleOK' /\ UNCHANGED choked
      /\ \/ Moved(t, p, th[t].n, th[t].then)
         \/ Moved(t, "set", th[t].n, p)
  BY UpdateOK DEF MuxKeep
<1>2. UNCHANGED <<fed, terminate, task_failed, mux_started, opened, fg, written, next, left>>
  BY DEF MainKeep, MuxKeep
<1>3. t = "fg" => SourceOK(p, th[t].n, th[t].then, next'["fg"])
  BY DEF SourceOK, Sending
<1>4. t = "fg" => SourceOK("set", th[t].n, p, next'["fg"])
  BY DEF SourceOK, Sending
<1>5. ASSUME Moved(t, p, th[t].n, th[t].then)
      PROVE  ThreadsOK'
  BY <1>2, <1>3, <1>5, MovedOK DEF TypeInv
<1>6. ASSUME Moved(t, "set", th[t].n, p)
      PROVE  ThreadsOK'
  BY <1>2, <1>4, <1>6, MovedOK DEF TypeInv
<1>7. ThreadsOK'
  BY <1>1, <1>5, <1>6
<1>8. CountersOK' /\ FlagsOK'
  BY <1>1, <1>2 DEF TypeInv, CountersOK, FlagsOK
<1> QED BY <1>1, <1>7, <1>8 DEF TypeInv, StreamsOK

LEMMA WaiterSetType == ASSUME TypeInv, NEW t \in Everyone, WaiterSet(t) PROVE TypeInv'
<1> DEFINE w == IF "d" \in schedule.todo THEN "d" ELSE "fg"
           rest == schedule.todo \ {w}
<1>1. th[t].pc = "set" /\ schedule.by = t
  BY DEF WaiterSet, TypeInv, ScheduleOK
<1>2. w \in Waiters
  BY DEF Waiters
<1>3. choked' \in [Waiters -> BOOLEAN]
  <2>1. choked' = [choked EXCEPT ![w] = (w \in schedule.choke)]
    BY DEF WaiterSet
  <2> HIDE DEF w
  <2> QED BY <1>2, <2>1 DEF TypeInv, FlagsOK
<1>4. UNCHANGED <<ms, task_failed, q, fed, terminate, mux_started, opened, mux_ready_lock,
                  fg, written, next, left>> /\ "mux" \in Everyone
  BY DEF WaiterSet, MainKeep, MuxKeep, Everyone, Tasks
<1>5. QueuesOK' /\ CountersOK' /\ StreamsOK(ms)' /\ FlagsOK'
  BY <1>3, <1>4 DEF TypeInv, QueuesOK, CountersOK, StreamsOK, FlagsOK
<1>6. th[t].then \in Rests /\ HandOK(t, "set", th[t].n, th[t].then)
  BY <1>1 DEF TypeInv, ThreadsOK, HandOK
<1>7. CASE rest = {}
  <2>1. schedule' = Idle /\ th' = [th EXCEPT ![t].pc = th[t].then, ![t].then = ""]
    BY <1>7 DEF WaiterSet
  <2>2. th[t].then \in Places /\ th[t].then # "set"
    BY <1>6 DEF Rests, Places
  <2>3. Moved(t, th[t].then, th[t].n, "")
    BY <2>1, <2>2, SetMoves DEF TypeInv
  <2>4. HandOK(t, th[t].then, th[t].n, "")
    BY <1>6 DEF HandOK, Rests, Sending
  <2>5. t = "fg" => SourceOK(th[t].then, th[t].n, "", next'["fg"])
    BY <1>6 DEF HandOK, SourceOK, Sending
  <2>6. ThreadsOK'
    BY <1>4, <2>3, <2>4, <2>5, MovedOK DEF TypeInv
  <2>7. \A u \in Everyone : th[u].pc = "set" => u = t
    BY <1>1 DEF TypeInv, ScheduleOK
  <2>8. ScheduleOK'
    <3>1. th'["mux"].pc = "none" \/ opened' \/ mux_ready_lock' = "fg"
      BY <1>1, <1>4, <2>3 DEF TypeInv, ScheduleOK, Moved
    <3>2. \A u \in Everyone : th'[u].pc # "set" /\ u # Nobody
      BY <2>2, <2>3, <2>7 DEF Moved, Nobody, Everyone, Tasks
    <3>3. schedule' = [by |-> Nobody, todo |-> {}, choke |-> {}]
      BY <2>1 DEF Idle
    <3> QED BY <3>1, <3>2, <3>3 DEF ScheduleOK
  <2> QED BY <1>5, <2>6, <2>8 DEF TypeInv
<1>8. CASE rest # {}
  <2>1. schedule' = [schedule EXCEPT !.todo = rest] /\ UNCHANGED th
    BY <1>8 DEF WaiterSet
  <2> HIDE DEF w
  <2>2. ScheduleOK'
    BY <1>1, <1>4, <1>8, <2>1 DEF TypeInv, ScheduleOK
  <2>3. ThreadsOK'
    BY <1>4, <2>1 DEF TypeInv, ThreadsOK
  <2> QED BY <1>5, <2>2, <2>3 DEF TypeInv
<1> QED BY <1>7, <1>8

-----------------------------------------------------------------------------
(* send_to_mux().                                                          *)

Senders == {"d", "enc"}

LEMMA ResumeRests == ASSUME NEW t \in Senders PROVE Resume(t) \in Rests /\ Leaves(t) \in Rests
BY DEF Senders, Resume, Leaves, AfterEnd, Rests

LEMMA ReturnsMoves ==
  ASSUME TypeInv, NEW t \in Senders, NEW ret, Returns(t, ret), th[t].pc = "mux"
  PROVE  \E p \in Rests \cup {"mux"}, n \in {Null, th[t].n} : Moved(t, p, n, th[t].then)
<1>1. t \in Everyone /\ Resume(t) \in Places /\ "done" \in Places
  BY ResumeRests DEF Senders, Everyone, Tasks, Rests, Places
<1>2. CASE th[t].n = Null
  <2>1. Goto(t, Resume(t))
    BY <1>2 DEF Returns
  <2>2. Moved(t, Resume(t), th[t].n, th[t].then)
    BY <1>1, <2>1, GotoMoves DEF TypeInv
  <2> QED BY <2>2, ResumeRests
<1>3. CASE th[t].n # Null /\ ret = "eof"
  <2>1. th' = [th EXCEPT ![t].n = Null]
    BY <1>3 DEF Returns
  <2>2. Moved(t, th[t].pc, Null, th[t].then)
    BY <1>1, <2>1, DropMoves DEF TypeInv
  <2> QED BY <2>2
<1>4. CASE th[t].n # Null /\ ret # "eof"
  <2>1. Fails(t, "done")
    BY <1>4 DEF Returns
  <2>2. Moved(t, "done", th[t].n, th[t].then)
    BY <1>1, <2>1, FailsMoves DEF TypeInv
  <2> QED BY <2>2 DEF Rests
<1> QED BY <1>2, <1>3, <1>4

LEMMA PreQueueType == ASSUME TypeInv, NEW t \in Senders, PreQueue(t) PROVE TypeInv'
<1> DEFINE s == StreamOf(t)
<1>1. /\ t \in Everyone /\ t \notin {"dec", "fg", "mux"} /\ s \in OutStreams
      /\ th[t].pc = "mux" /\ th[t].n \in 0..N /\ "update" \in Places
  BY DEF Senders, Everyone, Tasks, StreamOf, OutStreams, PreQueue, TypeInv, ThreadsOK, HandOK, Places
<1>2. UNCHANGED <<fed, terminate, task_failed, choked, schedule, q, mux_started, opened,
                  mux_ready_lock, fg, written, next, left>>
  BY DEF PreQueue, MainKeep, MuxKeep
<1>3. QueuesOK' /\ CountersOK' /\ FlagsOK'
  BY <1>2 DEF TypeInv, QueuesOK, CountersOK, FlagsOK
<1>4. ASSUME NEW p \in Rests \cup {"mux", "update"}, NEW n \in {Null, th[t].n},
             Moved(t, p, n, th[t].then), StreamsOK(ms)'
      PROVE  TypeInv'
  <2>1. HandOK(t, p, n, th[t].then)
    BY <1>1, SchedulerAssumption DEF HandOK, Rests, Null, Senders
  <2>2. ThreadsOK'
    BY <1>1, <1>2, <1>4, <2>1, MovedOK DEF TypeInv
  <2>3. p # "set"
    BY DEF Rests
  <2>4. ScheduleOK'
    BY <1>1, <1>2, <1>4, <2>3, MovedScheduleOK DEF TypeInv
  <2> QED BY <1>3, <1>4, <2>2, <2>4 DEF TypeInv
<1>5. CASE Len(ms[s].pre) < PreMax
  <2>1. ms' = [ms EXCEPT ![s].pre = Append(@, th[t].n)] /\ Goto(t, "update")
    BY <1>5 DEF PreQueue
  <2>2. Moved(t, "update", th[t].n, th[t].then)
    BY <1>1, <2>1, GotoMoves DEF TypeInv
  <2>3. StreamsOK(ms)'
    <3> DEFINE pre == Append(ms[s].pre, th[t].n)
    <3>1. ms[s].pre \in Seq(0..N)
      BY <1>1 DEF TypeInv, StreamsOK, StreamType
    <3>2. pre \in Seq(0..N) /\ Len(pre) = Len(ms[s].pre) + 1 /\ Len(ms[s].pre) \in Nat
      BY <1>1, <3>1, AppendProperties, LenProperties
    <3>3. Len(pre) <= PreMax
      BY <1>5, <3>2, SchedulerAssumption
    <3>4. ms' = [ms EXCEPT ![s].pre = pre]
      BY <2>1
    <3> HIDE DEF pre, s
    <3> QED BY <1>1, <3>2, <3>3, <3>4 DEF TypeInv, StreamsOK, StreamType
  <2> QED BY <1>4, <2>2, <2>3
<1>6. CASE ~(Len(ms[s].pre) < PreMax)
  <2>1. Returns(t, "enospc") /\ UNCHANGED ms
    BY <1>6 DEF PreQueue
  <2>2. StreamsOK(ms)'
    BY <2>1 DEF TypeInv, StreamsOK
  <2> QED BY <1>1, <1>4, <2>1, <2>2, ReturnsMoves
<1> QED BY <1>5, <1>6

LEMMA PutType == ASSUME TypeInv, NEW t \in Senders, Put(t) PROVE TypeInv'
<1> DEFINE s == StreamOf(t)
<1>1. /\ t \in Everyone /\ t \notin {"dec", "fg", "mux"} /\ s \in Streams
      /\ th[t].pc = "mux" /\ th[t].n \in 0..N /\ "update" \in Places
  BY DEF Senders, Everyone, Tasks, StreamOf, Streams, Put, TypeInv, ThreadsOK, HandOK, Places
<1>2. Local /\ UNCHANGED <<next, left>>
  BY DEF Put
<1>3. "mux" \in Queues /\ QueueOK(q["mux"], 1..N) /\ ItemsOf("mux") = 1..N
  BY DEF Queues, TypeInv, QueuesOK, ItemsOf
<1>4. ASSUME NEW p \in Rests \cup {"mux", "update"}, NEW n \in {Null, th[t].n},
             Moved(t, p, n, th[t].then), QueuesOK'
      PROVE  TypeInv'
  <2>1. HandOK(t, p, n, th[t].then)
    BY <1>1, SchedulerAssumption DEF HandOK, Rests, Null, Senders
  <2>2. p # "set" /\ th[t].pc # "set"
    BY <1>1 DEF Rests
  <2>3. CountersOK'
    BY <1>2, CountersSame DEF TypeInv
  <2> QED BY <1>1, <1>2, <1>4, <2>1, <2>2, <2>3, LocalType
<1>5. ASSUME Goto(t, "update")
      PROVE  Moved(t, "update", th[t].n, th[t].then)
  BY <1>1, <1>5, GotoMoves DEF TypeInv
<1>6. CASE th[t].n = Null
  <2>1. q' = [q EXCEPT !["mux"] = SendFinish(q["mux"], s)] /\ Goto(t, "update")
    BY <1>6 DEF Put
  <2>2. QueuesOK'
    BY <1>1, <1>3, <2>1, SendFinishOK, QueueChange DEF TypeInv
  <2> QED BY <1>4, <1>5, <2>1, <2>2
<1>7. CASE th[t].n # Null /\ ms[s].init_eof
  <2>1. Returns(t, "eof") /\ UNCHANGED q
    BY <1>7 DEF Put
  <2>2. QueuesOK'
    BY <2>1, QueuesSame DEF TypeInv
  <2> QED BY <1>1, <1>4, <2>1, <2>2, ReturnsMoves
<1>8. CASE th[t].n # Null /\ ~ms[s].init_eof
  <2>1. PICK o \in Send(q["mux"], s, th[t].n) :
                /\ q' = [q EXCEPT !["mux"] = o.q]
                /\ IF o.ret = "ok" THEN Goto(t, "update") /\ UNCHANGED ended
                                   ELSE Returns(t, o.ret)
    BY <1>8 DEF Put
  <2>2. th[t].n \in 1..N
    BY <1>1, <1>8, SchedulerAssumption DEF Null
  <2>3. QueueOK(o.q, 1..N)
    BY <1>1, <1>3, <2>2, SendOK
  <2>4. QueuesOK'
    BY <1>3, <2>1, <2>3, QueueChange DEF TypeInv
  <2>5. CASE o.ret = "ok"
    BY <1>4, <1>5, <2>1, <2>4, <2>5
  <2>6. CASE o.ret # "ok"
    BY <1>1, <1>4, <2>1, <2>4, <2>6, ReturnsMoves
  <2> QED BY <2>5, <2>6
<1> QED BY <1>6, <1>7, <1>8

LEMMA UpdateScheduleType == ASSUME TypeInv, NEW t \in Senders, UpdateSchedule(t) PROVE TypeInv'
<1> DEFINE s == StreamOf(t)
           m == IF th[t].n = Null THEN [ms EXCEPT ![s].source_finished = TRUE]
                                  ELSE [ms EXCEPT ![s].last_dts = th[t].n]
<1>1. /\ t \in Everyone /\ t \notin {"dec", "fg", "mux"} /\ s \in OutStreams
      /\ th[t].pc = "update" /\ th[t].n \in 0..N
  BY DEF Senders, Everyone, Tasks, StreamOf, OutStreams, UpdateSchedule, TypeInv, ThreadsOK, HandOK
<1>2. StreamsOK(m)
  <2> HIDE DEF s
  <2>1. CASE th[t].n = Null
    BY <1>1, <2>1 DEF TypeInv, StreamsOK, StreamType
  <2>2. CASE th[t].n # Null
    BY <1>1, <2>2 DEF TypeInv, StreamsOK, StreamType
  <2> QED BY <2>1, <2>2
<1>3. Update(t, m, task_exited, Resume(t))
  BY DEF UpdateSchedule
<1>4. Resume(t) \in Rests
  BY ResumeRests
<1>5. HandOK(t, Resume(t), th[t].n, th[t].then) /\ HandOK(t, "set", th[t].n, Resume(t))
  BY <1>1, <1>4 DEF HandOK, Rests
<1>6. MainKeep /\ MuxKeep /\ UNCHANGED <<task_failed, q, next, left>>
  BY DEF UpdateSchedule
<1>7. QueuesOK'
  BY <1>6, QueuesSame DEF TypeInv
<1> HIDE DEF m
<1> QED BY <1>1, <1>2, <1>3, <1>4, <1>5, <1>6, <1>7, UpdateType

LEMMA ExitType == ASSUME TypeInv, NEW t \in Everyone, Exit(t) PROVE TypeInv'
<1>1. th[t].pc = "exit" /\ Goto(t, "gone") /\ "gone" \in Places /\ task_failed' = TRUE
  BY DEF Exit, Places
<1>2. UNCHANGED <<fed, terminate, choked, ms, schedule, q, mux_started, opened,
                  mux_ready_lock, fg, written, next, left>>
  BY DEF Exit, SchedKeep, MainKeep, MuxKeep
<1>3. QueuesOK' /\ CountersOK' /\ FlagsOK' /\ StreamsOK(ms)'
  BY <1>1, <1>2 DEF TypeInv, QueuesOK, CountersOK, FlagsOK, StreamsOK
<1>4. Moved(t, "gone", th[t].n, th[t].then)
  BY <1>1, GotoMoves DEF TypeInv
<1>5. HandOK(t, "gone", th[t].n, th[t].then)
  BY DEF TypeInv, ThreadsOK, HandOK, Sending
<1>6. SourceOK("gone", th[t].n, th[t].then, next'["fg"])
  BY DEF SourceOK, Sending
<1>7. ThreadsOK'
  BY <1>2, <1>4, <1>5, <1>6, MovedOK DEF TypeInv
<1>8. ScheduleOK'
  BY <1>1, <1>2, <1>4, MovedScheduleOK DEF TypeInv
<1> QED BY <1>3, <1>7, <1>8 DEF TypeInv

LEMMA LastUpdateType == ASSUME TypeInv, NEW t \in {"d", "fg"}, LastUpdate(t) PROVE TypeInv'
<1>1. t \in Everyone /\ th[t].pc = "last" /\ Leaves(t) \in {"gone", "exit"}
  BY DEF Everyone, Tasks, LastUpdate, Leaves
<1>2. Leaves(t) \in Rests
  BY <1>1 DEF Rests
<1>3. Update(t, ms, task_exited \cup {t}, Leaves(t))
  BY DEF LastUpdate
<1>4. HandOK(t, Leaves(t), th[t].n, th[t].then) /\ HandOK(t, "set", th[t].n, Leaves(t))
  BY <1>1, <1>2 DEF TypeInv, ThreadsOK, HandOK, Sending
<1>5. MainKeep /\ MuxKeep /\ UNCHANGED <<task_failed, q, next, left>>
  BY DEF LastUpdate
<1>6. QueuesOK' /\ StreamsOK(ms)
  BY <1>5, QueuesSame DEF TypeInv
<1> QED BY <1>1, <1>2, <1>3, <1>4, <1>5, <1>6, UpdateType

-----------------------------------------------------------------------------
(* The demuxer.                                                            *)

\* A step of a thread that is not the filtergraph, which leaves the next
\* packet of the filtergraph alone anyway, and one of the filtergraph.
LEMMA OtherType ==
  ASSUME TypeInv, Local, NEW t \in Everyone \ {"fg"}, NEW p, NEW n, NEW x, Moved(t, p, n, x),
         th[t].pc # "set", p # "set", t = "mux" => th[t].pc # "none", HandOK(t, p, n, x),
         next'["fg"] = next["fg"], QueuesOK', CountersOK'
  PROVE  TypeInv'
BY LocalType

LEMMA ReadEndType == ASSUME TypeInv, ReadEnd PROVE TypeInv'
<1>1. "d" \in Everyone \ {"fg"} /\ "done" \in Places /\ th["d"].pc = "read"
  BY DEF Everyone, Tasks, Places, ReadEnd
<1>2. Moved("d", "done", th["d"].n, th["d"].then)
  <2>1. CASE th' = [th EXCEPT !["d"].pc = "done", !["d"].closing = TRUE]
    BY <1>1, <2>1, ClosingMoves DEF TypeInv
  <2>2. CASE Fails("d", "done")
    BY <1>1, <2>2, FailsMoves DEF TypeInv
  <2> QED BY <2>1, <2>2 DEF ReadEnd
<1>3. HandOK("d", "done", th["d"].n, th["d"].then)
  BY <1>1 DEF TypeInv, ThreadsOK, HandOK, Rests
<1>4. QueuesOK' /\ Local /\ UNCHANGED next
  BY QueuesSame DEF ReadEnd, TypeInv
<1>5. CountersOK'
  <2>1. CASE UNCHANGED left
    BY <1>4, <2>1, CountersSame DEF TypeInv
  <2>2. CASE Incident
    BY <1>4, <2>2, IncidentCounts DEF TypeInv
  <2> QED BY <2>1, <2>2 DEF ReadEnd
<1> QED BY <1>1, <1>2, <1>3, <1>4, <1>5, OtherType

LEMMA WaitsType == ASSUME TypeInv, NEW t \in {"d", "fg"}, Waits(t) PROVE TypeInv'
<1>1. /\ t \in Everyone /\ "wait" \in Places /\ Goto(t, "wait")
      /\ th[t].pc = (IF t = "d" THEN "read" ELSE "recv")
  BY DEF Everyone, Tasks, Places, Waits
<1>2. Moved(t, "wait", th[t].n, th[t].then)
  BY <1>1, GotoMoves DEF TypeInv
<1>3. HandOK(t, "wait", th[t].n, th[t].then)
  BY <1>1 DEF TypeInv, ThreadsOK, HandOK, Sending
<1>4. QueuesOK' /\ CountersOK' /\ Local /\ UNCHANGED next
  BY QueuesSame, CountersSame DEF Waits, TypeInv
<1>5. t = "fg" /\ ~fed => SourceOK("wait", th[t].n, th[t].then, next'["fg"])
  BY <1>1, <1>4 DEF TypeInv, ThreadsOK, SourceOK, Sending
<1> QED BY <1>1, <1>2, <1>3, <1>4, <1>5, LocalType

LEMMA TerminatedDType == ASSUME TypeInv, TerminatedD PROVE TypeInv'
<1>1. "d" \in Everyone \ {"fg"} /\ "done" \in Places /\ th["d"].pc = "wait"
  BY DEF Everyone, Tasks, Places, TerminatedD
<1>2. Moved("d", "done", th["d"].n, th["d"].then)
  BY <1>1, ClosingMoves DEF TypeInv, TerminatedD
<1>3. HandOK("d", "done", th["d"].n, th["d"].then)
  BY <1>1 DEF TypeInv, ThreadsOK, HandOK, Rests
<1>4. QueuesOK' /\ CountersOK' /\ Local /\ UNCHANGED next
  BY QueuesSame, CountersSame DEF TerminatedD, TypeInv
<1> QED BY <1>1, <1>2, <1>3, <1>4, OtherType

LEMMA TakeType == ASSUME TypeInv, Take PROVE TypeInv'
<1>1. PICK dst \in SourceStreams :
          LET k == IF dst = Copy THEN "d1" ELSE "d2" IN
          /\ Has(dst)
          /\ next' = [next EXCEPT ![k] = @ + 1]
          /\ th' = [th EXCEPT !["d"].pc = IF dst = Copy THEN "mux" ELSE "dec",
                              !["d"].n = next[k]]
  BY DEF Take
<1> DEFINE k == IF dst = Copy THEN "d1" ELSE "d2"
           p == IF dst = Copy THEN "mux" ELSE "dec"
<1>2. /\ "d" \in Everyone \ {"fg"} /\ p \in Places /\ p # "set" /\ th["d"].pc # "set"
      /\ k \in {"d1", "d2"}
  BY DEF Everyone, Tasks, Places, Take, Proceeds
<1>3. next[k] \in 1..N
  BY <1>1, <1>2, SchedulerAssumption DEF Has, TypeInv, CountersOK
<1>4. Moved("d", p, next[k], th["d"].then)
  <2>1. next[k] \in 0..EofFrame
    BY <1>3, SchedulerAssumption DEF EofFrame
  <2>2. th' = [th EXCEPT !["d"].pc = p, !["d"].n = next[k]]
    BY <1>1
  <2> HIDE DEF p, k
  <2> QED BY <1>2, <2>1, <2>2, HandMoves DEF TypeInv
<1>5. HandOK("d", p, next[k], th["d"].then)
  BY <1>2, <1>3, SchedulerAssumption DEF HandOK, Null
<1>6. next' = [next EXCEPT ![k] = next[k] + 1]
  BY <1>1
<1> HIDE DEF p, k
<1>7. QueuesOK' /\ Local /\ UNCHANGED left
  BY QueuesSame DEF Take, TypeInv
<1>8. CountersOK' /\ next'["fg"] = next["fg"]
  BY <1>2, <1>3, <1>6, <1>7, SchedulerAssumption DEF TypeInv, CountersOK
<1> QED BY <1>2, <1>4, <1>5, <1>7, <1>8, OtherType

LEMMA SendDecType == ASSUME TypeInv, SendDec PROVE TypeInv'
<1>1. /\ "d" \in Everyone \ {"fg"} /\ th["d"].pc = "dec"
      /\ "dec" \in Queues /\ QueueOK(q["dec"], 1..N) /\ ItemsOf("dec") = 1..N /\ 1 \in Streams
  BY DEF Everyone, Tasks, SendDec, Queues, TypeInv, QueuesOK, ItemsOf, Streams
<1>2. th["d"].n \in 1..N
  BY <1>1, SchedulerAssumption DEF TypeInv, ThreadsOK, HandOK, Null
<1>3. PICK o \in Send(q["dec"], 1, th["d"].n) :
          IF o.ret = "ok"
          THEN q' = [q EXCEPT !["dec"] = o.q] /\ Goto("d", "read") /\ UNCHANGED ended
          ELSE /\ q' = [q EXCEPT !["dec"] = SendFinish(o.q, 1)]
               /\ ended' = ended \cup {Coded}
               /\ Goto("d", AfterEnd(ended'))
  BY DEF SendDec
<1>4. QueueOK(o.q, 1..N) /\ QueueOK(SendFinish(o.q, 1), 1..N)
  BY <1>1, <1>2, SendOK, SendFinishOK
<1>5. QueuesOK'
  <2>1. q' = [q EXCEPT !["dec"] = o.q] \/ q' = [q EXCEPT !["dec"] = SendFinish(o.q, 1)]
    BY <1>3
  <2> QED BY <1>1, <1>4, <2>1, QueueChange DEF TypeInv
<1>6. PICK p \in {"read", "done"} : Goto("d", p)
  BY <1>3 DEF AfterEnd
<1>7. Moved("d", p, th["d"].n, th["d"].then)
  BY <1>1, <1>6, GotoMoves DEF TypeInv, Places
<1>8. HandOK("d", p, th["d"].n, th["d"].then) /\ p # "set"
  BY <1>1, <1>2, SchedulerAssumption DEF HandOK
<1>9. CountersOK' /\ Local /\ UNCHANGED next
  BY CountersSame DEF SendDec, TypeInv
<1> QED BY <1>1, <1>5, <1>7, <1>8, <1>9, OtherType

LEMMA DemuxDoneType == ASSUME TypeInv, DemuxDone PROVE TypeInv'
<1>1. /\ "d" \in Everyone \ {"fg"} /\ th["d"].pc = "done" /\ {"mux", "last"} \subseteq Places
      /\ "dec" \in Queues /\ QueueOK(q["dec"], 1..N) /\ ItemsOf("dec") = 1..N /\ 1 \in Streams
  BY DEF Everyone, Tasks, DemuxDone, Queues, TypeInv, QueuesOK, ItemsOf, Streams, Places
<1>2. Null \in 0..EofFrame
  BY SchedulerAssumption DEF Null, EofFrame
<1>3. \E p \in {"mux", "last"} : Moved("d", p, Null, th["d"].then)
  <2>1. CASE Copy \notin ended
    <3>1. th' = [th EXCEPT !["d"].pc = "mux", !["d"].n = Null, !["d"].closing = TRUE]
      BY <2>1 DEF DemuxDone
    <3> QED BY <1>1, <1>2, <3>1, LastHandMoves DEF TypeInv
  <2>2. CASE Copy \in ended
    <3>1. th' = [th EXCEPT !["d"].pc = "last", !["d"].n = Null]
      BY <2>2 DEF DemuxDone
    <3> QED BY <1>1, <1>2, <3>1, HandMoves DEF TypeInv
  <2> QED BY <2>1, <2>2
<1>4. QueuesOK'
  <2>1. UNCHANGED q \/ q' = [q EXCEPT !["dec"] = SendFinish(q["dec"], 1)]
    BY DEF DemuxDone
  <2>2. QueueOK(SendFinish(q["dec"], 1), 1..N)
    BY <1>1, SendFinishOK
  <2> QED BY <1>1, <2>1, <2>2, QueueChange, QueuesSame DEF TypeInv
<1>5. \A p \in {"mux", "last"} : p # "set" /\ HandOK("d", p, Null, th["d"].then)
  BY SchedulerAssumption DEF HandOK, Null
<1>6. CountersOK' /\ Local /\ UNCHANGED next
  BY CountersSame DEF DemuxDone, TypeInv
<1> QED BY <1>1, <1>3, <1>4, <1>5, <1>6, OtherType

-----------------------------------------------------------------------------
(* The decoder.                                                            *)

LEMMA DecReceiveType == ASSUME TypeInv, DecReceive PROVE TypeInv'
<1>1. /\ "dec" \in Everyone \ {"fg"} /\ th["dec"].pc = "recv" /\ {"send", "done"} \subseteq Places
      /\ "dec" \in Queues /\ QueueOK(q["dec"], 1..N) /\ ItemsOf("dec") = 1..N
      /\ {1} \in SUBSET Streams
  BY DEF Everyone, Tasks, DecReceive, Queues, TypeInv, QueuesOK, ItemsOf, Streams, Places
<1>2. PICK o \in Receive(q["dec"], {1}) :
          /\ q' = [q EXCEPT !["dec"] = o.q]
          /\ \/ /\ o.ret = "item"
                /\ th' = [th EXCEPT !["dec"].pc = "send", !["dec"].n = o.x]
                /\ UNCHANGED left
             \/ o.ret = "item" /\ Incident /\ Fails("dec", "done")
             \/ /\ o.ret \in {"eof", "end"}
                /\ th' = [th EXCEPT !["dec"].pc = "send", !["dec"].n = EofFrame]
                /\ UNCHANGED left
  BY DEF DecReceive
<1>3. QueueOK(o.q, 1..N) /\ (o.ret = "item" => o.x \in 1..N)
  BY <1>1, <1>2, ReceiveOK
<1>4. QueuesOK'
  BY <1>1, <1>2, <1>3, QueueChange DEF TypeInv
<1>5. Local /\ UNCHANGED next
  BY DEF DecReceive
<1>6. CountersOK'
  <2>1. UNCHANGED left \/ Incident
    BY <1>2
  <2> QED BY <1>5, <2>1, CountersSame, IncidentCounts DEF TypeInv
<1>7. EofFrame \in 1..EofFrame /\ 1..N \subseteq 1..EofFrame /\ 1..EofFrame \subseteq 0..EofFrame
      /\ Null \notin 1..EofFrame
  BY SchedulerAssumption DEF EofFrame, Null
<1>8. ASSUME NEW p \in {"send", "done"}, NEW n, Moved("dec", p, n, th["dec"].then),
             p = "send" => n \in 1..EofFrame
      PROVE  TypeInv'
  <2>1. HandOK("dec", p, n, th["dec"].then) /\ p # "set"
    BY <1>7, <1>8 DEF HandOK
  <2> QED BY <1>1, <1>4, <1>5, <1>6, <1>8, <2>1, OtherType
<1>9. CASE o.ret = "item" /\ th' = [th EXCEPT !["dec"].pc = "send", !["dec"].n = o.x]
  <2>1. o.x \in 1..EofFrame
    BY <1>3, <1>7, <1>9
  <2>2. Moved("dec", "send", o.x, th["dec"].then)
    BY <1>1, <1>7, <1>9, <2>1, HandMoves DEF TypeInv
  <2> QED BY <1>8, <2>1, <2>2
<1>10. CASE Fails("dec", "done")
  <2>1. Moved("dec", "done", th["dec"].n, th["dec"].then)
    BY <1>1, <1>10, FailsMoves DEF TypeInv
  <2> QED BY <1>8, <2>1
<1>11. CASE th' = [th EXCEPT !["dec"].pc = "send", !["dec"].n = EofFrame]
  <2>1. Moved("dec", "send", EofFrame, th["dec"].then)
    BY <1>1, <1>7, <1>11, HandMoves DEF TypeInv
  <2> QED BY <1>7, <1>8, <2>1
<1> QED BY <1>2, <1>9, <1>10, <1>11

LEMMA FinishInputOK ==
  ASSUME NEW items, NEW k, QueueOK(k, items)
  PROVE  QueueOK(FinishInput(k), items)
BY SendFinishOK DEF FinishInput, In, Ctl, Streams

LEMMA DecSendType == ASSUME TypeInv, DecSend PROVE TypeInv'
<1>1. /\ "dec" \in Everyone \ {"fg"} /\ th["dec"].pc = "send" /\ {"recv", "done"} \subseteq Places
      /\ "fg" \in Queues /\ QueueOK(q["fg"], 1..EofFrame) /\ ItemsOf("fg") = 1..EofFrame
      /\ In \in Streams
  BY DEF Everyone, Tasks, DecSend, Queues, TypeInv, QueuesOK, ItemsOf, Streams, Places, In
<1>2. th["dec"].n \in 1..EofFrame
  <2>1. th["dec"].n \in 0..EofFrame
    BY <1>1 DEF TypeInv, ThreadsOK, ThreadType
  <2>2. th["dec"].n # Null
    BY <1>1 DEF TypeInv, ThreadsOK, HandOK
  <2> QED BY <2>1, <2>2, SchedulerAssumption DEF Null, EofFrame
<1>3. PICK o \in Send(q["fg"], In, th["dec"].n) :
          IF o.ret = "ok"
          THEN /\ q' = [q EXCEPT !["fg"] = o.q]
               /\ Goto("dec", IF th["dec"].n = EofFrame THEN "done" ELSE "recv")
               /\ UNCHANGED ended
          ELSE /\ q' = [q EXCEPT !["fg"] = FinishInput(o.q)]
               /\ ended' = ended \cup {"fg"}
               /\ Goto("dec", "done")
  BY DEF DecSend
<1>4. QueueOK(o.q, 1..EofFrame) /\ QueueOK(FinishInput(o.q), 1..EofFrame)
  BY <1>1, <1>2, SendOK, FinishInputOK
<1>5. QueuesOK'
  <2>1. q' = [q EXCEPT !["fg"] = o.q] \/ q' = [q EXCEPT !["fg"] = FinishInput(o.q)]
    BY <1>3
  <2> QED BY <1>1, <1>4, <2>1, QueueChange DEF TypeInv
<1>6. PICK p \in {"recv", "done"} : Goto("dec", p)
  BY <1>3
<1>7. Moved("dec", p, th["dec"].n, th["dec"].then)
  BY <1>1, <1>6, GotoMoves DEF TypeInv
<1>8. HandOK("dec", p, th["dec"].n, th["dec"].then) /\ p # "set"
  BY DEF HandOK
<1>9. CountersOK' /\ Local /\ UNCHANGED next
  BY CountersSame DEF DecSend, TypeInv
<1> QED BY <1>1, <1>5, <1>7, <1>8, <1>9, OtherType

LEMMA DecDoneType == ASSUME TypeInv, DecDone PROVE TypeInv'
<1>1. /\ "dec" \in Everyone \ {"fg"} /\ th["dec"].pc = "done"
      /\ Leaves("dec") \in Places /\ Leaves("dec") # "set"
      /\ QueueOK(q["dec"], 1..N) /\ QueueOK(q["fg"], 1..EofFrame)
      /\ DOMAIN q = Queues /\ {"dec", "fg"} \subseteq Queues
      /\ {1} \in SUBSET Streams
  BY DEF Everyone, Tasks, DecDone, Queues, TypeInv, QueuesOK, ItemsOf, Streams, Places, Leaves
<1>2. QueuesOK'
  <2> DEFINE a == ReceiveFinish(q["dec"], {1})
             b == IF "fg" \in ended THEN q["fg"] ELSE FinishInput(q["fg"])
  <2>1. q' = [[q EXCEPT !["dec"] = a] EXCEPT !["fg"] = b]
    BY DEF DecDone
  <2>2. QueueOK(a, 1..N)
    BY <1>1, ReceiveFinishOK
  <2>3. QueueOK(b, 1..EofFrame)
    BY <1>1, FinishInputOK
  <2> HIDE DEF a, b
  <2> QED BY <1>1, <2>1, <2>2, <2>3 DEF TypeInv, QueuesOK, ItemsOf
<1>3. Null \in 0..EofFrame
  BY SchedulerAssumption DEF Null, EofFrame
<1>4. Moved("dec", Leaves("dec"), Null, th["dec"].then)
  <2>1. th' = [th EXCEPT !["dec"].pc = Leaves("dec"), !["dec"].n = Null]
    BY DEF DecDone
  <2> QED BY <1>1, <1>3, <2>1, HandMoves DEF TypeInv
<1>5. HandOK("dec", Leaves("dec"), Null, th["dec"].then)
  BY <1>1 DEF HandOK, Leaves
<1>6. CountersOK' /\ Local /\ UNCHANGED next
  BY CountersSame DEF DecDone, TypeInv
<1> QED BY <1>1, <1>2, <1>4, <1>5, <1>6, OtherType

-----------------------------------------------------------------------------
(* The filtergraph.                                                        *)

\* A step that changes queues only.
LEMMA StillType ==
  ASSUME TypeInv, Local, UNCHANGED <<th, next>>, QueuesOK', CountersOK'
  PROVE  TypeInv'
<1>1. UNCHANGED <<fed, terminate, task_failed, choked, ms, schedule, mux_started, opened,
                  mux_ready_lock, fg, written>>
  BY DEF Local, SchedKeep, MainKeep, MuxKeep
<1> QED
  BY <1>1 DEF TypeInv, ThreadsOK, StreamsOK, ScheduleOK, FlagsOK

\* A step of the filtergraph that may configure the graph.
LEMMA GraphType ==
  ASSUME TypeInv, FgKeep, NEW p, NEW n, NEW x,
         Moved("fg", p, n, x) \/ (UNCHANGED th /\ p = "recv" /\ th["fg"].pc = "recv"
                                  /\ n = th["fg"].n /\ x = th["fg"].then),
         th["fg"].pc # "set", p # "set", HandOK("fg", p, n, x),
         ~fed => SourceOK(p, n, x, next["fg"]), fg' \in [graph : BOOLEAN, got_frame : BOOLEAN],
         QueuesOK', CountersOK', UNCHANGED next
  PROVE  TypeInv'
<1>1. UNCHANGED <<fed, terminate, task_failed, choked, ms, schedule, mux_started, opened,
                  mux_ready_lock, written>>
  BY DEF FgKeep, SchedKeep, MainKeep
<1>2. "fg" \in Everyone
  BY DEF Everyone, Tasks
<1>3. FlagsOK' /\ StreamsOK(ms)'
  BY <1>1 DEF TypeInv, FlagsOK, StreamsOK
<1>4. CASE Moved("fg", p, n, x)
  <2>1. ThreadsOK'
    BY <1>1, <1>2, <1>4, MovedOK DEF TypeInv
  <2>2. ScheduleOK'
    BY <1>1, <1>2, <1>4, MovedScheduleOK DEF TypeInv
  <2> QED BY <1>3, <2>1, <2>2 DEF TypeInv
<1>5. CASE UNCHANGED th
  <2>1. ThreadsOK' /\ ScheduleOK'
    BY <1>1, <1>5 DEF TypeInv, ThreadsOK, ScheduleOK
  <2> QED BY <1>3, <2>1 DEF TypeInv
<1> QED BY <1>4, <1>5

LEMMA FgReceiveType == ASSUME TypeInv, FgReceive PROVE TypeInv'
<1>1. /\ "fg" \in Everyone /\ th["fg"].pc = "recv" /\ fed
      /\ {"send", "done", "close"} \subseteq Places
      /\ "fg" \in Queues /\ QueueOK(q["fg"], 1..EofFrame) /\ ItemsOf("fg") = 1..EofFrame
      /\ FgInputs \in SUBSET Streams
  BY DEF Everyone, Tasks, FgReceive, Queues, TypeInv, QueuesOK, ItemsOf, Streams, Places, FgInputs,
         In, Ctl
<1>2. PICK o \in Receive(q["fg"], FgInputs) :
          /\ q' = [q EXCEPT !["fg"] = o.q]
          /\ \/ /\ o.ret = "item"
                /\ th' = [th EXCEPT !["fg"].pc = IF o.x = EofFrame THEN "close" ELSE "send",
                                    !["fg"].n = IF o.x = EofFrame THEN Null ELSE o.x]
                /\ fg' = [fg EXCEPT !.graph = TRUE]
                /\ UNCHANGED left
             \/ o.ret = "item" /\ Incident /\ Fails("fg", "done") /\ UNCHANGED fg
             \/ o.ret \in {"eof", "again"} /\ UNCHANGED <<th, fg, left>>
             \/ /\ o.ret = "end"
                /\ Goto("fg", IF fg.graph THEN "close" ELSE "done")
                /\ UNCHANGED <<fg, left>>
  BY DEF FgReceive
<1>3. QueueOK(o.q, 1..EofFrame) /\ (o.ret = "item" => o.x \in 1..EofFrame)
  BY <1>1, <1>2, ReceiveOK
<1>4. QueuesOK'
  BY <1>1, <1>2, <1>3, QueueChange DEF TypeInv
<1>5. FgKeep /\ UNCHANGED next
  BY DEF FgReceive
<1>6. CountersOK'
  <2>1. UNCHANGED left \/ Incident
    BY <1>2
  <2> QED BY <1>5, <2>1, CountersSame, IncidentCounts DEF TypeInv
<1>7. fg' \in [graph : BOOLEAN, got_frame : BOOLEAN]
  <2>1. UNCHANGED fg \/ fg' = [fg EXCEPT !.graph = TRUE]
    BY <1>2
  <2> QED BY <2>1 DEF TypeInv, FlagsOK
<1>8. HandOK("fg", "recv", th["fg"].n, th["fg"].then)
  BY <1>1 DEF TypeInv, ThreadsOK
<1>9. ASSUME NEW p \in {"send", "done", "close"}, NEW n \in 0..N,
             Moved("fg", p, n, th["fg"].then), p = "send" => n # Null
      PROVE  TypeInv'
  <2>1. HandOK("fg", p, n, th["fg"].then) /\ p # "set"
    BY <1>9 DEF HandOK, Sending
  <2> QED BY <1>1, <1>4, <1>5, <1>6, <1>7, <1>9, <2>1, GraphType
<1>10. th["fg"].n \in 0..N
  BY <1>8 DEF HandOK
<1>11. CASE /\ o.ret = "item"
            /\ th' = [th EXCEPT !["fg"].pc = IF o.x = EofFrame THEN "close" ELSE "send",
                                !["fg"].n = IF o.x = EofFrame THEN Null ELSE o.x]
  <2> DEFINE p == IF o.x = EofFrame THEN "close" ELSE "send"
             n == IF o.x = EofFrame THEN Null ELSE o.x
  <2>1. n \in 0..N /\ n \in 0..EofFrame /\ (p = "send" => n # Null) /\ p \in {"send", "close"}
    BY <1>3, <1>11, SchedulerAssumption DEF EofFrame, Null
  <2>2. th' = [th EXCEPT !["fg"].pc = p, !["fg"].n = n]
    BY <1>11
  <2> HIDE DEF p, n
  <2>3. Moved("fg", p, n, th["fg"].then)
    BY <1>1, <2>1, <2>2, HandMoves DEF TypeInv
  <2> QED BY <1>9, <2>1, <2>3
<1>12. CASE Fails("fg", "done")
  <2>1. Moved("fg", "done", th["fg"].n, th["fg"].then)
    BY <1>1, <1>12, FailsMoves DEF TypeInv
  <2> QED BY <1>9, <1>10, <2>1
<1>13. CASE UNCHANGED th
  BY <1>1, <1>4, <1>5, <1>6, <1>7, <1>8, <1>13, GraphType
<1>14. CASE Goto("fg", IF fg.graph THEN "close" ELSE "done")
  <2>1. PICK p \in {"close", "done"} : Goto("fg", p)
    BY <1>14
  <2>2. Moved("fg", p, th["fg"].n, th["fg"].then)
    BY <1>1, <2>1, GotoMoves DEF TypeInv
  <2> QED BY <1>9, <1>10, <2>2
<1> QED BY <1>2, <1>11, <1>12, <1>13, <1>14

LEMMA FgSourceType == ASSUME TypeInv, FgSource PROVE TypeInv'
<1>1. /\ "fg" \in Everyone /\ th["fg"].pc \in {"recv", "wait"} /\ ~fed /\ "send" \in Places
      /\ "fg" \in {"d1", "d2", "fg"}
  BY DEF Everyone, Tasks, Places, FgSource, Proceeds
<1>2. next["fg"] \in 1..N
  BY <1>1, SchedulerAssumption DEF TypeInv, ThreadsOK, SourceOK, CountersOK
<1>3. next' = [next EXCEPT !["fg"] = next["fg"] + 1]
  BY DEF FgSource
<1>4. QueuesOK' /\ Local /\ UNCHANGED left
  BY QueuesSame DEF FgSource, TypeInv
<1>5. CountersOK' /\ next'["fg"] = next["fg"] + 1
  BY <1>1, <1>2, <1>3, <1>4, SchedulerAssumption DEF TypeInv, CountersOK
<1>6. Moved("fg", "send", next["fg"], th["fg"].then)
  <2>1. next["fg"] \in 0..EofFrame
    BY <1>2, SchedulerAssumption DEF EofFrame
  <2>2. th' = [th EXCEPT !["fg"].pc = "send", !["fg"].n = next["fg"]]
    BY DEF FgSource
  <2> QED BY <1>1, <2>1, <2>2, HandMoves DEF TypeInv
<1>7. HandOK("fg", "send", next["fg"], th["fg"].then)
  BY <1>2, SchedulerAssumption DEF HandOK, Null
<1>8. SourceOK("send", next["fg"], th["fg"].then, next'["fg"])
  BY <1>5 DEF SourceOK
<1> QED BY <1>1, <1>4, <1>5, <1>6, <1>7, <1>8, LocalType

LEMMA TerminatedFgType == ASSUME TypeInv, TerminatedFg PROVE TypeInv'
<1>1. "fg" \in Everyone /\ "close" \in Places /\ th["fg"].pc = "wait" /\ Goto("fg", "close")
  BY DEF Everyone, Tasks, Places, TerminatedFg
<1>2. Moved("fg", "close", th["fg"].n, th["fg"].then)
  BY <1>1, GotoMoves DEF TypeInv
<1>3. HandOK("fg", "close", th["fg"].n, th["fg"].then)
  BY <1>1 DEF TypeInv, ThreadsOK, HandOK, Sending
<1>4. QueuesOK' /\ CountersOK' /\ Local /\ UNCHANGED next
  BY QueuesSame, CountersSame DEF TerminatedFg, TypeInv
<1>5. SourceOK("close", th["fg"].n, th["fg"].then, next'["fg"])
  BY DEF SourceOK, Sending
<1> QED BY <1>1, <1>2, <1>3, <1>4, <1>5, LocalType

LEMMA EncOpenType == ASSUME TypeInv, EncOpen PROVE TypeInv'
<1>1. /\ "fg" \in Everyone /\ "mux" \in Everyone /\ th["fg"].pc \in {"send", "close"}
      /\ {"flush", "recv", "done"} \subseteq Places /\ th["fg"].pc \in Places
  BY DEF Everyone, Tasks, Places, EncOpen
<1>2. UNCHANGED <<fed, terminate, task_failed, choked, ms, schedule, mux_started, opened, fg,
                  written, q, next>>
  BY DEF EncOpen, SchedKeep, MainKeep
<1>3. FlagsOK' /\ StreamsOK(ms)' /\ QueuesOK'
  BY <1>2 DEF TypeInv, FlagsOK, StreamsOK, QueuesOK
<1>4. CASE Incident /\ Fails("fg", "done") /\ UNCHANGED mux_ready_lock
  <2>1. Moved("fg", "done", th["fg"].n, th["fg"].then)
    BY <1>1, <1>4, FailsMoves DEF TypeInv
  <2>2. HandOK("fg", "done", th["fg"].n, th["fg"].then)
    BY <1>1 DEF TypeInv, ThreadsOK, HandOK, Sending
  <2>3. SourceOK("done", th["fg"].n, th["fg"].then, next'["fg"])
    BY DEF SourceOK, Sending
  <2>4. ThreadsOK'
    BY <1>1, <1>2, <2>1, <2>2, <2>3, MovedOK DEF TypeInv
  <2>5. ScheduleOK'
    BY <1>1, <1>2, <1>4, <2>1, MovedScheduleOK DEF TypeInv
  <2>6. CountersOK'
    BY <1>2, <1>4, IncidentCounts DEF TypeInv
  <2> QED BY <1>3, <2>4, <2>5, <2>6 DEF TypeInv
<1>5. CASE /\ th' = [th EXCEPT !["fg"].then = th["fg"].pc, !["fg"].pc = "flush",
                              !["mux"].pc = "recv"]
           /\ UNCHANGED left /\ mux_ready_lock = Nobody /\ mux_ready_lock' = "fg"
  <2>1. /\ th' \in [Everyone -> ThreadType]
        /\ \A u \in Everyone \ {"fg", "mux"} : th'[u] = th[u]
        /\ th'["fg"].pc = "flush" /\ th'["fg"].n = th["fg"].n /\ th'["fg"].then = th["fg"].pc
        /\ th'["mux"].pc = "recv" /\ th'["mux"].n = th["mux"].n
    <3> DEFINE a == [th["fg"] EXCEPT !.then = th["fg"].pc, !.pc = "flush"]
               b == [th["mux"] EXCEPT !.pc = "recv"]
    <3>1. th' = [[th EXCEPT !["fg"] = a] EXCEPT !["mux"] = b]
      BY <1>1, <1>5 DEF TypeInv, ThreadsOK
    <3>2. a \in ThreadType /\ b \in ThreadType
      BY <1>1 DEF TypeInv, ThreadsOK, ThreadType
    <3>3. /\ a.pc = "flush" /\ a.n = th["fg"].n /\ a.then = th["fg"].pc
          /\ b.pc = "recv" /\ b.n = th["mux"].n
      BY <1>1 DEF TypeInv, ThreadsOK, ThreadType
    <3> HIDE DEF a, b
    <3> QED BY <1>1, <3>1, <3>2, <3>3 DEF TypeInv, ThreadsOK
  <2>2. HandOK("fg", "flush", th["fg"].n, th["fg"].pc)
    BY <1>1 DEF TypeInv, ThreadsOK, HandOK, Sending
  <2>3. HandOK("mux", "recv", th["mux"].n, th'["mux"].then)
    BY <1>1 DEF TypeInv, ThreadsOK, HandOK
  <2>4. ~fed => SourceOK("flush", th["fg"].n, th["fg"].pc, next'["fg"])
    BY <1>1, <1>2 DEF TypeInv, ThreadsOK, SourceOK, Sending
  <2>5. \A u \in Everyone : HandOK(u, th'[u].pc, th'[u].n, th'[u].then)
    BY <2>1, <2>2, <2>3 DEF TypeInv, ThreadsOK
  <2>6. ThreadsOK'
    BY <1>2, <2>1, <2>4, <2>5 DEF ThreadsOK
  <2>7. th["mux"].pc # "set"
    BY <1>5 DEF Nobody, TypeInv, ScheduleOK, EncOpen
  <2>8. ScheduleOK'
    <3>1. mux_ready_lock' = "fg"
      BY <1>5
    <3> QED BY <1>1, <1>2, <2>1, <2>7, <3>1 DEF TypeInv, ScheduleOK
  <2>9. CountersOK'
    BY <1>2, <1>5, CountersSame DEF TypeInv
  <2> QED BY <1>3, <2>6, <2>8, <2>9 DEF TypeInv
<1> QED BY <1>4, <1>5 DEF EncOpen

\* The head of a pre-muxing queue on its way.
LEMMA FlushOneType ==
  ASSUME TypeInv, NEW s \in OutStreams, ms[s].pre # <<>>, FlushOne(s)
  PROVE  QueuesOK' /\ StreamsOK(ms)'
<1> DEFINE x == Head(ms[s].pre)
           popped == [ms EXCEPT ![s].pre = Tail(@)]
<1>1. ms[s].pre \in Seq(0..N) /\ Len(ms[s].pre) <= PreMax
  BY DEF TypeInv, StreamsOK, StreamType
<1>2. /\ x \in 0..N /\ Tail(ms[s].pre) \in Seq(0..N) /\ Len(Tail(ms[s].pre)) <= PreMax
  <2>1. /\ x \in 0..N /\ Tail(ms[s].pre) \in Seq(0..N)
        /\ Len(Tail(ms[s].pre)) = Len(ms[s].pre) - 1 /\ Len(ms[s].pre) \in Nat
    BY <1>1, HeadTailProperties, LenProperties
  <2>2. Len(ms[s].pre) - 1 <= PreMax
    BY <1>1, <2>1, SchedulerAssumption
  <2> QED BY <2>1, <2>2
<1>3. StreamsOK(popped)
  BY <1>2 DEF TypeInv, StreamsOK, StreamType
<1>4. s \in Streams /\ "mux" \in Queues /\ QueueOK(q["mux"], 1..N) /\ ItemsOf("mux") = 1..N
  BY DEF OutStreams, Streams, Queues, TypeInv, QueuesOK, ItemsOf
<1>5. CASE x = Null
  <2>1. q' = [q EXCEPT !["mux"] = SendFinish(q["mux"], s)] /\ ms' = popped
    BY <1>5 DEF FlushOne
  <2>2. QueuesOK'
    BY <1>4, <2>1, SendFinishOK, QueueChange DEF TypeInv
  <2> QED BY <1>3, <2>1, <2>2 DEF StreamsOK
<1>6. CASE x # Null /\ ms[s].init_eof
  <2>1. UNCHANGED q /\ ms' = popped
    BY <1>6 DEF FlushOne
  <2> QED BY <1>3, <2>1, QueuesSame DEF StreamsOK, TypeInv
<1>7. CASE x # Null /\ ~ms[s].init_eof
  <2>1. PICK o \in Send(q["mux"], s, x) :
                /\ q' = [q EXCEPT !["mux"] = o.q]
                /\ ms' = [popped EXCEPT ![s].init_eof = (o.ret = "eof")]
    BY <1>7 DEF FlushOne
  <2>2. x \in 1..N
    BY <1>2, <1>7, SchedulerAssumption DEF Null
  <2>3. QueueOK(o.q, 1..N)
    BY <1>4, <2>1, <2>2, SendOK
  <2>4. QueuesOK'
    BY <1>4, <2>1, <2>3, QueueChange DEF TypeInv
  <2> DEFINE b == (o.ret = "eof")
  <2>5. b \in BOOLEAN /\ ms' = [popped EXCEPT ![s].init_eof = b]
    BY <2>1
  <2> HIDE DEF b, popped
  <2>6. StreamsOK(ms)'
    BY <1>3, <2>5 DEF StreamsOK, StreamType
  <2> QED BY <2>4, <2>6
<1> QED BY <1>5, <1>6, <1>7

LEMMA FlushType == ASSUME TypeInv, Flush PROVE TypeInv'
<1>1. "fg" \in Everyone /\ "mux" \in Everyone /\ th["fg"].pc = "flush"
  BY DEF Everyone, Tasks, Flush
<1>2. UNCHANGED <<choked, schedule, fg, written, task_failed, next, left, fed, terminate>>
  BY DEF Flush, MainKeep
<1>3. CountersOK'
  BY <1>2, CountersSame DEF TypeInv
<1>4. CASE /\ \E s \in OutStreams :
                 /\ ms[s].pre # <<>> /\ \A r \in 1..(s - 1) : ms[r].pre = <<>>
                 /\ FlushOne(s)
           /\ UNCHANGED <<th, mux_started, mux_ready_lock, opened>>
  <2>1. QueuesOK' /\ StreamsOK(ms)'
    BY <1>4, FlushOneType
  <2>2. ThreadsOK' /\ ScheduleOK' /\ FlagsOK'
    BY <1>2, <1>4 DEF TypeInv, ThreadsOK, ScheduleOK, FlagsOK
  <2> QED BY <1>3, <2>1, <2>2 DEF TypeInv
<1>5. CASE /\ mux_started' = TRUE /\ mux_ready_lock' = Nobody /\ opened' = TRUE
           /\ th' = [th EXCEPT !["fg"].pc = th["fg"].then, !["fg"].then = ""]
           /\ UNCHANGED <<q, ms>>
  <2>1. th["fg"].then \in {"send", "close"}
    BY <1>1 DEF TypeInv, ThreadsOK, HandOK
  <2>2. Moved("fg", th["fg"].then, th["fg"].n, "")
    <3>1. th["fg"].then \in Places
      BY <2>1 DEF Places
    <3> QED BY <1>1, <1>5, <3>1, SetMoves DEF TypeInv
  <2>3. HandOK("fg", th["fg"].then, th["fg"].n, "")
    BY <1>1, <2>1 DEF TypeInv, ThreadsOK, HandOK, Sending
  <2>4. ~fed => SourceOK(th["fg"].then, th["fg"].n, "", next'["fg"])
    BY <1>1, <1>2, <2>1 DEF TypeInv, ThreadsOK, SourceOK, Sending
  <2>5. ThreadsOK'
    BY <1>1, <1>2, <2>2, <2>3, <2>4, MovedOK DEF TypeInv
  <2>6. ScheduleOK'
    BY <1>1, <1>2, <1>5, <2>1, <2>2 DEF TypeInv, ScheduleOK, Moved
  <2>7. FlagsOK'
    BY <1>2, <1>5 DEF TypeInv, FlagsOK
  <2>8. QueuesOK' /\ StreamsOK(ms)'
    BY <1>5 DEF TypeInv, QueuesOK, StreamsOK
  <2> QED BY <1>3, <2>5, <2>6, <2>7, <2>8 DEF TypeInv
<1> QED BY <1>4, <1>5 DEF Flush

LEMMA FgSendType == ASSUME TypeInv, FgSend PROVE TypeInv'
<1>1. /\ "fg" \in Everyone /\ th["fg"].pc = "send" /\ {"close", "recv", "done"} \subseteq Places
      /\ "enc" \in Queues /\ QueueOK(q["enc"], 1..N) /\ ItemsOf("enc") = 1..N /\ 1 \in Streams
  BY DEF Everyone, Tasks, FgSend, Queues, TypeInv, QueuesOK, ItemsOf, Streams, Places
<1>2. HandOK("fg", "send", th["fg"].n, th["fg"].then)
      /\ (~fed => SourceOK("send", th["fg"].n, th["fg"].then, next["fg"]))
  BY <1>1 DEF TypeInv, ThreadsOK
<1>3. th["fg"].n \in 1..N
  BY <1>2, SchedulerAssumption DEF HandOK, Sending, Null
<1>4. PICK o \in Send(q["enc"], 1, th["fg"].n) :
          /\ q' = [q EXCEPT !["enc"] = o.q]
          /\ IF o.ret = "ok"
             THEN /\ fg' = [fg EXCEPT !.got_frame = TRUE]
                  /\ Goto("fg", IF ~fed /\ th["fg"].n = N THEN "close" ELSE "recv")
                  /\ UNCHANGED ended
             ELSE Goto("fg", "done") /\ ended' = ended \cup {"enc"} /\ UNCHANGED fg
  BY DEF FgSend
<1>5. QueuesOK'
  BY <1>1, <1>3, <1>4, SendOK, QueueChange DEF TypeInv
<1>6. FgKeep /\ UNCHANGED next /\ CountersOK'
  BY CountersSame DEF FgSend, TypeInv
<1>7. fg' \in [graph : BOOLEAN, got_frame : BOOLEAN]
  <2>1. UNCHANGED fg \/ fg' = [fg EXCEPT !.got_frame = TRUE]
    BY <1>4
  <2> QED BY <2>1 DEF TypeInv, FlagsOK
<1>8. \E p \in {"close", "recv", "done"} :
          Goto("fg", p) /\ (p = "recv" => fed \/ th["fg"].n # N)
  <2>1. CASE o.ret = "ok" /\ (~fed /\ th["fg"].n = N)
    BY <1>4, <2>1
  <2>2. CASE o.ret = "ok" /\ ~(~fed /\ th["fg"].n = N)
    BY <1>4, <2>2
  <2>3. CASE o.ret # "ok"
    BY <1>4, <2>3
  <2> QED BY <2>1, <2>2, <2>3
<1>9. PICK p \in {"close", "recv", "done"} :
          Goto("fg", p) /\ (p = "recv" => fed \/ th["fg"].n # N)
  BY <1>8
<1>10. Moved("fg", p, th["fg"].n, th["fg"].then)
  BY <1>1, <1>9, GotoMoves DEF TypeInv
<1>11. HandOK("fg", p, th["fg"].n, th["fg"].then)
  BY <1>2 DEF HandOK, Sending
<1>12. ~fed => SourceOK(p, th["fg"].n, th["fg"].then, next["fg"])
  BY <1>2, <1>3, <1>9, SchedulerAssumption DEF SourceOK, Sending
<1> QED BY <1>1, <1>5, <1>6, <1>7, <1>10, <1>11, <1>12, GraphType

LEMMA FgDoneType == ASSUME TypeInv, FgDone PROVE TypeInv'
<1>1. /\ "fg" \in Everyone /\ th["fg"].pc \in {"done", "close"} /\ "last" \in Places
      /\ QueueOK(q["fg"], 1..EofFrame) /\ QueueOK(q["enc"], 1..N)
      /\ DOMAIN q = Queues /\ {"fg", "enc"} \subseteq Queues
      /\ FgInputs \in SUBSET Streams /\ 1 \in Streams
  BY DEF Everyone, Tasks, FgDone, Queues, TypeInv, QueuesOK, ItemsOf, Streams, Places, FgInputs,
         In, Ctl
<1>2. QueuesOK'
  <2> DEFINE a == ReceiveFinish(q["fg"], FgInputs)
             b == SendFinish(q["enc"], 1)
  <2>1. q' = [[q EXCEPT !["fg"] = a] EXCEPT !["enc"] = b]
    BY DEF FgDone
  <2>2. QueueOK(a, 1..EofFrame)
    BY <1>1, ReceiveFinishOK
  <2>3. QueueOK(b, 1..N)
    BY <1>1, SendFinishOK
  <2> HIDE DEF a, b
  <2> QED BY <1>1, <2>1, <2>2, <2>3 DEF TypeInv, QueuesOK, ItemsOf
<1>3. Null \in 0..EofFrame
  BY SchedulerAssumption DEF Null, EofFrame
<1>4. Moved("fg", "last", Null, th["fg"].then)
  <2>1. th' = [th EXCEPT !["fg"].pc = "last", !["fg"].n = Null]
    BY DEF FgDone
  <2> QED BY <1>1, <1>3, <2>1, HandMoves DEF TypeInv
<1>5. HandOK("fg", "last", Null, th["fg"].then)
  BY SchedulerAssumption DEF HandOK, Sending, Null
<1>6. SourceOK("last", Null, th["fg"].then, next'["fg"])
  BY DEF SourceOK, Sending
<1>7. CountersOK' /\ Local /\ UNCHANGED next
  BY CountersSame DEF FgDone, TypeInv
<1> QED BY <1>1, <1>2, <1>4, <1>5, <1>6, <1>7, LocalType

-----------------------------------------------------------------------------
(* The encoder and the muxer.                                              *)

LEMMA EncReceiveType == ASSUME TypeInv, EncReceive PROVE TypeInv'
<1>1. /\ "enc" \in Everyone \ {"fg"} /\ th["enc"].pc = "recv" /\ {"mux", "done"} \subseteq Places
      /\ "enc" \in Queues /\ QueueOK(q["enc"], 1..N) /\ ItemsOf("enc") = 1..N
      /\ {1} \in SUBSET Streams
  BY DEF Everyone, Tasks, EncReceive, Queues, TypeInv, QueuesOK, ItemsOf, Streams, Places
<1>2. PICK o \in Receive(q["enc"], {1}) :
          /\ q' = [q EXCEPT !["enc"] = o.q]
          /\ \/ /\ o.ret = "item"
                /\ th' = IF "mux" \in ended THEN th
                         ELSE [th EXCEPT !["enc"].pc = "mux", !["enc"].n = o.x]
                /\ UNCHANGED left
             \/ o.ret = "item" /\ Incident /\ (Fails("enc", "done") \/ Goto("enc", "done"))
             \/ /\ o.ret = "eof"
                /\ IF opened THEN Goto("enc", "done") ELSE Fails("enc", "done")
                /\ UNCHANGED left
  BY DEF EncReceive
<1>3. QueueOK(o.q, 1..N) /\ (o.ret = "item" => o.x \in 1..N)
  BY <1>1, <1>2, ReceiveOK
<1>4. QueuesOK'
  BY <1>1, <1>2, <1>3, QueueChange DEF TypeInv
<1>5. Local /\ UNCHANGED next
  BY DEF EncReceive
<1>6. CountersOK'
  <2>1. UNCHANGED left \/ Incident
    BY <1>2
  <2> QED BY <1>5, <2>1, CountersSame, IncidentCounts DEF TypeInv
<1>7. HandOK("enc", "recv", th["enc"].n, th["enc"].then)
  BY <1>1 DEF TypeInv, ThreadsOK
<1>8. ASSUME NEW p \in {"mux", "done"}, NEW n \in 0..N, Moved("enc", p, n, th["enc"].then)
      PROVE  TypeInv'
  <2>1. HandOK("enc", p, n, th["enc"].then) /\ p # "set"
    BY <1>8 DEF HandOK
  <2> QED BY <1>1, <1>4, <1>5, <1>6, <1>8, <2>1, OtherType
<1>9. CASE o.ret = "item" /\ th' = [th EXCEPT !["enc"].pc = "mux", !["enc"].n = o.x]
  <2>1. o.x \in 0..N /\ o.x \in 0..EofFrame
    BY <1>3, <1>9, SchedulerAssumption DEF EofFrame
  <2>2. Moved("enc", "mux", o.x, th["enc"].then)
    BY <1>1, <1>9, <2>1, HandMoves DEF TypeInv
  <2> QED BY <1>8, <2>1, <2>2
<1>10. CASE Fails("enc", "done") \/ Goto("enc", "done")
  <2>1. Moved("enc", "done", th["enc"].n, th["enc"].then)
    BY <1>1, <1>10, FailsMoves, GotoMoves DEF TypeInv
  <2> QED BY <1>7, <1>8, <2>1 DEF HandOK
<1>11. CASE UNCHANGED th
  BY <1>4, <1>5, <1>6, <1>11, StillType
<1> QED BY <1>2, <1>9, <1>10, <1>11

LEMMA EncDoneType == ASSUME TypeInv, EncDone PROVE TypeInv'
<1>1. /\ "enc" \in Everyone \ {"fg"} /\ th["enc"].pc = "done"
      /\ "enc" \in Queues /\ QueueOK(q["enc"], 1..N) /\ ItemsOf("enc") = 1..N
      /\ {1} \in SUBSET Streams /\ {"mux", "gone", "exit"} \subseteq Places
  BY DEF Everyone, Tasks, EncDone, Queues, TypeInv, QueuesOK, ItemsOf, Streams, Places
<1>2. QueuesOK'
  <2>1. q' = [q EXCEPT !["enc"] = ReceiveFinish(q["enc"], {1})]
    BY DEF EncDone
  <2> QED BY <1>1, <2>1, ReceiveFinishOK, QueueChange DEF TypeInv
<1>3. Null \in 0..EofFrame
  BY SchedulerAssumption DEF Null, EofFrame
<1> DEFINE p == IF "mux" \in ended THEN Leaves("enc") ELSE "mux"
<1>4. p \in {"mux", "gone", "exit"}
  BY DEF Leaves
<1>5. th' = [th EXCEPT !["enc"].pc = p, !["enc"].n = Null, !["enc"].closing = TRUE]
  BY DEF EncDone
<1> HIDE DEF p
<1>6. Moved("enc", p, Null, th["enc"].then)
  BY <1>1, <1>3, <1>4, <1>5, LastHandMoves DEF TypeInv
<1>7. HandOK("enc", p, Null, th["enc"].then) /\ p # "set"
  BY <1>4, SchedulerAssumption DEF HandOK, Null
<1>8. CountersOK' /\ Local /\ UNCHANGED next
  BY CountersSame DEF EncDone, TypeInv
<1> QED BY <1>1, <1>2, <1>6, <1>7, <1>8, OtherType

LEMMA MuxReceiveType == ASSUME TypeInv, MuxReceive PROVE TypeInv'
<1>1. /\ "mux" \in Everyone /\ th["mux"].pc = "recv" /\ {"done", "finish"} \subseteq Places
      /\ "mux" \in Queues /\ QueueOK(q["mux"], 1..N) /\ ItemsOf("mux") = 1..N
      /\ {1} \in SUBSET Streams /\ OutStreams \in SUBSET Streams
  BY DEF Everyone, Tasks, MuxReceive, Queues, TypeInv, QueuesOK, ItemsOf, Streams, Places,
         OutStreams
<1>2. PICK o \in Receive(q["mux"], OutStreams) :
          \/ /\ o.ret = "item"
             /\ written' = [written EXCEPT ![o.s] = o.x]
             /\ q' = [q EXCEPT !["mux"] = o.q]
             /\ UNCHANGED <<th, left>>
          \/ /\ o.ret = "item" /\ Incident /\ UNCHANGED written
             /\ \/ /\ q' = [q EXCEPT !["mux"] = o.q]
                   /\ (Fails("mux", "done") \/ Goto("mux", "done"))
                \/ /\ o.s = 1
                   /\ q' = [q EXCEPT !["mux"] = ReceiveFinish(o.q, {1})]
                   /\ Goto("mux", "finish")
          \/ /\ o.ret \in {"eof", "again", "end"}
             /\ q' = [q EXCEPT !["mux"] = o.q]
             /\ IF o.ret = "end" THEN Goto("mux", "done") ELSE UNCHANGED th
             /\ UNCHANGED <<written, left>>
  BY DEF MuxReceive
<1>3. /\ QueueOK(o.q, 1..N) /\ QueueOK(ReceiveFinish(o.q, {1}), 1..N)
      /\ (o.ret = "item" => o.s \in Streams /\ o.x \in 1..N)
  BY <1>1, <1>2, ReceiveOK, ReceiveFinishOK
<1>4. QueuesOK'
  <2>1. q' = [q EXCEPT !["mux"] = o.q] \/ q' = [q EXCEPT !["mux"] = ReceiveFinish(o.q, {1})]
    BY <1>2
  <2> QED BY <1>1, <1>3, <2>1, QueueChange DEF TypeInv
<1>5. UNCHANGED <<fed, terminate, task_failed, choked, ms, schedule, mux_started, opened,
                  mux_ready_lock, fg, next>>
  BY DEF MuxReceive, SchedKeep, MainKeep
<1>6. CountersOK'
  <2>1. UNCHANGED left \/ Incident
    BY <1>2
  <2> QED BY <1>5, <2>1, CountersSame, IncidentCounts DEF TypeInv
<1>7. written' \in [OutStreams -> 0..N]
  <2>1. CASE UNCHANGED written
    BY <2>1 DEF TypeInv, FlagsOK
  <2>2. CASE o.ret = "item" /\ written' = [written EXCEPT ![o.s] = o.x]
    <3>1. o.x \in 0..N /\ o.s \in OutStreams
      BY <1>3, <2>2, SchedulerAssumption DEF Streams, OutStreams
    <3> QED BY <2>2, <3>1 DEF TypeInv, FlagsOK
  <2> QED BY <1>2, <2>1, <2>2
<1>8. FlagsOK' /\ StreamsOK(ms)'
  BY <1>5, <1>7 DEF TypeInv, FlagsOK, StreamsOK
<1>9. CASE UNCHANGED th
  <2>1. ThreadsOK' /\ ScheduleOK'
    BY <1>5, <1>9 DEF TypeInv, ThreadsOK, ScheduleOK
  <2> QED BY <1>4, <1>6, <1>8, <2>1 DEF TypeInv
<1>10. ASSUME NEW p \in {"done", "finish"}, Moved("mux", p, th["mux"].n, th["mux"].then)
       PROVE  TypeInv'
  <2>1. HandOK("mux", p, th["mux"].n, th["mux"].then)
    BY <1>1 DEF TypeInv, ThreadsOK, HandOK
  <2>2. ThreadsOK'
    BY <1>1, <1>5, <1>10, <2>1, MovedOK DEF TypeInv
  <2>3. ScheduleOK'
    BY <1>1, <1>5, <1>10, MovedScheduleOK DEF TypeInv
  <2> QED BY <1>4, <1>6, <1>8, <2>2, <2>3 DEF TypeInv
<1>11. CASE Fails("mux", "done")
  BY <1>1, <1>10, <1>11, FailsMoves DEF TypeInv
<1>12. CASE \E p \in {"done", "finish"} : Goto("mux", p)
  BY <1>1, <1>10, <1>12, GotoMoves DEF TypeInv
<1> QED BY <1>2, <1>9, <1>11, <1>12

LEMMA MuxFinishType == ASSUME TypeInv, MuxFinish PROVE TypeInv'
<1> DEFINE m == [ms EXCEPT ![1].source_finished = TRUE]
<1>1. /\ "mux" \in Everyone /\ th["mux"].pc = "finish" /\ "recv" \in Rests
      /\ Update("mux", m, task_exited, "recv")
  BY DEF Everyone, Tasks, MuxFinish, Rests
<1>2. StreamsOK(m)
  BY DEF TypeInv, StreamsOK, StreamType, OutStreams
<1>3. HandOK("mux", "recv", th["mux"].n, th["mux"].then) /\ HandOK("mux", "set", th["mux"].n, "recv")
  BY <1>1 DEF TypeInv, ThreadsOK, HandOK
<1>4. MainKeep /\ MuxKeep /\ UNCHANGED <<task_failed, q, next, left>>
  BY DEF MuxFinish
<1>5. QueuesOK'
  BY <1>4, QueuesSame DEF TypeInv
<1> HIDE DEF m
<1> QED BY <1>1, <1>2, <1>3, <1>4, <1>5, UpdateType

LEMMA MuxDoneType ==
  ASSUME TypeInv, NEW t \in {"mux", "main"}, NEW p \in Rests, MuxDone(t, p),
         th[t].pc \in {"done", "join"}
  PROVE  TypeInv'
<1> DEFINE m == [s \in OutStreams |-> [ms[s] EXCEPT !.source_finished = TRUE]]
<1>1. t \in Everyone /\ Update(t, m, task_exited, p)
  BY DEF Everyone, Tasks, MuxDone
<1>2. StreamsOK(m)
  BY DEF TypeInv, StreamsOK, StreamType
<1>3. HandOK(t, p, th[t].n, th[t].then) /\ HandOK(t, "set", th[t].n, p)
  BY <1>1 DEF TypeInv, ThreadsOK, HandOK, Rests
<1>4. MainKeep /\ MuxKeep /\ UNCHANGED <<task_failed, next, left>>
  BY DEF MuxDone
<1>5. QueuesOK'
  <2>1. q' = [q EXCEPT !["mux"] = ReceiveFinish(q["mux"], OutStreams)]
    BY DEF MuxDone
  <2>2. "mux" \in Queues /\ QueueOK(q["mux"], 1..N) /\ ItemsOf("mux") = 1..N
        /\ OutStreams \in SUBSET Streams
    BY DEF Queues, TypeInv, QueuesOK, ItemsOf, Streams, OutStreams
  <2> QED BY <2>1, <2>2, ReceiveFinishOK, QueueChange DEF TypeInv
<1> HIDE DEF m
<1> QED BY <1>1, <1>2, <1>3, <1>4, <1>5, UpdateType

-----------------------------------------------------------------------------
(* The main thread.                                                        *)

LEMMA StartType == ASSUME TypeInv, Start PROVE TypeInv'
<1>1. /\ "main" \in Everyone /\ th["main"].pc = "start" /\ "run" \in Rests
      /\ Update("main", ms, task_exited, "run")
  BY DEF Everyone, Tasks, Start, Rests
<1>2. HandOK("main", "run", th["main"].n, th["main"].then)
      /\ HandOK("main", "set", th["main"].n, "run")
  BY <1>1 DEF TypeInv, ThreadsOK, HandOK
<1>3. MainKeep /\ MuxKeep /\ UNCHANGED <<task_failed, q, next, left>>
  BY DEF Start
<1>4. QueuesOK' /\ StreamsOK(ms)
  BY <1>3, QueuesSame DEF TypeInv
<1> QED BY <1>1, <1>2, <1>3, <1>4, UpdateType

\* A step of the main thread alone.
LEMMA MainType ==
  ASSUME TypeInv, NEW p \in Places \ {"set"}, Goto("main", p), th["main"].pc # "set", MainLocal,
         terminate' \in BOOLEAN, choked' \in [Waiters -> BOOLEAN], CountersOK'
  PROVE  TypeInv'
<1>1. "main" \in Everyone
  BY DEF Everyone
<1>2. UNCHANGED <<fed, q, ms, mux_started, mux_ready_lock, schedule, task_failed,
                  task_exited, opened, fg, next, written>>
  BY DEF MainLocal
<1>3. Moved("main", p, th["main"].n, th["main"].then)
  BY <1>1, GotoMoves DEF TypeInv
<1>4. HandOK("main", p, th["main"].n, th["main"].then)
  BY <1>1 DEF TypeInv, ThreadsOK, HandOK
<1>5. ThreadsOK'
  BY <1>1, <1>2, <1>3, <1>4, MovedOK DEF TypeInv
<1>6. ScheduleOK'
  BY <1>1, <1>2, <1>3, MovedScheduleOK DEF TypeInv
<1>7. QueuesOK' /\ StreamsOK(ms)' /\ FlagsOK'
  BY <1>2 DEF TypeInv, QueuesOK, StreamsOK, FlagsOK
<1> QED BY <1>5, <1>6, <1>7 DEF TypeInv

LEMMA FinishType == ASSUME TypeInv, Finish \/ UserStops PROVE TypeInv'
<1>1. Goto("main", "stop") /\ th["main"].pc = "run" /\ MainLocal /\ UNCHANGED <<choked, terminate>>
  BY DEF Finish, UserStops
<1>2. CountersOK'
  <2>1. UNCHANGED left \/ Incident
    BY DEF Finish, UserStops
  <2> QED BY <1>1, <2>1, CountersSame, IncidentCounts DEF TypeInv, MainLocal
<1>3. terminate' \in BOOLEAN /\ choked' \in [Waiters -> BOOLEAN]
  BY <1>1 DEF TypeInv, FlagsOK
<1> QED BY <1>1, <1>2, <1>3, MainType DEF Places

LEMMA TerminateType == ASSUME TypeInv, Terminate PROVE TypeInv'
<1>1. /\ Goto("main", "choke_fg") /\ th["main"].pc = "stop" /\ MainLocal
      /\ terminate' = TRUE /\ UNCHANGED <<choked, left>>
  BY DEF Terminate
<1>2. CountersOK'
  BY <1>1, CountersSame DEF TypeInv, MainLocal
<1>3. terminate' \in BOOLEAN /\ choked' \in [Waiters -> BOOLEAN]
  BY <1>1 DEF TypeInv, FlagsOK
<1> QED BY <1>1, <1>2, <1>3, MainType DEF Places

LEMMA ChokeAllType == ASSUME TypeInv, ChokeAll PROVE TypeInv'
<1>1. PICK p \in {"choke_d", "join"}, w \in Waiters :
          Goto("main", p) /\ choked' = [choked EXCEPT ![w] = TRUE]
  BY DEF ChokeAll, Waiters
<1>2. th["main"].pc # "set" /\ MainLocal /\ UNCHANGED <<terminate, left>>
  BY DEF ChokeAll
<1>3. CountersOK'
  BY <1>2, CountersSame DEF TypeInv, MainLocal
<1>4. terminate' \in BOOLEAN
  BY <1>2 DEF TypeInv, FlagsOK
<1>5. choked' \in [Waiters -> BOOLEAN]
  BY <1>1 DEF TypeInv, FlagsOK
<1> QED BY <1>1, <1>2, <1>3, <1>4, <1>5, MainType DEF Places

LEMMA JoinType == ASSUME TypeInv, Join PROVE TypeInv'
<1>1. th["main"].pc = "join"
  BY DEF Join
<1>2. CASE Goto("main", "stopped") /\ MainLocal /\ UNCHANGED <<choked, terminate, left>>
  <2>1. CountersOK'
    BY <1>2, CountersSame DEF TypeInv, MainLocal
  <2>2. terminate' \in BOOLEAN /\ choked' \in [Waiters -> BOOLEAN]
    BY <1>2 DEF TypeInv, FlagsOK
  <2> QED BY <1>1, <1>2, <2>1, <2>2, MainType DEF Places
<1>3. CASE MuxDone("main", "stopped")
  BY <1>1, <1>3, MuxDoneType DEF Rests
<1> QED BY <1>2, <1>3 DEF Join

-----------------------------------------------------------------------------
(* TypeInv holds from the start and is kept by every step.                 *)

LEMMA TypeInit == Init => TypeInv
<1> SUFFICES ASSUME Init
             PROVE  TypeInv
  OBVIOUS
<1>1. ThreadsOK
  <2> DEFINE start(t) == CASE t = "d" -> "read"
                        [] t = "dec" -> IF fed THEN "recv" ELSE "gone"
                        [] t \in {"fg", "enc"} -> "recv"
                        [] t = "mux" -> "none"
                        [] t = "main" -> "start"
  <2>1. \A t \in Everyone : start(t) \in {"read", "recv", "gone", "none", "start"}
    BY DEF Everyone, Tasks
  <2>2. th = [t \in Everyone |-> Thread(start(t))]
    BY DEF Init, Everyone
  <2>3. Null \in 0..EofFrame /\ Null \in 0..N
    BY SchedulerAssumption DEF Null, EofFrame
  <2>4. "fg" \in Everyone /\ start("fg") = "recv" /\ start("d") = "read"
    BY DEF Everyone, Tasks
  <2> HIDE DEF start
  <2>5. th \in [Everyone -> ThreadType]
    BY <2>1, <2>2, <2>3 DEF Thread, ThreadType, Places
  <2>6. \A t \in Everyone : th[t].pc = start(t) /\ th[t].n = Null /\ th[t].then = ""
    BY <2>2 DEF Thread
  <2>7. \A t \in Everyone : HandOK(t, th[t].pc, th[t].n, th[t].then)
    BY <2>1, <2>3, <2>6 DEF HandOK, Sending
  <2>8. SourceOK(th["fg"].pc, th["fg"].n, th["fg"].then, next["fg"])
    <3>1. next["fg"] = 1
      BY DEF Init
    <3>2. th["fg"].pc = "recv"
      BY <2>4, <2>6
    <3>3. 1 <= N
      BY SchedulerAssumption
    <3> QED BY <3>1, <3>2, <3>3 DEF SourceOK, Sending
  <2> QED BY <2>5, <2>7, <2>8 DEF ThreadsOK
<1>2. QueuesOK
  BY EmptyQueueOK DEF Init, QueuesOK
<1>3. StreamsOK(ms)
  <2>1. <<>> \in Seq(0..N) /\ Len(<<>>) <= PreMax /\ 0 \in 0..N
    BY SchedulerAssumption, EmptySeq
  <2> QED BY <2>1 DEF Init, StreamsOK, StreamType, NoDts
<1>4. ScheduleOK
  <2>1. schedule = [by |-> Nobody, todo |-> {}, choke |-> {}]
    BY DEF Init, Idle
  <2>2. \A t \in Everyone : th[t].pc # "set" /\ t # Nobody
    BY DEF Init, Thread, Everyone, Tasks, Nobody
  <2>3. th["mux"].pc = "none"
    BY DEF Init, Thread, Everyone, Tasks
  <2> QED BY <2>1, <2>2, <2>3 DEF ScheduleOK
<1>5. FlagsOK
  <2>1. 0 \in 0..N
    BY SchedulerAssumption
  <2>2. written \in [OutStreams -> 0..N] /\ choked \in [Waiters -> BOOLEAN]
    BY <2>1 DEF Init
  <2>3. fg \in [graph : BOOLEAN, got_frame : BOOLEAN]
    BY DEF Init
  <2> QED BY <2>2, <2>3 DEF Init, FlagsOK
<1>6. CountersOK
  BY SchedulerAssumption DEF Init, CountersOK
<1> QED BY <1>1, <1>2, <1>3, <1>4, <1>5, <1>6 DEF TypeInv

LEMMA TypeNext == TypeInv /\ [Next]_vars => TypeInv'
<1> SUFFICES ASSUME TypeInv, [Next]_vars
             PROVE  TypeInv'
  OBVIOUS
<1>1. CASE Demuxer
  <2>1. "d" \in Senders /\ "d" \in Everyone
    BY DEF Senders, Everyone, Tasks
  <2> QED
    BY <1>1, <2>1, ReadEndType, WaitsType, TerminatedDType, TakeType, SendDecType, DemuxDoneType,
       PreQueueType, PutType, UpdateScheduleType, LastUpdateType, ExitType, WaiterSetType
    DEF Demuxer, SendToMux
<1>2. CASE Decoder
  <2>1. "dec" \in Everyone
    BY DEF Everyone, Tasks
  <2> QED BY <1>2, <2>1, DecReceiveType, DecSendType, DecDoneType, ExitType DEF Decoder
<1>3. CASE FilterGraph
  <2>1. "fg" \in Everyone
    BY DEF Everyone, Tasks
  <2> QED
    BY <1>3, <2>1, FgReceiveType, WaitsType, FgSourceType, TerminatedFgType, EncOpenType, FlushType,
       FgSendType, FgDoneType, LastUpdateType, ExitType, WaiterSetType
    DEF FilterGraph
<1>4. CASE Encoder
  <2>1. "enc" \in Senders /\ "enc" \in Everyone
    BY DEF Senders, Everyone, Tasks
  <2> QED
    BY <1>4, <2>1, EncReceiveType, EncDoneType, PreQueueType, PutType, UpdateScheduleType,
       ExitType, WaiterSetType
    DEF Encoder, SendToMux
<1>5. CASE Muxer
  <2>1. "mux" \in Everyone /\ Leaves("mux") \in Rests
    BY DEF Everyone, Tasks, Leaves, Rests
  <2> QED
    BY <1>5, <2>1, MuxReceiveType, MuxFinishType, MuxDoneType, ExitType, WaiterSetType
    DEF Muxer
<1>6. CASE Main
  <2>1. "main" \in Everyone
    BY DEF Everyone
  <2> QED
    BY <1>6, <2>1, StartType, FinishType, TerminateType, ChokeAllType, JoinType, WaiterSetType
    DEF Main
<1>7. CASE UserStops
  BY <1>7, FinishType
<1>8. CASE UNCHANGED vars
  BY <1>8 DEF vars, TypeInv, ThreadsOK, QueuesOK, StreamsOK, ScheduleOK, FlagsOK, CountersOK
<1> QED
  BY <1>1, <1>2, <1>3, <1>4, <1>5, <1>6, <1>7, <1>8 DEF Next, Threads

LEMMA TypeAlways == Spec => []TypeInv
<1> QED BY TypeInit, TypeNext, PTL DEF Spec

\* Every variable keeps its type and its bound, whatever fails and whenever the
\* user stops: no queue holds more than its size, a stream whose end was told is
\* over for the receiver, and whoever holds the schedule's lock is setting
\* waiters (ffmpeg_sched.c, thread_queue.c).
THEOREM TypeCorrect == Spec => []TypeOK
<1> QED BY TypeAlways, TypeInvImplies, PTL

-----------------------------------------------------------------------------
(* The muxer's queue implements a channel for each of its streams.         *)

\* A step of StreamChannel, or none, from b, c, r to b2, c2, r2.
ChannelStep(items, b, c, r, b2, c2, r2) ==
    \/ c = "open" /\ r = "open" /\ (\E x \in items : b2 = Append(b, x)) /\ c2 = c /\ r2 = r
    \/ b # <<>> /\ r = "open" /\ b2 = Tail(b) /\ c2 = c /\ r2 = r
    \/ c = "open" /\ c2 = "closed" /\ b2 = b /\ r2 = r
    \/ c = "closed" /\ b = <<>> /\ r = "open" /\ r2 = "ended" /\ b2 = b /\ c2 = c
    \/ r = "open" /\ r2 = "gone" /\ b2 = <<>> /\ c2 = c
    \/ b2 = b /\ c2 = c /\ r2 = r

\* What becomes of stream s when a queue k becomes l.
StreamStep(items, k, l, s) ==
    ChannelStep({s} \X items, Pending(k, s), Sender(k, s), Receiver(k, s),
                Pending(l, s), Sender(l, s), Receiver(l, s))

\* A stream that a change of the queue does not concern.
LEMMA SameStream ==
  ASSUME NEW items, NEW k, NEW l, NEW s, Pending(l, s) = Pending(k, s),
         s \in l.send <=> s \in k.send, s \in l.recv <=> s \in k.recv,
         s \in l.told <=> s \in k.told
  PROVE  StreamStep(items, k, l, s)
BY DEF StreamStep, ChannelStep, Sender, Receiver

LEMMA SendFinishIsStep ==
  ASSUME NEW items, NEW k, QueueOK(k, items), NEW s \in Streams, NEW r \in Streams
  PROVE  StreamStep(items, k, SendFinish(k, s), r)
<1> DEFINE l == SendFinish(k, s)
<1>1. l.fifo = k.fifo /\ l.send = k.send \cup {s} /\ l.recv = k.recv /\ l.told = k.told
  BY DEF SendFinish, QueueOK, QueueType
<1> HIDE DEF l
<1>2. Pending(l, r) = Pending(k, r) /\ Receiver(l, r) = Receiver(k, r)
  BY <1>1 DEF Pending, Receiver
<1>3. CASE r \in k.send \/ r # s
  <2>1. r \in l.send <=> r \in k.send
    BY <1>1, <1>3
  <2>2. StreamStep(items, k, l, r)
    BY <1>1, <1>2, <2>1, SameStream
  <2> QED BY <2>2 DEF l
<1>4. CASE r \notin k.send /\ r = s
  <2>1. Sender(k, r) = "open" /\ Sender(l, r) = "closed"
    BY <1>1, <1>4 DEF Sender
  <2>2. StreamStep(items, k, l, r)
    BY <1>2, <2>1 DEF StreamStep, ChannelStep
  <2> QED BY <2>2 DEF l
<1> QED BY <1>3, <1>4

\* The receiver ends the streams S, after it has received from them maybe.
LEMMA ReceiveFinishIsStep ==
  ASSUME NEW items, NEW k, QueueOK(k, items), NEW S \in SUBSET Streams, NEW r \in Streams
  PROVE  StreamStep(items, k, ReceiveFinish(k, S), r)
<1> DEFINE l == ReceiveFinish(k, S)
<1>1. l.fifo = k.fifo /\ l.send = k.send /\ l.recv = k.recv \cup S /\ l.told = k.told
  BY DEF ReceiveFinish, QueueOK, QueueType
<1>2. k.told \subseteq k.recv
  BY DEF QueueOK
<1> HIDE DEF l
<1>3. CASE r \in k.recv \/ r \notin S
  <2>1. (r \in l.recv <=> r \in k.recv) /\ Pending(l, r) = Pending(k, r)
    BY <1>1, <1>3 DEF Pending
  <2>2. StreamStep(items, k, l, r)
    BY <1>1, <2>1, SameStream
  <2> QED BY <2>2 DEF l
<1>4. CASE r \notin k.recv /\ r \in S
  <2>1. Receiver(k, r) = "open" /\ Receiver(l, r) = "gone" /\ Pending(l, r) = <<>>
    BY <1>1, <1>2, <1>4 DEF Receiver, Pending
  <2>2. Sender(l, r) = Sender(k, r)
    BY <1>1 DEF Sender
  <2>3. StreamStep(items, k, l, r)
    BY <2>1, <2>2 DEF StreamStep, ChannelStep
  <2> QED BY <2>3 DEF l
<1> QED BY <1>3, <1>4

LEMMA SendIsStep ==
  ASSUME NEW items, NEW k, QueueOK(k, items), NEW s \in Streams, NEW x \in items,
         NEW o \in Send(k, s, x), NEW r \in Streams
  PROVE  StreamStep(items, k, o.q, r)
<1>1. CASE s \in k.send
  <2>1. o.q = k
    BY <1>1 DEF Send
  <2> QED BY <2>1, SameStream
<1>2. CASE s \notin k.send /\ s \in k.recv
  <2>1. o = [ret |-> "eof", q |-> [k EXCEPT !.send = @ \cup {s}]]
    BY <1>2 DEF Send
  <2>2. o.q = SendFinish(k, s)
    BY <2>1 DEF SendFinish
  <2> QED BY <2>2, SendFinishIsStep
<1>3. CASE s \notin k.send /\ s \notin k.recv
  <2> DEFINE e == <<s, x>>
             l == o.q
  <2>1. o = [ret |-> "ok", q |-> [k EXCEPT !.fifo = Append(@, e)]]
    BY <1>3 DEF Send
  <2>2. e \in {s} \X items /\ e \in Streams \X items /\ e[1] = s
    OBVIOUS
  <2>3. k.fifo \in Seq(Streams \X items) /\ k.told \subseteq k.recv
    BY DEF QueueOK, QueueType
  <2>4. /\ l.fifo = Append(k.fifo, e)
        /\ l.send = k.send /\ l.recv = k.recv /\ l.told = k.told
    BY <2>1 DEF QueueOK, QueueType
  <2> HIDE DEF e, l
  <2>5. OfStream(l.fifo, r) =
            IF r = s THEN Append(OfStream(k.fifo, r), e) ELSE OfStream(k.fifo, r)
    <3>1. OfStream(Append(k.fifo, e), r) =
              IF e[1] = r THEN Append(OfStream(k.fifo, r), e) ELSE OfStream(k.fifo, r)
      <4> DEFINE S == Streams \X items
                 f == k.fifo
      <4>1. f \in Seq(S) /\ e \in S
        BY <2>2, <2>3
      <4> HIDE DEF S, f
      <4>2. OfStream(Append(f, e), r) = IF e[1] = r THEN Append(OfStream(f, r), e)
                                        ELSE OfStream(f, r)
        BY <4>1, OfStreamAppend
      <4> QED BY <4>2 DEF f
    <3> QED BY <2>2, <2>4, <3>1
  <2>6. CASE r = s
    <3>1. Pending(l, r) = Append(Pending(k, r), e)
      BY <1>3, <2>4, <2>5, <2>6 DEF Pending
    <3>2. /\ Sender(k, r) = "open" /\ Receiver(k, r) = "open"
          /\ Sender(l, r) = "open" /\ Receiver(l, r) = "open"
      BY <1>3, <2>3, <2>4, <2>6 DEF Sender, Receiver
    <3>3. StreamStep(items, k, l, r)
      BY <2>2, <2>6, <3>1, <3>2 DEF StreamStep, ChannelStep
    <3> QED BY <3>3 DEF l
  <2>7. CASE r # s
    <3>1. Pending(l, r) = Pending(k, r)
      BY <2>4, <2>5, <2>7 DEF Pending
    <3>2. StreamStep(items, k, l, r)
      BY <2>4, <3>1, SameStream
    <3> QED BY <3>2 DEF l
  <2> QED BY <2>6, <2>7
<1> QED BY <1>1, <1>2, <1>3

\* Stream r is not among the first j items of a queue.
Without(k, r, j) == r \notin k.recv => \A i \in 1..j : k.fifo[i][1] # r

\* l is what is left of k without them.
LEMMA BehindIsSame ==
  ASSUME NEW items, NEW k, QueueOK(k, items), NEW r, NEW j \in 0..Len(k.fifo),
         Without(k, r, j),
         NEW l, l.fifo = Rest(k, j + 1), r \in l.recv <=> r \in k.recv
  PROVE  Pending(l, r) = Pending(k, r)
<1>1. k.fifo \in Seq(Streams \X items)
  BY DEF QueueOK, QueueType
<1>2. CASE r \in k.recv
  BY <1>2 DEF Pending
<1>3. CASE r \notin k.recv
  <2>1. OfStream(SubSeq(k.fifo, j + 1, Len(k.fifo)), r) = OfStream(k.fifo, r)
    BY <1>1, <1>3, OfStreamBehind DEF Without
  <2> QED BY <1>3, <2>1 DEF Pending, Rest
<1> QED BY <1>2, <1>3

\* A live item is received: the first one of its stream.
LEMMA ItemIsStep ==
  ASSUME NEW items, NEW k, QueueOK(k, items), FirstLive(k) <= Len(k.fifo), NEW r \in Streams,
         NEW l, l = [k EXCEPT !.fifo = Rest(k, FirstLive(k) + 1)]
  PROVE  /\ r # k.fifo[FirstLive(k)][1] => Pending(l, r) = Pending(k, r)
         /\ StreamStep(items, k, l, r)
<1> DEFINE j == FirstLive(k)
           s == k.fifo[j][1]
<1>1. /\ k.fifo \in Seq(Streams \X items) /\ Len(k.fifo) \in Nat /\ k.told \subseteq k.recv
      /\ l.fifo = Rest(k, j + 1) /\ l.send = k.send /\ l.recv = k.recv /\ l.told = k.told
  BY LenProperties DEF QueueOK, QueueType
<1>2. /\ j \in 1..(Len(k.fifo) + 1) /\ j <= Len(k.fifo) /\ s \notin k.recv
      /\ \A i \in 1..(j - 1) : k.fifo[i][1] \in k.recv
  BY FirstLiveIs
<1> HIDE DEF j, s
<1>3. j \in 1..Len(k.fifo) /\ j \in 0..Len(k.fifo)
  BY <1>1, <1>2
<1>4. CASE r # s
  <2>1. Without(k, r, j)
    <3> SUFFICES ASSUME r \notin k.recv, NEW i \in 1..j
                 PROVE  k.fifo[i][1] # r
      BY DEF Without
    <3>1. i \in 1..(j - 1) \/ i = j
      BY <1>3
    <3> QED BY <1>2, <1>4, <3>1 DEF s
  <2>2. Pending(l, r) = Pending(k, r)
    BY <1>1, <1>3, <2>1, BehindIsSame
  <2> QED BY <1>1, <2>2, SameStream
<1>5. CASE r = s
  <2>1. FirstOf(k.fifo, r, j)
    BY <1>2, <1>5 DEF FirstOf, s
  <2>2. /\ OfStream(k.fifo, r) # <<>>
        /\ Tail(OfStream(k.fifo, r)) = OfStream(SubSeq(k.fifo, j + 1, Len(k.fifo)), r)
    BY <1>1, <1>3, <2>1, OfStreamFirst
  <2>3. Pending(k, r) # <<>> /\ Pending(l, r) = Tail(Pending(k, r))
    BY <1>1, <1>2, <1>5, <2>2 DEF Pending, Rest
  <2>4. Receiver(k, r) = "open" /\ Receiver(l, r) = "open" /\ Sender(l, r) = Sender(k, r)
    BY <1>1, <1>2, <1>5 DEF Receiver, Sender
  <2> QED BY <1>5, <2>3, <2>4 DEF StreamStep, ChannelStep, s, j
<1> QED BY <1>4, <1>5 DEF s, j

\* Nothing live is in the queue: its items are dropped, and the end of one
\* stream may be told.
LEMMA DropIsStep ==
  ASSUME NEW items, NEW k, QueueOK(k, items), FirstLive(k) > Len(k.fifo), NEW r \in Streams,
         NEW T, T \subseteq k.send \ k.recv, NEW l,
         l.fifo = Rest(k, FirstLive(k)), l.send = k.send,
         l.recv = k.recv \cup T, l.told = k.told \cup T
  PROVE  StreamStep(items, k, l, r)
<1> DEFINE n == Len(k.fifo)
<1>1. /\ k.fifo \in Seq(Streams \X items) /\ n \in Nat /\ k.told \subseteq k.recv
      /\ l.fifo = Rest(k, FirstLive(k)) /\ l.send = k.send
      /\ l.recv = k.recv \cup T /\ l.told = k.told \cup T
  BY LenProperties DEF QueueOK, QueueType
<1>2. FirstLive(k) = n + 1 /\ \A i \in 1..n : k.fifo[i][1] \in k.recv
  <2>1. /\ FirstLive(k) \in 1..(n + 1)
        /\ \A i \in 1..(FirstLive(k) - 1) : k.fifo[i][1] \in k.recv
    BY FirstLiveIs
  <2>2. FirstLive(k) = n + 1 /\ FirstLive(k) - 1 = n
    BY <1>1, <2>1
  <2> QED BY <2>1, <2>2
<1>3. n \in 0..n /\ l.fifo = Rest(k, n + 1)
  BY <1>1, <1>2
<1>4. Without(k, r, n)
  BY <1>2 DEF Without
<1>5. CASE r \notin T
  <2>1. (r \in l.recv <=> r \in k.recv) /\ (r \in l.told <=> r \in k.told)
    BY <1>1, <1>5
  <2>2. Pending(l, r) = Pending(k, r)
    BY <1>1, <1>3, <1>4, <2>1, BehindIsSame
  <2> QED BY <1>1, <2>1, <2>2, SameStream
<1>6. CASE r \in T
  <2>1. OfStream(k.fifo, r) = <<>>
    BY <1>1, <1>4, <1>6, OfStreamNone DEF Without
  <2>2. Pending(k, r) = <<>> /\ Pending(l, r) = <<>>
    BY <1>1, <1>6, <2>1 DEF Pending
  <2>3. Receiver(k, r) = "open" /\ Receiver(l, r) = "ended"
        /\ Sender(k, r) = "closed" /\ Sender(l, r) = "closed"
    BY <1>1, <1>6 DEF Receiver, Sender
  <2> QED BY <2>2, <2>3 DEF StreamStep, ChannelStep
<1> QED BY <1>5, <1>6

LEMMA ReceiveIsStep ==
  ASSUME NEW items, NEW k, QueueOK(k, items), NEW streams, NEW o \in Receive(k, streams),
         NEW r \in Streams
  PROVE  /\ StreamStep(items, k, o.q, r)
         /\ o.ret = "item" => /\ o.s \notin k.recv
                              /\ o.q.send = k.send /\ o.q.recv = k.recv /\ o.q.told = k.told
                              /\ r # o.s => Pending(o.q, r) = Pending(k, r)
<1> DEFINE j == FirstLive(k)
           dropped == [k EXCEPT !.fifo = Rest(k, j)]
           over == k.send \ k.recv
           s == CHOOSE t \in over : \A u \in over : t <= u
<1>1. /\ k \in QueueType(items) /\ Len(k.fifo) \in Nat /\ j \in 1..(Len(k.fifo) + 1)
      /\ (j <= Len(k.fifo) => k.fifo[j][1] \notin k.recv)
  BY LenProperties, FirstLiveIs DEF QueueOK, QueueType
<1>2. CASE j <= Len(k.fifo)
  <2>1. o = Outcome("item", k.fifo[j][1], k.fifo[j][2], [k EXCEPT !.fifo = Rest(k, j + 1)])
    BY <1>2 DEF Receive
  <2> DEFINE l == [k EXCEPT !.fifo = Rest(k, FirstLive(k) + 1)]
  <2>2. o.s = k.fifo[FirstLive(k)][1] /\ o.q = l
    BY <2>1 DEF Outcome
  <2>3. l.send = k.send /\ l.recv = k.recv /\ l.told = k.told
    BY <1>1 DEF QueueType
  <2>4. /\ r # k.fifo[FirstLive(k)][1] => Pending(l, r) = Pending(k, r)
        /\ StreamStep(items, k, l, r)
    BY <1>2, ItemIsStep
  <2> HIDE DEF l
  <2> QED BY <1>1, <1>2, <2>2, <2>3, <2>4
<1>3. CASE ~(j <= Len(k.fifo)) /\ over # {}
  <2>1. o = Outcome("eof", s, 0, [dropped EXCEPT !.recv = @ \cup {s}, !.told = @ \cup {s}])
    BY <1>3 DEF Receive
  <2>2. s \in over
    <3>1. over \subseteq Streams
      BY <1>1 DEF QueueType
    <3> HIDE DEF over
    <3> QED BY <1>3, <3>1, LeastStream
  <2> HIDE DEF s
  <2>3. /\ o.q.fifo = Rest(k, FirstLive(k)) /\ o.q.send = k.send
        /\ o.q.recv = k.recv \cup {s} /\ o.q.told = k.told \cup {s}
    <3>1. o.q = [dropped EXCEPT !.recv = @ \cup {s}, !.told = @ \cup {s}]
      BY <2>1 DEF Outcome
    <3> QED BY <1>1, <3>1 DEF QueueType
  <2>4. {s} \subseteq k.send \ k.recv /\ FirstLive(k) > Len(k.fifo)
    BY <1>1, <1>3, <2>2
  <2>5. StreamStep(items, k, o.q, r)
    BY <2>3, <2>4, DropIsStep
  <2> QED BY <2>1, <2>5 DEF Outcome
<1>4. CASE ~(j <= Len(k.fifo)) /\ over = {}
  <2>1. o = Outcome("end", 0, 0, dropped) \/ o = Outcome("again", 0, 0, dropped)
    BY <1>4 DEF Receive
  <2>2. /\ o.q.fifo = Rest(k, FirstLive(k)) /\ o.q.send = k.send
        /\ o.q.recv = k.recv \cup {} /\ o.q.told = k.told \cup {}
    BY <1>1, <2>1 DEF QueueType, Outcome
  <2>3. {} \subseteq k.send \ k.recv /\ FirstLive(k) > Len(k.fifo)
    BY <1>1, <1>4
  <2>4. StreamStep(items, k, o.q, r)
    BY <2>2, <2>3, DropIsStep
  <2> QED BY <2>1, <2>4 DEF Outcome
<1> QED BY <1>2, <1>3, <1>4

\* The receiver takes an item and ends its stream with it.
LEMMA CutIsStep ==
  ASSUME NEW items, NEW k, QueueOK(k, items), NEW streams, NEW o \in Receive(k, streams),
         o.ret = "item", o.s \in Streams, QueueOK(o.q, items), NEW r \in Streams
  PROVE  StreamStep(items, k, ReceiveFinish(o.q, {o.s}), r)
<1> DEFINE m == o.q
           l == ReceiveFinish(m, {o.s})
<1>1. /\ o.s \notin k.recv /\ m.send = k.send /\ m.recv = k.recv /\ m.told = k.told
      /\ r # o.s => Pending(m, r) = Pending(k, r)
  BY ReceiveIsStep
<1>2. /\ l.fifo = m.fifo /\ l.send = m.send /\ l.recv = m.recv \cup {o.s} /\ l.told = m.told
      /\ k.told \subseteq k.recv
  BY DEF ReceiveFinish, QueueOK, QueueType
<1> HIDE DEF l, m
<1>3. CASE r # o.s
  <2>1. Pending(l, r) = Pending(m, r) /\ (r \in l.recv <=> r \in k.recv)
    BY <1>1, <1>2, <1>3 DEF Pending
  <2>2. StreamStep(items, k, l, r)
    BY <1>1, <1>2, <1>3, <2>1, SameStream
  <2> QED BY <2>2 DEF l, m
<1>4. CASE r = o.s
  <2>1. Receiver(k, r) = "open" /\ Receiver(l, r) = "gone" /\ Pending(l, r) = <<>>
    BY <1>1, <1>2, <1>4 DEF Receiver, Pending
  <2>2. Sender(l, r) = Sender(k, r)
    BY <1>1, <1>2 DEF Sender
  <2>3. StreamStep(items, k, l, r)
    BY <2>1, <2>2 DEF StreamStep, ChannelStep
  <2> QED BY <2>3 DEF l, m
<1> QED BY <1>3, <1>4

-----------------------------------------------------------------------------
\* The queue of the muxer, of which a step is to be a step of each channel.
Channelled == \A r \in Streams : StreamStep(1..N, q["mux"], q'["mux"], r)

LEMMA OtherQueue == ASSUME q'["mux"] = q["mux"] PROVE Channelled
BY SameStream DEF Channelled

LEMMA MuxQueue ==
  ASSUME TypeInv
  PROVE  /\ QueueOK(q["mux"], 1..N)
         /\ \A v : [q EXCEPT !["mux"] = v]["mux"] = v
         /\ \A v : \A k \in Queues \ {"mux"} : [q EXCEPT ![k] = v]["mux"] = q["mux"]
BY DEF TypeInv, QueuesOK, Queues, ItemsOf

LEMMA PutChannelled == ASSUME TypeInv, NEW t \in Senders, Put(t) PROVE Channelled
<1> DEFINE s == StreamOf(t)
<1>1. s \in Streams /\ t \in Everyone
  BY DEF StreamOf, Streams, Senders, Everyone, Tasks
<1>2. CASE th[t].n = Null
  <2>1. q' = [q EXCEPT !["mux"] = SendFinish(@, s)]
    BY <1>2 DEF Put
  <2>2. q'["mux"] = SendFinish(q["mux"], s)
    BY <2>1, MuxQueue
  <2> HIDE DEF s
  <2> QED BY <1>1, <2>2, MuxQueue, SendFinishIsStep DEF Channelled
<1>3. CASE th[t].n # Null /\ ms[s].init_eof
  <2>1. UNCHANGED q
    BY <1>3 DEF Put
  <2> QED BY <2>1, OtherQueue
<1>4. CASE th[t].n # Null /\ ~ms[s].init_eof
  <2>1. PICK o \in Send(q["mux"], s, th[t].n) : q' = [q EXCEPT !["mux"] = o.q]
    BY <1>4 DEF Put
  <2>2. q'["mux"] = o.q
    BY <2>1, MuxQueue
  <2>3. th[t].n \in 1..N
    <3>1. th[t].n \in 0..N
      BY <1>1 DEF TypeInv, ThreadsOK, HandOK, Senders
    <3> QED BY <1>4, <3>1, SchedulerAssumption DEF Null
  <2>4. QueueOK(q["mux"], 1..N)
    BY MuxQueue
  <2> DEFINE x == th[t].n
  <2> HIDE DEF s, x
  <2>5. \A r \in Streams : StreamStep(1..N, q["mux"], o.q, r)
    BY <1>1, <2>1, <2>3, <2>4, SendIsStep, Zenon DEF x
  <2> QED BY <2>2, <2>5 DEF Channelled
<1> QED BY <1>2, <1>3, <1>4

LEMMA FlushChannelled == ASSUME TypeInv, Flush PROVE Channelled
<1>1. CASE UNCHANGED q
  BY <1>1, OtherQueue
<1>2. ASSUME NEW s \in OutStreams, ms[s].pre # <<>>, FlushOne(s)
      PROVE  Channelled
  <2> DEFINE x == Head(ms[s].pre)
  <2>1. x \in 0..N /\ s \in Streams
    <3>1. ms[s].pre \in Seq(0..N)
      BY DEF TypeInv, StreamsOK, StreamType
    <3> QED BY <1>2, <3>1, HeadTailProperties DEF OutStreams, Streams
  <2>2. CASE x = Null
    <3>1. q' = [q EXCEPT !["mux"] = SendFinish(@, s)]
      BY <1>2, <2>2 DEF FlushOne
    <3>2. q'["mux"] = SendFinish(q["mux"], s)
      BY <3>1, MuxQueue
    <3> QED BY <2>1, <3>2, MuxQueue, SendFinishIsStep DEF Channelled
  <2>3. CASE x # Null /\ ms[s].init_eof
    BY <1>1, <1>2, <2>3 DEF FlushOne
  <2>4. CASE x # Null /\ ~ms[s].init_eof
    <3>1. PICK o \in Send(q["mux"], s, x) : q' = [q EXCEPT !["mux"] = o.q]
      BY <1>2, <2>4 DEF FlushOne
    <3>2. q'["mux"] = o.q
      BY <3>1, MuxQueue
    <3>3. x \in 1..N
      BY <2>1, <2>4, SchedulerAssumption DEF Null
    <3> HIDE DEF x
    <3> QED BY <2>1, <3>1, <3>2, <3>3, MuxQueue, SendIsStep DEF Channelled
  <2> QED BY <2>2, <2>3, <2>4
<1> QED BY <1>1, <1>2 DEF Flush

LEMMA MuxReceiveChannelled == ASSUME TypeInv, MuxReceive PROVE Channelled
<1>1. PICK o \in Receive(q["mux"], OutStreams) :
          \/ q' = [q EXCEPT !["mux"] = o.q]
          \/ o.ret = "item" /\ o.s = 1 /\ q' = [q EXCEPT !["mux"] = ReceiveFinish(o.q, {1})]
  BY DEF MuxReceive
<1>2. QueueOK(q["mux"], 1..N) /\ QueueOK(o.q, 1..N) /\ 1 \in Streams
  BY <1>1, MuxQueue, ReceiveOK DEF Streams, OutStreams
<1>3. CASE q' = [q EXCEPT !["mux"] = o.q]
  <2>1. q'["mux"] = o.q
    BY <1>3, MuxQueue
  <2> QED BY <1>1, <1>2, <2>1, ReceiveIsStep DEF Channelled
<1>4. CASE /\ o.ret = "item" /\ o.s = 1
           /\ q' = [q EXCEPT !["mux"] = ReceiveFinish(o.q, {1})]
  <2>1. q'["mux"] = ReceiveFinish(o.q, {o.s})
    BY <1>4, MuxQueue
  <2>2. \A r \in Streams : StreamStep(1..N, q["mux"], ReceiveFinish(o.q, {o.s}), r)
    BY <1>1, <1>2, <1>4, CutIsStep, Zenon
  <2> QED BY <2>1, <2>2 DEF Channelled
<1> QED BY <1>1, <1>3, <1>4

LEMMA MuxDoneChannelled == ASSUME TypeInv, NEW t, NEW pc, MuxDone(t, pc) PROVE Channelled
<1>1. q' = [q EXCEPT !["mux"] = ReceiveFinish(@, OutStreams)]
  BY DEF MuxDone
<1>2. q'["mux"] = ReceiveFinish(q["mux"], OutStreams) /\ OutStreams \in SUBSET Streams
  BY <1>1, MuxQueue DEF OutStreams, Streams
<1> QED BY <1>2, MuxQueue, ReceiveFinishIsStep DEF Channelled

LEMMA StepChannelled == ASSUME TypeInv, [Next]_vars PROVE Channelled
<1>1. ASSUME UNCHANGED q
      PROVE  Channelled
  BY <1>1, OtherQueue
<1>2. CASE \E t \in Everyone : WaiterSet(t) \/ Exit(t) \/ LastUpdate(t) \/ Waits(t)
                               \/ PreQueue(t) \/ UpdateSchedule(t)
  BY <1>1, <1>2 DEF WaiterSet, Exit, LastUpdate, Waits, PreQueue, UpdateSchedule
<1>3. CASE \E t \in Senders : Put(t)
  BY <1>3, PutChannelled
<1>4. CASE ReadEnd \/ TerminatedD \/ Take \/ FgSource \/ TerminatedFg \/ EncOpen \/ MuxFinish
           \/ Start \/ Finish \/ UserStops \/ Terminate \/ ChokeAll
  BY <1>1, <1>4 DEF ReadEnd, TerminatedD, Take, FgSource, TerminatedFg, EncOpen, MuxFinish,
                    Start, Finish, UserStops, Terminate, ChokeAll, MainLocal
<1>5. CASE SendDec \/ DemuxDone \/ DecReceive \/ DecSend \/ DecDone \/ FgReceive \/ FgSend
           \/ FgDone \/ EncReceive \/ EncDone
  <2>1. \/ q' = q
        \/ \E v : \E k \in Queues \ {"mux"} : q' = [q EXCEPT ![k] = v]
        \/ \E v, w : \E k, j \in Queues \ {"mux"} : q' = [q EXCEPT ![k] = v, ![j] = w]
    <3>1. CASE SendDec \/ DecReceive \/ DecSend \/ FgReceive \/ FgSend \/ EncReceive \/ EncDone
      BY <3>1 DEF SendDec, DecReceive, DecSend, FgReceive, FgSend, EncReceive, EncDone, Queues
    <3>2. CASE DemuxDone \/ DecDone \/ FgDone
      BY <3>2 DEF DemuxDone, DecDone, FgDone, Queues
    <3> QED BY <1>5, <3>1, <3>2
  <2> QED BY <2>1, OtherQueue DEF TypeInv, QueuesOK, Queues
<1>6. CASE Flush \/ MuxReceive \/ \E t, pc : MuxDone(t, pc)
  BY <1>6, FlushChannelled, MuxReceiveChannelled, MuxDoneChannelled
<1>7. CASE Join
  BY <1>1, <1>6, <1>7 DEF Join, MainLocal
<1>8. CASE UNCHANGED vars
  BY <1>1, <1>8 DEF vars
<1>9. {"d", "fg", "dec", "enc", "mux", "main"} \subseteq Everyone /\ {"d", "enc"} \subseteq Senders
  BY DEF Everyone, Tasks, Senders
<1>10. CASE Demuxer \/ Encoder
  BY <1>2, <1>3, <1>4, <1>5, <1>9, <1>10 DEF Demuxer, Encoder, SendToMux
<1>11. CASE Decoder \/ FilterGraph
  BY <1>2, <1>4, <1>5, <1>6, <1>9, <1>11 DEF Decoder, FilterGraph
<1>12. CASE Muxer \/ Main \/ UserStops
  BY <1>2, <1>4, <1>6, <1>7, <1>9, <1>12 DEF Muxer, Main
<1> QED BY <1>8, <1>10, <1>11, <1>12 DEF Next, Threads

\* Each stream of the muxer's queue behaves as a channel of its own, whatever
\* happens to the other one: its items come out in their order, each one once,
\* its end is told behind the last one, and only the muxer's own end of the
\* stream drops any (thread_queue.c).
THEOREM QueueImplementsChannels == Spec => QueueIsChannels
<1>1. Init => Channel1!ChannelInit /\ Channel2!ChannelInit
  <2> SUFFICES ASSUME Init
               PROVE  Channel1!ChannelInit /\ Channel2!ChannelInit
    OBVIOUS
  <2>1. q["mux"] = EmptyQueue
    BY DEF Init, Queues
  <2>2. \A s : OfStream(<<>>, s) = <<>>
    <3> SUFFICES ASSUME NEW s
                 PROVE  OfStream(<<>>, s) = <<>>
      OBVIOUS
    <3>1. <<>> \in Seq(Nat) /\ \A k \in 1..Len(<<>>) : <<>>[k][1] # s
      OBVIOUS
    <3> QED BY <3>1, OfStreamNone
  <2>3. \A s : Pending(q["mux"], s) = <<>> /\ Sender(q["mux"], s) = "open"
               /\ Receiver(q["mux"], s) = "open"
    BY <2>1, <2>2 DEF Pending, Sender, Receiver, EmptyQueue
  <2> QED BY <2>3 DEF Channel1!ChannelInit, Channel2!ChannelInit
<1>2. ASSUME TypeInv, [Next]_vars
      PROVE  [Channel1!Put \/ Channel1!Get \/ Channel1!Close \/ Channel1!End
                \/ Channel1!Leave]_(Channel1!chan)
  <2>1. StreamStep(1..N, q["mux"], q'["mux"], 1)
    BY <1>2, StepChannelled DEF Channelled, Streams
  <2> QED
    BY <2>1 DEF StreamStep, ChannelStep, Channel1!Put, Channel1!Get, Channel1!Close, Channel1!End,
                Channel1!Leave, Channel1!chan
<1>3. ASSUME TypeInv, [Next]_vars
      PROVE  [Channel2!Put \/ Channel2!Get \/ Channel2!Close \/ Channel2!End
                \/ Channel2!Leave]_(Channel2!chan)
  <2>1. StreamStep(1..N, q["mux"], q'["mux"], 2)
    BY <1>3, StepChannelled DEF Channelled, Streams
  <2> QED
    BY <2>1 DEF StreamStep, ChannelStep, Channel2!Put, Channel2!Get, Channel2!Close, Channel2!End,
                Channel2!Leave, Channel2!chan
<1> QED
  BY <1>1, <1>2, <1>3, TypeAlways, PTL
  DEF Spec, QueueIsChannels, Channel1!ChannelSpec, Channel2!ChannelSpec

-----------------------------------------------------------------------------
(* Two sources stay together. While both streams are under way, the waiters*)
(* are what the schedule's last computation says, or are about to be; the  *)
(* packets of a stream are consecutive from its source to the muxer.       *)

Racing == ~fed /\ ~terminate /\ Unfinished(ms) = OutStreams

Dts(m, s) == m[s].last_dts

At(pc, then, p) == pc = p \/ (pc = "set" /\ then = p)
InHand(pc, n) == pc \in {"mux", "update"} /\ n # Null

\* The sources that are asked to go on.
Asked(m) == {IF s = 2 THEN "fg" ELSE "d" : s \in NotAhead(m)}

\* A source that may go on is not ahead. The demuxer waits until its own
\* update is through; the filtergraph may pass while the encoder's is not.
Gate(sch, ch, m) ==
    /\ sch.by # Nobody => sch.choke = Waiters \ Asked(m)
    /\ \A w \in Waiters \ sch.todo : ch[w] <=> w \notin Asked(m)
    /\ ~ch["d"] /\ sch.by # "d" => Dts(m, 1) < Dts(m, 2) + Tolerance
    /\ ~ch["fg"] /\ sch.by # "enc" => Dts(m, 2) < Dts(m, 1) + Tolerance
    /\ ~ch["fg"] => Dts(m, 2) <= Dts(m, 1) + Tolerance

\* The demuxer's packet is the next one of its stream, which is its only one.
Copied(pc, n, then, nxt, l1, l2) ==
    /\ pc # "dec" /\ l1 <= l2 + Tolerance
    /\ pc = "wait" \/ At(pc, then, "read") => nxt = l1 + 1
    /\ InHand(pc, n) => n = l1 + 1 /\ nxt = l1 + 2 /\ n <= l2 + Tolerance

\* The encoder has received r frames; the queue has the ones behind, and the
\* filtergraph the one behind these.
Chain(r, pc, n, then, fpc, fthen, fifo, nxt, l2) ==
    /\ r \in Nat /\ l2 <= r /\ r <= l2 + 1
    /\ \A i \in 1..Len(fifo) : fifo[i][2] = r + i
    /\ pc \in {"recv", "set"} => r = l2
    /\ InHand(pc, n) => n = r /\ r = l2 + 1
    /\ r + Len(fifo) < nxt
    /\ fpc \in {"recv", "wait"} => r + Len(fifo) + 1 = nxt
    /\ Sending(fpc, fthen) => r + Len(fifo) + 2 = nxt

\* An encoder that goes on takes from its queue, and its stream is not ended.
Coding(pc, n, then, closing, recv, started, muxEnded) ==
    /\ At(pc, then, "recv") \/ InHand(pc, n) => recv = {}
    /\ pc = "mux" /\ n = Null => closing \/ started
    /\ muxEnded => pc \in {"exit", "gone"}

GateOK == Gate(schedule, choked, ms)
MainOK == th["main"].pc \notin {"choke_fg", "choke_d"}
CopiedOK == Copied(th["d"].pc, th["d"].n, th["d"].then, next["d1"], Dts(ms, 1), Dts(ms, 2))
ChainOK == \E r \in Nat : Chain(r, th["enc"].pc, th["enc"].n, th["enc"].then, th["fg"].pc,
                                th["fg"].then, q["enc"].fifo, next["fg"], Dts(ms, 2))
CodingOK == Coding(th["enc"].pc, th["enc"].n, th["enc"].then, th["enc"].closing,
                   q["enc"].recv, mux_started, "mux" \in ended)
AheadOK == next["fg"] <= Dts(ms, 1) + Tolerance + QueueSize + 2

Lead == GateOK /\ MainOK /\ CopiedOK /\ ChainOK /\ CodingOK /\ AheadOK
LeadInv == Racing => Lead

LEMMA DtsType ==
  ASSUME TypeInv
  PROVE  /\ Dts(ms, 1) \in 0..N /\ Dts(ms, 2) \in 0..N /\ next["fg"] \in 1..(N + 1)
         /\ next["d1"] \in 1..(N + 1) /\ N \in Nat /\ QueueSize \in Nat /\ Tolerance \in Nat
         /\ Tolerance >= 1
BY SchedulerAssumption, QueueSizeAssumption
DEF TypeInv, StreamsOK, StreamType, OutStreams, CountersOK, Dts

LEMMA LeadBounded == TypeInv /\ LeadInv => BoundedLead
<1> SUFFICES ASSUME TypeInv, Racing, Lead
             PROVE  \A s, r \in OutStreams :
                        ms[s].last_dts - ms[r].last_dts <= Tolerance + OnTheWay(s)
  BY DEF LeadInv, BoundedLead, Racing
<1>1. Dts(ms, 1) <= Dts(ms, 2) + Tolerance
  BY DEF Lead, CopiedOK, Copied
<1>2. PICK r \in Nat : Dts(ms, 2) <= r /\ r + Len(q["enc"].fifo) < next["fg"]
  BY DEF Lead, ChainOK, Chain
<1>3. Len(q["enc"].fifo) \in Nat
  BY LenProperties DEF TypeInv, QueuesOK, QueueOK, QueueType, Queues
<1>4. next["fg"] <= Dts(ms, 1) + Tolerance + QueueSize + 2
  BY DEF Lead, AheadOK
<1>5. Dts(ms, 2) <= Dts(ms, 1) + Tolerance + QueueSize + 1
  <2> DEFINE l1 == Dts(ms, 1)
             l2 == Dts(ms, 2)
             n == next["fg"]
             k == Len(q["enc"].fifo)
  <2>1. l1 \in Nat /\ l2 \in Nat /\ n \in Nat /\ QueueSize \in Nat /\ Tolerance \in Nat
    BY DtsType
  <2>2. k \in Nat /\ l2 <= r /\ r + k < n /\ n <= l1 + Tolerance + QueueSize + 2
    BY <1>2, <1>3, <1>4
  <2> HIDE DEF l1, l2, n, k
  <2>3. l2 <= l1 + Tolerance + QueueSize + 1
    BY <2>1, <2>2
  <2> QED BY <2>3 DEF l1, l2
<1> QED BY <1>1, <1>5, DtsType DEF OnTheWay, OutStreams, Dts

-----------------------------------------------------------------------------
(* The gate.                                                               *)

\* Streams that differ in nothing the schedule looks at.
SameDts(m, l) == \A s \in OutStreams : m[s].last_dts = l[s].last_dts
                                       /\ m[s].source_finished = l[s].source_finished

TrailingOf(dts) == IF dts = {} THEN NoDts ELSE CHOOSE x \in dts : \A y \in dts : x <= y

LEMMA SameAsked ==
  ASSUME NEW m, NEW l, SameDts(m, l)
  PROVE  Asked(m) = Asked(l) /\ Dts(m, 1) = Dts(l, 1) /\ Dts(m, 2) = Dts(l, 2)
<1>1. Unfinished(m) = Unfinished(l)
  BY DEF SameDts, Unfinished
<1>2. {m[s].last_dts : s \in Unfinished(m)} = {l[s].last_dts : s \in Unfinished(l)}
  BY <1>1 DEF SameDts, Unfinished
<1>3. trailing_dts(m) = trailing_dts(l)
  <2>1. trailing_dts(m) = TrailingOf({m[s].last_dts : s \in Unfinished(m)})
    BY DEF trailing_dts, TrailingOf
  <2>2. trailing_dts(l) = TrailingOf({l[s].last_dts : s \in Unfinished(l)})
    BY DEF trailing_dts, TrailingOf
  <2> QED BY <1>2, <2>1, <2>2
<1>4. NotAhead(m) = NotAhead(l)
  BY <1>1, <1>3 DEF NotAhead, SameDts, Unfinished
<1> QED BY <1>4 DEF Asked, SameDts, OutStreams, Dts

\* The schedule asks only sources whose stream is not too far ahead.
LEMMA AskedIsBehind ==
  ASSUME NEW m, StreamsOK(m), ~fed, Unfinished(m) = OutStreams,
         NEW e
  PROVE  /\ ChokedNext(m, e) = Waiters \ Asked(m)
         /\ "d" \in Asked(m) => Dts(m, 1) < Dts(m, 2) + Tolerance
         /\ "fg" \in Asked(m) => Dts(m, 2) < Dts(m, 1) + Tolerance
<1> DEFINE l1 == m[1].last_dts
           l2 == m[2].last_dts
           x == trailing_dts(m)
<1>1. l1 \in Nat /\ l2 \in Nat /\ Tolerance \in Nat /\ Tolerance >= 1
  BY SchedulerAssumption DEF StreamsOK, StreamType, OutStreams
<1>2. x \in {l1, l2} /\ x <= l1 /\ x <= l2
  <2>1. {m[s].last_dts : s \in Unfinished(m)} = {l1, l2}
    BY DEF OutStreams
  <2>2. x = CHOOSE z \in {l1, l2} : \A y \in {l1, l2} : z <= y
    BY <2>1 DEF trailing_dts
  <2>3. \E z \in {l1, l2} : \A y \in {l1, l2} : z <= y
    BY <1>1
  <2> QED BY <2>2, <2>3
<1> HIDE DEF x
<1>3. \A s \in OutStreams : s \in NotAhead(m) <=>
          IF x = 0 THEN m[s].last_dts = 0 ELSE m[s].last_dts - x < Tolerance
  BY DEF NotAhead, x, NoDts
<1>4. SourceOf(1) = "d" /\ SourceOf(2) = "fg" /\ OutStreams = {1, 2}
  BY DEF SourceOf, OutStreams
<1>5. NotAhead(m) \subseteq OutStreams
  BY DEF NotAhead
<1>6. NotAhead(m) # {}
  <2>1. CASE x = l1
    BY <1>1, <1>3, <1>4, <2>1
  <2>2. CASE x = l2
    BY <1>1, <1>3, <1>4, <2>2
  <2> QED BY <1>2, <2>1, <2>2
<1>7. ChokedNext(m, e) = Waiters \ Asked(m)
  <2>1. {SourceOf(s) : s \in NotAhead(m)} = Asked(m)
    BY DEF SourceOf, Asked
  <2>2. Asked(m) # {}
    BY <1>6 DEF Asked
  <2> QED BY <2>1, <2>2 DEF ChokedNext
<1>8. ASSUME "d" \in Asked(m)
      PROVE  Dts(m, 1) < Dts(m, 2) + Tolerance
  <2>1. 1 \in NotAhead(m)
    BY <1>4, <1>5, <1>8 DEF Asked
  <2> QED BY <1>1, <1>2, <1>3, <1>4, <2>1 DEF Dts
<1>9. ASSUME "fg" \in Asked(m)
      PROVE  Dts(m, 2) < Dts(m, 1) + Tolerance
  <2>1. 2 \in NotAhead(m)
    BY <1>4, <1>5, <1>9 DEF Asked
  <2> QED BY <1>1, <1>2, <1>3, <1>4, <2>1 DEF Dts
<1> QED BY <1>7, <1>8, <1>9

LEMMA GateSame ==
  ASSUME GateOK, UNCHANGED <<schedule, choked>>, SameDts(ms', ms)
  PROVE  GateOK'
<1>1. Asked(ms') = Asked(ms) /\ Dts(ms', 1) = Dts(ms, 1) /\ Dts(ms', 2) = Dts(ms, 2)
  BY SameAsked
<1> QED BY <1>1 DEF GateOK, Gate

\* schedule_update_locked() by thread t, of the streams m.
LEMMA GateUpdate ==
  ASSUME TypeInv, Lead, Racing, NEW m, StreamsOK(m), Unfinished(m) = OutStreams,
         NEW t \in Everyone, NEW e, NEW p, Update(t, m, e, p),
         t # "d" => Dts(m, 1) = Dts(ms, 1), Dts(ms, 1) <= Dts(m, 1),
         t # "enc" => Dts(m, 2) = Dts(ms, 2),
         Dts(ms, 2) <= Dts(m, 2), Dts(m, 2) <= Dts(ms, 2) + 1
  PROVE  GateOK'
<1> DEFINE choke == ChokedNext(m, e)
           todo == {w \in Waiters : choked[w] # (w \in choke)}
<1>1. schedule.by = Nobody /\ ms' = m /\ UNCHANGED choked
  BY DEF Update
<1>2. /\ choke = Waiters \ Asked(m)
      /\ "d" \in Asked(m) => Dts(m, 1) < Dts(m, 2) + Tolerance
      /\ "fg" \in Asked(m) => Dts(m, 2) < Dts(m, 1) + Tolerance
  BY AskedIsBehind DEF Racing
<1>3. /\ "d" \in Asked(ms) => Dts(ms, 1) < Dts(ms, 2) + Tolerance
      /\ "fg" \in Asked(ms) => Dts(ms, 2) < Dts(ms, 1) + Tolerance
  BY AskedIsBehind DEF TypeInv, Racing
<1>4. /\ choked["d"] <=> "d" \notin Asked(ms)
      /\ choked["fg"] <=> "fg" \notin Asked(ms)
      /\ choked \in [Waiters -> BOOLEAN]
  BY <1>1 DEF Lead, GateOK, Gate, TypeInv, ScheduleOK, FlagsOK, Waiters
<1>5. /\ Dts(m, 1) \in Nat /\ Dts(m, 2) \in Nat /\ Dts(ms, 1) \in Nat /\ Dts(ms, 2) \in Nat
      /\ Tolerance \in Nat
  BY DtsType DEF StreamsOK, StreamType, OutStreams, Dts
<1>6. ~choked["fg"] => Dts(m, 2) <= Dts(m, 1) + Tolerance
  BY <1>3, <1>4, <1>5
<1>7. /\ ~choked["d"] /\ t # "d" => Dts(m, 1) < Dts(m, 2) + Tolerance
      /\ ~choked["fg"] /\ t # "enc" => Dts(m, 2) < Dts(m, 1) + Tolerance
  BY <1>3, <1>4, <1>5
<1>8. CASE todo = {}
  <2>1. UNCHANGED schedule
    BY <1>8 DEF Update
  <2>2. \A w \in Waiters : choked[w] <=> w \in choke
    BY <1>4, <1>8
  <2>3. /\ ~choked["d"] => Dts(m, 1) < Dts(m, 2) + Tolerance
        /\ ~choked["fg"] => Dts(m, 2) < Dts(m, 1) + Tolerance
    BY <1>2, <2>2 DEF Waiters
  <2> QED BY <1>1, <1>2, <1>6, <2>1, <2>2, <2>3 DEF GateOK, Gate
<1>9. CASE todo # {}
  <2>1. schedule' = [by |-> t, todo |-> todo, choke |-> choke]
    BY <1>9 DEF Update, Racing
  <2>2. \A w \in Waiters \ todo : choked[w] <=> w \in choke
    BY <1>4
  <2> HIDE DEF todo, choke
  <2> QED BY <1>1, <1>2, <1>6, <1>7, <2>1, <2>2 DEF GateOK, Gate
<1> QED BY <1>8, <1>9

LEMMA GateWaiterSet ==
  ASSUME TypeInv, Lead, Racing, NEW t \in Everyone, WaiterSet(t)
  PROVE  GateOK'
<1> DEFINE w == IF "d" \in schedule.todo THEN "d" ELSE "fg"
           rest == schedule.todo \ {w}
<1>1. th[t].pc = "set" /\ schedule.by = t /\ t # Nobody
  BY DEF WaiterSet, TypeInv, ScheduleOK, Nobody, Everyone, Tasks
<1>2. w \in Waiters /\ UNCHANGED ms /\ choked \in [Waiters -> BOOLEAN]
      /\ choked' = [choked EXCEPT ![w] = (w \in schedule.choke)]
  BY DEF Waiters, WaiterSet, TypeInv, FlagsOK
<1>3. /\ "d" \in Asked(ms) => Dts(ms, 1) < Dts(ms, 2) + Tolerance
      /\ "fg" \in Asked(ms) => Dts(ms, 2) < Dts(ms, 1) + Tolerance
  BY AskedIsBehind DEF TypeInv, Racing
<1>4. /\ schedule.choke = Waiters \ Asked(ms)
      /\ \A v \in Waiters \ schedule.todo : choked[v] <=> v \notin Asked(ms)
      /\ ~choked["d"] /\ schedule.by # "d" => Dts(ms, 1) < Dts(ms, 2) + Tolerance
      /\ ~choked["fg"] /\ schedule.by # "enc" => Dts(ms, 2) < Dts(ms, 1) + Tolerance
      /\ ~choked["fg"] => Dts(ms, 2) <= Dts(ms, 1) + Tolerance
  BY <1>1 DEF Lead, GateOK, Gate
<1>5. \/ rest = {} /\ schedule'.by = Nobody /\ schedule'.todo = {}
      \/ rest # {} /\ schedule'.by = t /\ schedule'.todo = rest /\ schedule'.choke = schedule.choke
  BY <1>1 DEF WaiterSet, Idle, TypeInv, ScheduleOK
<1>6. schedule'.todo = rest
  BY <1>5
<1>7. \A v \in Waiters \ rest : choked'[v] <=> v \notin Asked(ms)
  <2> HIDE DEF w
  <2> SUFFICES ASSUME NEW v \in Waiters \ rest
               PROVE  choked'[v] <=> v \notin Asked(ms)
    OBVIOUS
  <2>1. CASE v = w
    BY <1>2, <1>4, <2>1
  <2>2. CASE v # w
    BY <1>2, <1>4, <2>2
  <2> QED BY <2>1, <2>2
<1>8. ~choked'["fg"] => Dts(ms, 2) <= Dts(ms, 1) + Tolerance
  <2>1. CASE w = "fg"
    <3>1. ~choked'["fg"] => "fg" \in Asked(ms)
      BY <1>2, <1>4, <2>1 DEF Waiters
    <3> QED BY <1>3, <3>1, DtsType
  <2>2. CASE w = "d"
    <3>1. choked'["fg"] = choked["fg"]
      BY <1>2, <2>2 DEF Waiters
    <3> QED BY <1>4, <3>1
  <2> QED BY <2>1, <2>2
<1>9. ~choked'["d"] /\ schedule'.by # "d" => Dts(ms, 1) < Dts(ms, 2) + Tolerance
  <2>1. CASE "d" \notin rest
    BY <1>3, <1>7, <2>1 DEF Waiters
  <2>2. CASE "d" \in rest
    BY <2>2
  <2> QED BY <2>1, <2>2
<1>10. ~choked'["fg"] /\ schedule'.by # "enc" => Dts(ms, 2) < Dts(ms, 1) + Tolerance
  <2>1. CASE "fg" \notin rest
    BY <1>3, <1>7, <2>1 DEF Waiters
  <2>2. CASE "fg" \in rest
    <3>1. choked'["fg"] = choked["fg"]
      BY <1>2, <2>2 DEF Waiters
    <3>2. schedule'.by = schedule.by
      BY <1>1, <1>5, <2>2
    <3> QED BY <1>4, <3>1, <3>2
  <2> QED BY <2>1, <2>2
<1> HIDE DEF rest, w
<1> QED BY <1>2, <1>4, <1>5, <1>6, <1>7, <1>8, <1>9, <1>10 DEF GateOK, Gate

-----------------------------------------------------------------------------
(* Steps that begin no packet, no frame and no turn of the loops.          *)

Reading(pc, then) == pc = "wait" \/ At(pc, then, "read")

CalmD ==
    /\ Reading(th'["d"].pc, th'["d"].then) => Reading(th["d"].pc, th["d"].then)
    /\ InHand(th'["d"].pc, th'["d"].n) => InHand(th["d"].pc, th["d"].n) /\ th'["d"].n = th["d"].n
    /\ th'["d"].pc = "dec" => th["d"].pc = "dec"

CalmEnc ==
    /\ th'["enc"].pc \in {"recv", "set"} => th["enc"].pc \in {"recv", "set"}
    /\ InHand(th'["enc"].pc, th'["enc"].n)
         => InHand(th["enc"].pc, th["enc"].n) /\ th'["enc"].n = th["enc"].n

CalmFg ==
    /\ th'["fg"].pc \in {"recv", "wait"} => th["fg"].pc \in {"recv", "wait"}
    /\ Sending(th'["fg"].pc, th'["fg"].then) => Sending(th["fg"].pc, th["fg"].then)

LEMMA Unmoved ==
  /\ th'["d"] = th["d"] => CalmD
  /\ th'["enc"] = th["enc"] => CalmEnc
  /\ th'["fg"] = th["fg"] => CalmFg
BY DEF CalmD, CalmEnc, CalmFg

\* A thread at a place where nothing is said of it.
Quiet == {"done", "last", "exit", "gone", "close", "run", "stop", "stopped"}

LEMMA QuietCalm ==
  /\ th'["d"].pc \in Quiet => CalmD
  /\ th'["enc"].pc \in Quiet => CalmEnc
  /\ th'["fg"].pc \in Quiet => CalmFg
BY DEF CalmD, CalmEnc, CalmFg, Quiet, Reading, At, InHand, Sending

LEMMA CopiedKept ==
  ASSUME CopiedOK, CalmD, next'["d1"] = next["d1"], SameDts(ms', ms)
  PROVE  CopiedOK'
<1>1. Dts(ms', 1) = Dts(ms, 1) /\ Dts(ms', 2) = Dts(ms, 2)
  BY DEF SameDts, OutStreams, Dts
<1> QED BY <1>1 DEF CopiedOK, Copied, CalmD, Reading

LEMMA ChainKept ==
  ASSUME ChainOK, CalmEnc, CalmFg, next'["fg"] = next["fg"], q'["enc"].fifo = q["enc"].fifo,
         Dts(ms', 2) = Dts(ms, 2)
  PROVE  ChainOK'
<1>1. PICK r \in Nat : Chain(r, th["enc"].pc, th["enc"].n, th["enc"].then, th["fg"].pc,
                             th["fg"].then, q["enc"].fifo, next["fg"], Dts(ms, 2))
  BY DEF ChainOK
<1>2. Chain(r, th'["enc"].pc, th'["enc"].n, th'["enc"].then, th'["fg"].pc,
            th'["fg"].then, q'["enc"].fifo, next'["fg"], Dts(ms', 2))
  BY <1>1 DEF Chain, CalmEnc, CalmFg
<1> QED BY <1>2 DEF ChainOK

\* An encoder that stays where it is.
LEMMA CodingSame ==
  ASSUME CodingOK, th'["enc"] = th["enc"], q'["enc"].recv = q["enc"].recv,
         mux_started => mux_started', "mux" \in ended' => "mux" \in ended
  PROVE  CodingOK'
BY DEF CodingOK, Coding

LEMMA LeadKept ==
  ASSUME Lead, UNCHANGED <<schedule, choked, next>>, SameDts(ms', ms), CalmD, CalmEnc, CalmFg,
         q'["enc"].fifo = q["enc"].fifo, MainOK', CodingOK'
  PROVE  Lead'
<1>1. Dts(ms', 1) = Dts(ms, 1) /\ Dts(ms', 2) = Dts(ms, 2)
  BY DEF SameDts, OutStreams, Dts
<1>2. GateOK' /\ CopiedOK'
  BY GateSame, CopiedKept DEF Lead
<1>3. ChainOK'
  BY <1>1, ChainKept DEF Lead
<1>4. AheadOK'
  BY <1>1 DEF Lead, AheadOK
<1> QED BY <1>2, <1>3, <1>4 DEF Lead

\* A step of thread t that ends at p.
LEMMA MainKept ==
  ASSUME MainOK, NEW t, NEW p, NEW n, NEW x, t \in Everyone, Moved(t, p, n, x),
         p \notin {"choke_fg", "choke_d"}
  PROVE  MainOK'
<1>1. "main" \in Everyone
  BY DEF Everyone
<1> QED BY <1>1 DEF MainOK, Moved

\* The schedule is as it was, and of the threads that matter only the demuxer
\* moves, to p.
LEMMA DemuxerLead ==
  ASSUME TypeInv, Lead, NEW p, NEW n, NEW x, Moved("d", p, n, x), CalmD,
         UNCHANGED <<schedule, choked, next, mux_started>>, SameDts(ms', ms),
         q'["enc"] = q["enc"], "mux" \in ended' => "mux" \in ended
  PROVE  Lead'
<1>1. {"d", "enc", "fg", "main"} \subseteq Everyone
  BY DEF Everyone, Tasks
<1>2. th'["enc"] = th["enc"] /\ th'["fg"] = th["fg"] /\ th'["main"] = th["main"]
  BY <1>1 DEF Moved
<1>3. MainOK' /\ CodingOK'
  BY <1>2, CodingSame DEF Lead, MainOK
<1> QED BY <1>2, <1>3, LeadKept, Unmoved

LEMMA FilterGraphLead ==
  ASSUME TypeInv, Lead, NEW p, NEW n, NEW x, Moved("fg", p, n, x), CalmFg,
         UNCHANGED <<schedule, choked, next>>, mux_started => mux_started', SameDts(ms', ms),
         q'["enc"].fifo = q["enc"].fifo, q'["enc"].recv = q["enc"].recv,
         "mux" \in ended' => "mux" \in ended
  PROVE  Lead'
<1>1. {"d", "enc", "fg", "main"} \subseteq Everyone
  BY DEF Everyone, Tasks
<1>2. th'["enc"] = th["enc"] /\ th'["d"] = th["d"] /\ th'["main"] = th["main"]
  BY <1>1 DEF Moved
<1>3. MainOK' /\ CodingOK'
  BY <1>2, CodingSame DEF Lead, MainOK
<1> QED BY <1>2, <1>3, LeadKept, Unmoved

LEMMA EncoderLead ==
  ASSUME TypeInv, Lead, NEW p, NEW n, NEW x, Moved("enc", p, n, x), CalmEnc,
         UNCHANGED <<schedule, choked, next>>, SameDts(ms', ms),
         q'["enc"].fifo = q["enc"].fifo, CodingOK'
  PROVE  Lead'
<1>1. {"d", "enc", "fg", "main"} \subseteq Everyone
  BY DEF Everyone, Tasks
<1>2. th'["fg"] = th["fg"] /\ th'["d"] = th["d"] /\ th'["main"] = th["main"]
  BY <1>1 DEF Moved
<1>3. MainOK'
  BY <1>2 DEF Lead, MainOK
<1> QED BY <1>2, <1>3, LeadKept, Unmoved

\* None of the three moves.
LEMMA AsideLead ==
  ASSUME TypeInv, Lead, th'["d"] = th["d"], th'["enc"] = th["enc"], th'["fg"] = th["fg"],
         MainOK', UNCHANGED <<schedule, choked, next, mux_started>>, SameDts(ms', ms),
         q'["enc"] = q["enc"], "mux" \in ended' => "mux" \in ended
  PROVE  Lead'
<1>1. CodingOK'
  BY CodingSame DEF Lead
<1> QED BY <1>1, LeadKept, Unmoved

-----------------------------------------------------------------------------
(* The steps one by one, first those of the schedule.                      *)

LEMMA SameDtsOf == ASSUME UNCHANGED ms PROVE SameDts(ms', ms)
BY DEF SameDts

LEMMA EncQueue ==
  ASSUME TypeInv
  PROVE  /\ q["enc"].fifo \in Seq(Streams \X (1..N)) /\ Len(q["enc"].fifo) \in Nat
         /\ QueueOK(q["enc"], 1..N)
         /\ \A v : \A k \in Queues \ {"enc"} : [q EXCEPT ![k] = v]["enc"] = q["enc"]
         /\ \A v : [q EXCEPT !["enc"] = v]["enc"] = v
BY LenProperties DEF TypeInv, QueuesOK, QueueOK, QueueType, ItemsOf, Queues

\* Where the thread of an update is afterwards.
LEMMA UpdateMoves ==
  ASSUME TypeInv, NEW t \in Everyone, NEW m, StreamsOK(m), NEW e, NEW p \in Rests,
         Update(t, m, e, p), th[t].pc # "set", t = "mux" => th[t].pc # "none",
         UNCHANGED <<opened, mux_ready_lock>>
  PROVE  /\ ms' = m
         /\ \E pc, x : /\ Moved(t, pc, th[t].n, x)
                       /\ pc = p \/ (pc = "set" /\ x = p)
                       /\ p \in Rests
<1>1. \/ Moved(t, p, th[t].n, th[t].then)
      \/ Moved(t, "set", th[t].n, p)
  BY UpdateOK
<1> QED BY <1>1 DEF Update

\* An update of streams that have not moved, by a thread that then is at p.
LEMMA SameUpdateLead ==
  ASSUME TypeInv, Lead, Racing, NEW t \in {"d", "fg", "main"}, NEW e,
         NEW p \in {"gone", "exit", "run"},
         Update(t, ms, e, p), th[t].pc # "set", MuxKeep, UNCHANGED <<q, ended, next>>
  PROVE  Lead'
<1>1. StreamsOK(ms) /\ t \in Everyone /\ p \in Rests
  BY DEF TypeInv, Everyone, Tasks, Rests
<1>2. GateOK'
  <2>1. Dts(ms, 1) <= Dts(ms, 1) /\ Dts(ms, 2) <= Dts(ms, 2) /\ Dts(ms, 2) <= Dts(ms, 2) + 1
    BY DtsType
  <2> QED BY <1>1, <2>1, GateUpdate DEF Racing
<1>3. PICK pc, x : Moved(t, pc, th[t].n, x) /\ (pc = p \/ (pc = "set" /\ x = p)) /\ ms' = ms
  BY <1>1, UpdateMoves DEF MuxKeep
<1>4. {"d", "enc", "fg", "main"} \subseteq Everyone
  BY DEF Everyone, Tasks
<1>5. CalmD /\ CalmFg /\ th'["enc"] = th["enc"]
  <2>1. \A u \in Everyone \ {t} : th'[u] = th[u]
    BY <1>3 DEF Moved
  <2>2. ASSUME t = "d"
        PROVE  CalmD
    BY <1>3, <2>2 DEF CalmD, Moved, Reading, At, InHand
  <2>3. ASSUME t = "fg"
        PROVE  CalmFg
    BY <1>3, <2>3 DEF CalmFg, Moved, Sending
  <2> QED BY <1>4, <2>1, <2>2, <2>3, Unmoved
<1>6. MainOK'
  BY <1>1, <1>3, MainKept DEF Lead
<1>7. CodingOK'
  BY <1>5, CodingSame DEF Lead, MuxKeep
<1>8. SameDts(ms', ms) /\ Dts(ms', 1) = Dts(ms, 1) /\ Dts(ms', 2) = Dts(ms, 2)
  BY <1>3 DEF SameDts
<1>9. CopiedOK' /\ ChainOK' /\ AheadOK'
  BY <1>5, <1>8, CopiedKept, ChainKept, Unmoved DEF Lead, AheadOK
<1> QED BY <1>2, <1>6, <1>7, <1>9 DEF Lead

LEMMA LastUpdateLead ==
  ASSUME TypeInv, Lead, Racing, NEW t \in {"d", "fg"}, LastUpdate(t)
  PROVE  Lead'
<1>1. Leaves(t) \in {"gone", "exit", "run"}
  BY DEF Leaves
<1> QED BY <1>1, SameUpdateLead DEF LastUpdate

LEMMA StartLead == ASSUME TypeInv, Lead, Racing, Start PROVE Lead'
BY SameUpdateLead DEF Start

LEMMA WaiterSetLead ==
  ASSUME TypeInv, Lead, Racing, NEW t \in Everyone, WaiterSet(t)
  PROVE  Lead'
<1>1. GateOK'
  BY GateWaiterSet
<1>2. th[t].pc = "set" /\ th[t].then \in Rests /\ (t = "fg" => th[t].then \in {"gone", "exit"})
  BY DEF WaiterSet, TypeInv, ThreadsOK, HandOK
<1>3. \/ UNCHANGED th
      \/ Moved(t, th[t].then, th[t].n, "")
  <2>1. \/ UNCHANGED th
        \/ th' = [th EXCEPT ![t].pc = th[t].then, ![t].then = ""]
    BY DEF WaiterSet
  <2>2. th[t].then \in Places
    BY <1>2 DEF Rests, Places
  <2> QED BY <2>1, <2>2, SetMoves DEF TypeInv
<1>4. {"d", "enc", "fg", "main"} \subseteq Everyone /\ UNCHANGED <<ms, q, ended, next, mux_started>>
  BY DEF Everyone, Tasks, WaiterSet, MuxKeep
<1>5. SameDts(ms', ms) /\ Dts(ms', 1) = Dts(ms, 1) /\ Dts(ms', 2) = Dts(ms, 2)
  BY <1>4 DEF SameDts
<1>6. CASE UNCHANGED th
  BY <1>1, <1>4, <1>5, <1>6, CopiedKept, ChainKept, CodingSame, Unmoved DEF Lead, AheadOK, MainOK
<1>7. CASE Moved(t, th[t].then, th[t].n, "")
  <2>1. /\ \A u \in Everyone \ {t} : th'[u] = th[u]
        /\ th'[t].pc = th[t].then /\ th'[t].n = th[t].n /\ th'[t].then = ""
    BY <1>7 DEF Moved
  <2>2. CalmD /\ CalmEnc /\ CalmFg
    <3>1. ASSUME t = "d"
          PROVE  CalmD
      BY <1>2, <2>1, <3>1 DEF CalmD, Reading, At, InHand, Rests
    <3>2. ASSUME t = "enc"
          PROVE  CalmEnc
      BY <1>2, <2>1, <3>2 DEF CalmEnc, At, InHand, Rests
    <3>3. ASSUME t = "fg"
          PROVE  CalmFg
      BY <1>2, <2>1, <3>3 DEF CalmFg, Sending
    <3> QED BY <1>4, <2>1, <3>1, <3>2, <3>3, Unmoved
  <2>3. MainOK'
    BY <1>2, <1>7, MainKept DEF Lead, Rests
  <2>4. CodingOK'
    <3>1. CASE t # "enc"
      BY <1>4, <2>1, <3>1, CodingSame DEF Lead
    <3>2. CASE t = "enc"
      BY <1>2, <1>4, <2>1, <3>2 DEF Lead, CodingOK, Coding, At, InHand, Rests
    <3> QED BY <3>1, <3>2
  <2> QED BY <1>1, <1>4, <1>5, <2>2, <2>3, <2>4, CopiedKept, ChainKept DEF Lead, AheadOK
<1> QED BY <1>3, <1>6, <1>7

\* The demuxer's packet becomes known to the schedule.
LEMMA UpdateScheduleDLead ==
  ASSUME TypeInv, Lead, Racing, Racing', UpdateSchedule("d")
  PROVE  Lead'
<1> DEFINE n == th["d"].n
           m == [ms EXCEPT ![1].last_dts = n]
           p == Resume("d")
<1>1. {"d", "enc", "fg", "main"} \subseteq Everyone /\ "d" \in Senders
  BY DEF Everyone, Tasks, Senders
<1>2. /\ th["d"].pc = "update" /\ MuxKeep /\ UNCHANGED <<q, next>> /\ ended' = EndedBy("d")
  BY DEF UpdateSchedule
<1>3. n # Null
  <2> SUFFICES ASSUME n = Null
               PROVE  FALSE
    OBVIOUS
  <2>1. ms' = [ms EXCEPT ![1].source_finished = TRUE]
    BY DEF UpdateSchedule, Update, StreamOf
  <2>2. ms'[1].source_finished
    BY <2>1 DEF TypeInv, StreamsOK, StreamType, OutStreams
  <2> QED BY <2>2 DEF Racing, Unfinished, OutStreams
<1>4. Update("d", m, task_exited, p) /\ p \in Rests /\ ended' = ended
  BY <1>1, <1>2, <1>3, ResumeRests DEF UpdateSchedule, StreamOf, EndedBy
<1>5. /\ n = Dts(ms, 1) + 1 /\ next["d1"] = Dts(ms, 1) + 2 /\ n <= Dts(ms, 2) + Tolerance
      /\ n \in 0..N
  BY <1>1, <1>2, <1>3 DEF Lead, CopiedOK, Copied, InHand, TypeInv, ThreadsOK, HandOK
<1>6. /\ StreamsOK(m) /\ Unfinished(m) = OutStreams /\ Dts(m, 1) = n /\ Dts(m, 2) = Dts(ms, 2)
  <2>1. m \in [OutStreams -> StreamType] /\ \A s \in OutStreams : m[s].pre = ms[s].pre
    BY <1>5 DEF TypeInv, StreamsOK, StreamType, OutStreams
  <2>2. \A s \in OutStreams : m[s].source_finished = ms[s].source_finished
    BY DEF TypeInv, StreamsOK, StreamType, OutStreams
  <2>3. m[1].last_dts = n /\ m[2].last_dts = ms[2].last_dts
    BY DEF TypeInv, StreamsOK, StreamType, OutStreams
  <2> HIDE DEF m
  <2> QED BY <2>1, <2>2, <2>3 DEF TypeInv, StreamsOK, Racing, Unfinished, Dts
<1> HIDE DEF m, p
<1>7. PICK pc, x : Moved("d", pc, n, x) /\ (pc = p \/ (pc = "set" /\ x = p)) /\ ms' = m
  BY <1>1, <1>2, <1>4, <1>6, UpdateMoves DEF MuxKeep
<1>8. /\ th'["enc"] = th["enc"] /\ th'["fg"] = th["fg"] /\ th'["main"] = th["main"]
      /\ th'["d"].pc = pc /\ th'["d"].n = n /\ th'["d"].then = x
  BY <1>1, <1>7 DEF Moved
<1>9. GateOK'
  <2>1. Dts(ms, 1) <= Dts(m, 1) /\ Dts(ms, 2) <= Dts(m, 2) /\ Dts(m, 2) <= Dts(ms, 2) + 1
    BY <1>5, <1>6, DtsType
  <2> QED BY <1>1, <1>4, <1>6, <2>1, GateUpdate
<1>10. CopiedOK'
  <2>1. pc \notin {"mux", "update", "dec"}
    BY <1>4, <1>7 DEF Rests
  <2>2. next'["d1"] = Dts(ms', 1) + 1 /\ Dts(ms', 1) <= Dts(ms', 2) + Tolerance
    BY <1>2, <1>5, <1>6, <1>7, DtsType
  <2> QED BY <1>8, <2>1, <2>2 DEF CopiedOK, Copied, InHand
<1>11. ChainOK' /\ CodingOK' /\ MainOK'
  BY <1>2, <1>4, <1>6, <1>7, <1>8, ChainKept, CodingSame, Unmoved DEF Lead, MuxKeep, MainOK
<1>12. AheadOK'
  <2>1. Dts(ms, 1) <= Dts(ms', 1) /\ next'["fg"] = next["fg"]
    BY <1>2, <1>5, <1>6, <1>7, DtsType
  <2>2. Dts(ms', 1) \in Nat
    BY <1>5, <1>6, <1>7
  <2> QED BY <2>1, <2>2, DtsType DEF Lead, AheadOK
<1> QED BY <1>9, <1>10, <1>11, <1>12 DEF Lead

\* And the encoder's.
LEMMA UpdateScheduleEncLead ==
  ASSUME TypeInv, Lead, Racing, Racing', UpdateSchedule("enc")
  PROVE  Lead'
<1> DEFINE n == th["enc"].n
           m == [ms EXCEPT ![2].last_dts = n]
           p == Resume("enc")
<1>1. {"d", "enc", "fg", "main"} \subseteq Everyone /\ "enc" \in Senders
  BY DEF Everyone, Tasks, Senders
<1>2. /\ th["enc"].pc = "update" /\ MuxKeep /\ UNCHANGED <<q, next>> /\ ended' = EndedBy("enc")
  BY DEF UpdateSchedule
<1>3. n # Null
  <2> SUFFICES ASSUME n = Null
               PROVE  FALSE
    OBVIOUS
  <2>1. ms' = [ms EXCEPT ![2].source_finished = TRUE]
    BY DEF UpdateSchedule, Update, StreamOf
  <2>2. ms'[2].source_finished
    BY <2>1 DEF TypeInv, StreamsOK, StreamType, OutStreams
  <2> QED BY <2>2 DEF Racing, Unfinished, OutStreams
<1>4. Update("enc", m, task_exited, p) /\ p \in Rests /\ ended' = ended
  BY <1>1, <1>2, <1>3, ResumeRests DEF UpdateSchedule, StreamOf, EndedBy
<1>5. PICK r \in Nat : Chain(r, th["enc"].pc, th["enc"].n, th["enc"].then, th["fg"].pc,
                             th["fg"].then, q["enc"].fifo, next["fg"], Dts(ms, 2))
  BY DEF Lead, ChainOK
<1>6. n = r /\ r = Dts(ms, 2) + 1 /\ n \in 0..N
  BY <1>1, <1>2, <1>3, <1>5 DEF Chain, InHand, TypeInv, ThreadsOK, HandOK
<1>7. /\ StreamsOK(m) /\ Unfinished(m) = OutStreams /\ Dts(m, 2) = n /\ Dts(m, 1) = Dts(ms, 1)
  <2>1. m \in [OutStreams -> StreamType] /\ \A s \in OutStreams : m[s].pre = ms[s].pre
    BY <1>6 DEF TypeInv, StreamsOK, StreamType, OutStreams
  <2>2. \A s \in OutStreams : m[s].source_finished = ms[s].source_finished
    BY DEF TypeInv, StreamsOK, StreamType, OutStreams
  <2>3. m[2].last_dts = n /\ m[1].last_dts = ms[1].last_dts
    BY DEF TypeInv, StreamsOK, StreamType, OutStreams
  <2> HIDE DEF m
  <2> QED BY <2>1, <2>2, <2>3 DEF TypeInv, StreamsOK, Racing, Unfinished, Dts
<1> HIDE DEF m, p
<1>8. PICK pc, x : Moved("enc", pc, n, x) /\ (pc = p \/ (pc = "set" /\ x = p)) /\ ms' = m
  BY <1>1, <1>2, <1>4, <1>7, UpdateMoves DEF MuxKeep
<1>9. /\ th'["d"] = th["d"] /\ th'["fg"] = th["fg"] /\ th'["main"] = th["main"]
      /\ th'["enc"].pc = pc /\ th'["enc"].n = n /\ th'["enc"].then = x
      /\ pc \notin {"mux", "update"}
  BY <1>1, <1>4, <1>8 DEF Moved, Rests
<1>10. GateOK'
  <2>1. Dts(ms, 1) <= Dts(m, 1) /\ Dts(ms, 2) <= Dts(m, 2) /\ Dts(m, 2) <= Dts(ms, 2) + 1
    BY <1>6, <1>7, DtsType
  <2> QED BY <1>1, <1>4, <1>7, <2>1, GateUpdate
<1>11. CopiedOK'
  <2>1. /\ Dts(ms, 1) \in Nat /\ Dts(ms, 2) \in Nat /\ Tolerance \in Nat
        /\ Dts(ms', 1) = Dts(ms, 1) /\ Dts(ms', 2) = Dts(ms, 2) + 1
    BY <1>6, <1>7, <1>8, DtsType
  <2>2. Dts(ms, 1) <= Dts(ms, 2) + Tolerance => Dts(ms, 1) <= Dts(ms', 2) + Tolerance
    BY <2>1
  <2>3. th["d"].n \in Nat
    BY <1>1 DEF TypeInv, ThreadsOK, HandOK
  <2>4. th["d"].n <= Dts(ms, 2) + Tolerance => th["d"].n <= Dts(ms', 2) + Tolerance
    BY <2>1, <2>3
  <2> QED BY <1>2, <1>9, <2>1, <2>2, <2>4 DEF Lead, CopiedOK, Copied
<1>12. ChainOK'
  <2>1. Chain(r, th'["enc"].pc, th'["enc"].n, th'["enc"].then, th'["fg"].pc,
              th'["fg"].then, q'["enc"].fifo, next'["fg"], Dts(ms', 2))
    <3>1. Dts(ms', 2) = r
      BY <1>6, <1>7, <1>8
    <3>2. r \in Nat /\ r <= r /\ r <= r + 1
      OBVIOUS
    <3> QED BY <1>2, <1>5, <1>9, <3>1, <3>2 DEF Chain, InHand
  <2> QED BY <2>1 DEF ChainOK
<1>13. CodingOK'
  <2>1. q["enc"].recv = {} /\ "mux" \notin ended
    BY <1>2, <1>3 DEF Lead, CodingOK, Coding, InHand
  <2> QED BY <1>2, <1>4, <1>9, <2>1 DEF CodingOK, Coding
<1>14. MainOK' /\ AheadOK'
  BY <1>2, <1>7, <1>8, <1>9 DEF Lead, MainOK, AheadOK
<1> QED BY <1>10, <1>11, <1>12, <1>13, <1>14 DEF Lead

-----------------------------------------------------------------------------
(* The demuxer.                                                            *)

LEMMA ReadEndLead == ASSUME TypeInv, Lead, ReadEnd \/ TerminatedD PROVE Lead'
<1>1. \/ Fails("d", "done")
      \/ th' = [th EXCEPT !["d"].pc = "done", !["d"].closing = TRUE]
  BY DEF ReadEnd, TerminatedD
<1>2. "d" \in Everyone /\ "done" \in Places /\ "done" \in Quiet
  BY DEF Everyone, Tasks, Places, Quiet
<1>3. Moved("d", "done", th["d"].n, th["d"].then)
  BY <1>1, <1>2, FailsMoves, ClosingMoves DEF TypeInv
<1>4. CalmD
  BY <1>2, <1>3, QuietCalm DEF Moved
<1>5. UNCHANGED <<schedule, choked, next, mux_started, ms, q, ended>>
  BY DEF ReadEnd, TerminatedD, Local, SchedKeep, MuxKeep
<1> QED BY <1>3, <1>4, <1>5, DemuxerLead, SameDtsOf

LEMMA WaitsLead == ASSUME TypeInv, Lead, NEW t \in {"d", "fg"}, Waits(t) PROVE Lead'
<1>1. /\ t \in Everyone /\ Goto(t, "wait") /\ "wait" \in Places
      /\ th[t].pc = (IF t = "d" THEN "read" ELSE "recv")
  BY DEF Waits, Everyone, Tasks, Places
<1>2. Moved(t, "wait", th[t].n, th[t].then)
  BY <1>1, GotoMoves DEF TypeInv
<1>3. UNCHANGED <<schedule, choked, next, mux_started, ms, q, ended>>
  BY DEF Waits, Local, SchedKeep, MuxKeep
<1>4. CASE t = "d"
  <2>1. CalmD
    BY <1>1, <1>2, <1>4 DEF CalmD, Moved, Reading, At, InHand
  <2> QED BY <1>2, <1>3, <1>4, <2>1, DemuxerLead, SameDtsOf
<1>5. CASE t = "fg"
  <2>1. CalmFg
    BY <1>1, <1>2, <1>5 DEF CalmFg, Moved, Sending
  <2> QED BY <1>2, <1>3, <1>5, <2>1, FilterGraphLead, SameDtsOf
<1> QED BY <1>4, <1>5

\* A demuxer that may go on is not ahead, and takes the next packet.
LEMMA TakeLead == ASSUME TypeInv, Lead, Racing, Take PROVE Lead'
<1>1. /\ "d" \in Everyone /\ "mux" \in Places /\ 0 \in Nat
      /\ {"enc", "fg", "main"} \subseteq Everyone
  BY DEF Everyone, Tasks, Places
<1>2. /\ next' = [next EXCEPT !["d1"] = @ + 1]
      /\ th' = [th EXCEPT !["d"].pc = "mux", !["d"].n = next["d1"]]
      /\ next["d1"] <= N /\ Local /\ UNCHANGED <<q, ended, left>>
  BY DEF Take, Has, SourceStreams, Racing, Copy
<1>3. UNCHANGED <<schedule, choked, mux_started, ms, q, ended>>
  BY <1>2 DEF Local, SchedKeep, MuxKeep
<1>4. ~choked["d"] /\ th["d"].pc \in {"read", "wait"}
  BY DEF Take, Proceeds
<1>5. schedule.by # "d"
  BY <1>1, <1>4 DEF TypeInv, ScheduleOK
<1>6. next["d1"] \in 0..EofFrame
  BY <1>2, DtsType DEF EofFrame
<1>7. Moved("d", "mux", next["d1"], th["d"].then)
  BY <1>1, <1>2, <1>6, HandMoves DEF TypeInv
<1>8. /\ th'["enc"] = th["enc"] /\ th'["fg"] = th["fg"] /\ th'["main"] = th["main"]
      /\ th'["d"].pc = "mux" /\ th'["d"].n = next["d1"]
  BY <1>1, <1>7 DEF Moved
<1>9. Dts(ms, 1) < Dts(ms, 2) + Tolerance /\ next["d1"] = Dts(ms, 1) + 1
  BY <1>4, <1>5 DEF Lead, GateOK, Gate, CopiedOK, Copied, Reading, At
<1>10. next'["d1"] = Dts(ms, 1) + 2 /\ next["d1"] <= Dts(ms, 2) + Tolerance
       /\ next'["fg"] = next["fg"]
  <2>1. next'["d1"] = next["d1"] + 1 /\ next'["fg"] = next["fg"]
    BY <1>2 DEF TypeInv, CountersOK
  <2> QED BY <1>9, <2>1, DtsType
<1>11. CopiedOK'
  <2>1. Dts(ms, 1) <= Dts(ms, 2) + Tolerance
    BY DEF Lead, CopiedOK, Copied
  <2> QED BY <1>3, <1>8, <1>9, <1>10, <2>1 DEF CopiedOK, Copied, At
<1>12. GateOK' /\ ChainOK' /\ CodingOK' /\ MainOK' /\ AheadOK'
  BY <1>3, <1>8, <1>10, GateSame, SameDtsOf, ChainKept, CodingSame, Unmoved
  DEF Lead, MainOK, AheadOK
<1> QED BY <1>11, <1>12 DEF Lead

LEMMA DemuxDoneLead == ASSUME TypeInv, Lead, Racing, DemuxDone PROVE Lead'
<1>1. "d" \in Everyone /\ {"mux", "last"} \subseteq Places /\ Null \in 0..EofFrame
  BY SchedulerAssumption DEF Everyone, Tasks, Places, Null, EofFrame
<1>2. UNCHANGED <<schedule, choked, next, mux_started, ms>>
  BY DEF DemuxDone, Local, SchedKeep, MuxKeep
<1>3. UNCHANGED q
  BY DEF DemuxDone, SourceStreams, Racing, Coded, Copy
<1>4. "mux" \in ended' => "mux" \in ended
  BY DEF DemuxDone, SourceStreams, Racing, Copy
<1>5. PICK p \in {"mux", "last"} : Moved("d", p, Null, th["d"].then)
  <2>1. \/ th' = [th EXCEPT !["d"].pc = "mux", !["d"].n = Null, !["d"].closing = TRUE]
        \/ th' = [th EXCEPT !["d"].pc = "last", !["d"].n = Null]
    BY DEF DemuxDone
  <2> QED BY <1>1, <2>1, LastHandMoves, HandMoves DEF TypeInv
<1>6. CalmD
  BY <1>5 DEF Moved, CalmD, Reading, At, InHand
<1> QED BY <1>2, <1>3, <1>4, <1>5, <1>6, DemuxerLead, SameDtsOf

LEMMA ExitLead == ASSUME TypeInv, Lead, NEW t \in Tasks, Exit(t) PROVE Lead'
<1>1. t \in Everyone /\ "gone" \in Places /\ "gone" \in Quiet
      /\ {"d", "enc", "fg", "main"} \subseteq Everyone
  BY DEF Everyone, Tasks, Places, Quiet
<1>2. Moved(t, "gone", th[t].n, th[t].then) /\ th[t].pc = "exit"
  BY <1>1, GotoMoves DEF Exit, TypeInv
<1>3. UNCHANGED <<schedule, choked, next, mux_started, ms, q, ended>>
  BY DEF Exit, SchedKeep, MuxKeep
<1>4. \A u \in Everyone \ {t} : th'[u] = th[u]
  BY <1>2 DEF Moved
<1>5. t # "main"
  BY DEF Tasks
<1>6. th'["main"] = th["main"]
  BY <1>1, <1>4, <1>5
<1>7. MainOK'
  BY <1>6 DEF Lead, MainOK
<1>8. CASE t # "enc"
  <2>1. CodingOK'
    BY <1>1, <1>3, <1>4, <1>8, CodingSame DEF Lead
  <2>2. CalmD /\ CalmEnc /\ CalmFg
    BY <1>1, <1>2, <1>4, Unmoved, QuietCalm DEF Moved
  <2> QED BY <1>3, <1>7, <2>1, <2>2, LeadKept, SameDtsOf
<1>9. CASE t = "enc"
  <2>1. CodingOK'
    BY <1>2, <1>3, <1>9 DEF Lead, CodingOK, Coding, Moved, At, InHand
  <2>2. CalmEnc
    BY <1>1, <1>2, <1>9, QuietCalm DEF Moved
  <2> QED BY <1>2, <1>3, <1>9, <2>1, <2>2, EncoderLead, SameDtsOf
<1> QED BY <1>8, <1>9

-----------------------------------------------------------------------------
(* send_to_mux(), before the schedule knows.                               *)

\* What an error of send_to_mux() makes of the thread.
LEMMA ReturnsCases ==
  ASSUME TypeInv, NEW t \in Senders, NEW ret, Returns(t, ret), th[t].pc = "mux"
  PROVE  \/ /\ th[t].n = Null /\ Moved(t, Resume(t), Null, th[t].then)
            /\ Goto(t, Resume(t)) /\ ended' = EndedBy(t)
         \/ /\ th[t].n # Null /\ ended' = ended /\ ret = "eof"
            /\ Moved(t, "mux", Null, th[t].then) /\ th' = [th EXCEPT ![t].n = Null]
         \/ /\ th[t].n # Null /\ ended' = ended
            /\ Moved(t, "done", th[t].n, th[t].then)
<1>1. t \in Everyone /\ "done" \in Places /\ Resume(t) \in Places
  <2>1. Resume(t) \in Rests
    BY ResumeRests
  <2> QED BY <2>1 DEF Senders, Everyone, Tasks, Places, Rests
<1>2. CASE th[t].n = Null
  BY <1>1, <1>2, GotoMoves DEF Returns, TypeInv
<1>3. CASE th[t].n # Null /\ ret = "eof"
  BY <1>1, <1>3, DropMoves DEF Returns, TypeInv, EndedBy
<1>4. CASE th[t].n # Null /\ ret # "eof"
  BY <1>1, <1>4, FailsMoves DEF Returns, TypeInv, EndedBy
<1> QED BY <1>2, <1>3, <1>4

\* Either way of the packet leaves the dts and the schedule alone.
LEMMA SendKeeps ==
  ASSUME TypeInv, NEW t \in Senders, PreQueue(t) \/ Put(t)
  PROVE  /\ UNCHANGED <<schedule, choked, next, mux_started>> /\ SameDts(ms', ms)
         /\ q'["enc"] = q["enc"]
<1>1. UNCHANGED <<schedule, choked, next, mux_started>>
  BY DEF PreQueue, Put, Local, SchedKeep, MuxKeep
<1>2. SameDts(ms', ms)
  <2>1. CASE UNCHANGED ms
    BY <2>1, SameDtsOf
  <2>2. CASE \E s \in OutStreams : \E x : ms' = [ms EXCEPT ![s].pre = x]
    BY <2>2 DEF TypeInv, StreamsOK, StreamType, SameDts
  <2>3. StreamOf(t) \in OutStreams
    BY DEF StreamOf, OutStreams
  <2> QED BY <2>1, <2>2, <2>3 DEF PreQueue, Put, Local, SchedKeep
<1>3. UNCHANGED q \/ \E v : q' = [q EXCEPT !["mux"] = v]
  BY DEF PreQueue, Put
<1>4. "mux" \in Queues \ {"enc"}
  BY DEF Queues
<1>5. q'["enc"] = q["enc"]
  <2>1. ASSUME NEW v, q' = [q EXCEPT !["mux"] = v]
        PROVE  q'["enc"] = q["enc"]
    BY <1>4, <2>1, EncQueue
  <2> QED BY <1>3, <2>1
<1> QED BY <1>1, <1>2, <1>5

LEMMA SendDLead == ASSUME TypeInv, Lead, Racing, PreQueue("d") \/ Put("d") PROVE Lead'
<1>1. /\ "d" \in Senders /\ "d" \in Everyone /\ th["d"].pc = "mux" /\ "update" \in Places
  BY DEF Senders, Everyone, Tasks, PreQueue, Put, Places
<1>2. UNCHANGED <<schedule, choked, next, mux_started>> /\ SameDts(ms', ms)
      /\ q'["enc"] = q["enc"]
  BY <1>1, SendKeeps
<1>3. \/ Goto("d", "update") /\ UNCHANGED ended
      \/ \E ret : Returns("d", ret)
  BY DEF PreQueue, Put
<1>4. CASE Goto("d", "update") /\ UNCHANGED ended
  <2>1. Moved("d", "update", th["d"].n, th["d"].then)
    BY <1>1, <1>4, GotoMoves DEF TypeInv
  <2>2. CalmD
    BY <1>1, <2>1 DEF CalmD, Moved, Reading, At, InHand
  <2> QED BY <1>2, <1>4, <2>1, <2>2, DemuxerLead
<1>5. CASE \E ret : Returns("d", ret)
  <2>1. PICK ret : Returns("d", ret)
    BY <1>5
  <2>2. "mux" \in ended' => "mux" \in ended
    BY <2>1 DEF Returns, EndedBy, Copy
  <2>3. th["d"].n = Null => Resume("d") = "done"
    BY DEF Resume, AfterEnd, EndedBy, SourceStreams, Racing
  <2>4. PICK p, n : /\ Moved("d", p, n, th["d"].then)
                    /\ p = "done" \/ (p = "mux" /\ n = Null)
    BY <1>1, <2>1, <2>3, ReturnsCases
  <2>5. CalmD
    BY <2>4 DEF CalmD, Moved, Reading, At, InHand
  <2> QED BY <1>2, <2>2, <2>4, <2>5, DemuxerLead
<1> QED BY <1>3, <1>4, <1>5

LEMMA SendEncLead == ASSUME TypeInv, Lead, Racing, PreQueue("enc") \/ Put("enc") PROVE Lead'
<1>1. /\ "enc" \in Senders /\ "enc" \in Everyone /\ th["enc"].pc = "mux" /\ "update" \in Places
  BY DEF Senders, Everyone, Tasks, PreQueue, Put, Places
<1>2. UNCHANGED <<schedule, choked, next, mux_started>> /\ SameDts(ms', ms)
      /\ q'["enc"] = q["enc"]
  BY <1>1, SendKeeps
<1>3. /\ InHand("mux", th["enc"].n) => q["enc"].recv = {}
      /\ th["enc"].n = Null => th["enc"].closing \/ mux_started
      /\ "mux" \notin ended
  BY <1>1 DEF Lead, CodingOK, Coding
<1>4. ASSUME Goto("enc", "update"), UNCHANGED ended
      PROVE  Lead'
  <2>1. Moved("enc", "update", th["enc"].n, th["enc"].then)
    BY <1>1, <1>4, GotoMoves DEF TypeInv
  <2>2. CalmEnc
    BY <1>1, <2>1 DEF CalmEnc, Moved, At, InHand
  <2>3. CodingOK'
    BY <1>2, <1>3, <1>4, <2>1 DEF CodingOK, Coding, Moved, At, InHand
  <2> QED BY <1>2, <2>1, <2>2, <2>3, EncoderLead
<1>5. ASSUME th["enc"].n # Null, ended' = ended, NEW n, Moved("enc", "done", n, th["enc"].then)
      PROVE  Lead'
  <2>1. CalmEnc
    BY <1>5 DEF CalmEnc, Moved, At, InHand
  <2>2. CodingOK'
    BY <1>3, <1>5 DEF CodingOK, Coding, Moved, At, InHand
  <2> QED BY <1>2, <1>5, <2>1, <2>2, EncoderLead
<1>6. CASE PreQueue("enc")
  <2>1. \/ Goto("enc", "update") /\ UNCHANGED ended
        \/ Returns("enc", "enospc")
    BY <1>6 DEF PreQueue
  <2>2. ~mux_started
    BY <1>6 DEF PreQueue
  <2>3. CASE Returns("enc", "enospc") /\ th["enc"].n = Null
    <3>1. Resume("enc") \in {"exit", "gone"}
      BY <1>3, <2>2, <2>3 DEF Resume, Leaves
    <3>2. Moved("enc", Resume("enc"), Null, th["enc"].then)
      BY <1>1, <2>3, ReturnsCases
    <3>3. CalmEnc
      BY <3>1, <3>2 DEF CalmEnc, Moved, At, InHand
    <3>4. CodingOK'
      BY <3>1, <3>2 DEF CodingOK, Coding, Moved, At, InHand
    <3> QED BY <1>2, <3>2, <3>3, <3>4, EncoderLead
  <2>4. CASE Returns("enc", "enospc") /\ th["enc"].n # Null
    <3>1. ended' = ended /\ Moved("enc", "done", th["enc"].n, th["enc"].then)
      BY <1>1, <2>4, ReturnsCases
    <3> QED BY <1>5, <2>4, <3>1
  <2> QED BY <1>4, <2>1, <2>3, <2>4
<1>7. CASE Put("enc")
  <2>1. mux_started
    BY <1>7 DEF Put
  <2>2. \/ Goto("enc", "update") /\ UNCHANGED ended
        \/ th["enc"].n # Null /\ \E ret : Returns("enc", ret)
    BY <1>7 DEF Put
  <2>3. CASE th["enc"].n # Null /\ \E ret : Returns("enc", ret)
    <3>1. PICK ret : Returns("enc", ret)
      BY <2>3
    <3>2. ended' = ended
      BY <2>3, <3>1 DEF Returns, EndedBy
    <3>3. \/ Moved("enc", "mux", Null, th["enc"].then)
          \/ Moved("enc", "done", th["enc"].n, th["enc"].then)
      BY <1>1, <2>3, <3>1, ReturnsCases
    <3>4. CASE Moved("enc", "mux", Null, th["enc"].then)
      <4>1. CalmEnc
        BY <3>4 DEF CalmEnc, Moved, At, InHand
      <4>2. CodingOK'
        BY <1>2, <1>3, <2>1, <3>2, <3>4 DEF CodingOK, Coding, Moved, At, InHand
      <4> QED BY <1>2, <3>4, <4>1, <4>2, EncoderLead
    <3> QED BY <1>5, <2>3, <3>2, <3>3, <3>4
  <2> QED BY <1>4, <2>2, <2>3
<1> QED BY <1>6, <1>7

-----------------------------------------------------------------------------
(* The filtergraph.                                                        *)

\* A frame is made when the last one but those on their way is not ahead.
LEMMA FgSourceLead == ASSUME TypeInv, Lead, FgSource PROVE Lead'
<1>1. /\ {"d", "enc", "fg", "main"} \subseteq Everyone /\ "send" \in Places
      /\ th["fg"].pc \in {"recv", "wait"} /\ ~choked["fg"]
  BY DEF Everyone, Tasks, Places, FgSource, Proceeds
<1>2. UNCHANGED <<schedule, choked, mux_started, ms, q, ended>>
  BY DEF FgSource, Local, SchedKeep, MuxKeep
<1>3. Moved("fg", "send", next["fg"], th["fg"].then)
  <2>1. next["fg"] \in 0..EofFrame
    BY DtsType DEF EofFrame
  <2>2. th' = [th EXCEPT !["fg"].pc = "send", !["fg"].n = next["fg"]]
    BY DEF FgSource
  <2> QED BY <1>1, <2>1, <2>2, HandMoves DEF TypeInv
<1>4. /\ th'["enc"] = th["enc"] /\ th'["d"] = th["d"] /\ th'["main"] = th["main"]
      /\ th'["fg"].pc = "send"
  BY <1>1, <1>3 DEF Moved
<1>5. next'["fg"] = next["fg"] + 1 /\ next'["d1"] = next["d1"]
  BY DEF FgSource, TypeInv, CountersOK
<1>6. PICK r \in Nat : Chain(r, th["enc"].pc, th["enc"].n, th["enc"].then, th["fg"].pc,
                             th["fg"].then, q["enc"].fifo, next["fg"], Dts(ms, 2))
  BY DEF Lead, ChainOK
<1>7. Len(q["enc"].fifo) \in Nat /\ Len(q["enc"].fifo) <= QueueSize
  BY EncQueue DEF QueueOK
<1>8. r + Len(q["enc"].fifo) + 1 = next["fg"] /\ Dts(ms, 2) <= r /\ r <= Dts(ms, 2) + 1
  BY <1>1, <1>6 DEF Chain
<1>9. r <= Dts(ms, 1) + Tolerance
  <2>1. CASE schedule.by = "enc"
    <3>1. th["enc"].pc = "set"
      BY <1>1, <2>1 DEF TypeInv, ScheduleOK
    <3>2. r = Dts(ms, 2)
      BY <1>6, <3>1 DEF Chain
    <3>3. Dts(ms, 2) <= Dts(ms, 1) + Tolerance
      BY <1>1 DEF Lead, GateOK, Gate
    <3> QED BY <3>2, <3>3
  <2>2. CASE schedule.by # "enc"
    <3>1. Dts(ms, 2) < Dts(ms, 1) + Tolerance
      BY <1>1, <2>2 DEF Lead, GateOK, Gate
    <3> QED BY <1>8, <3>1, DtsType
  <2> QED BY <2>1, <2>2
<1>10. AheadOK'
  <2> DEFINE k == Len(q["enc"].fifo)
             n == next["fg"]
             l1 == Dts(ms, 1)
  <2>1. k \in Nat /\ n \in Nat /\ l1 \in Nat /\ QueueSize \in Nat /\ Tolerance \in Nat
    BY <1>7, DtsType
  <2>2. r + k + 1 = n /\ k <= QueueSize /\ r <= l1 + Tolerance
    BY <1>7, <1>8, <1>9
  <2>3. Dts(ms', 1) = l1 /\ next'["fg"] = n + 1
    BY <1>2, <1>5 DEF Dts
  <2> HIDE DEF k, n, l1
  <2>4. n + 1 <= l1 + Tolerance + QueueSize + 2
    BY <2>1, <2>2
  <2> QED BY <2>3, <2>4 DEF AheadOK
<1>11. ChainOK'
  <2> DEFINE k == Len(q["enc"].fifo)
             n == next["fg"]
  <2>1. r + k < n + 1 /\ r + k + 2 = n + 1
    <3>1. k \in Nat /\ n \in Nat /\ r + k + 1 = n
      BY <1>7, <1>8, DtsType
    <3> HIDE DEF k, n
    <3> QED BY <3>1
  <2>2. Chain(r, th'["enc"].pc, th'["enc"].n, th'["enc"].then, th'["fg"].pc,
              th'["fg"].then, q'["enc"].fifo, next'["fg"], Dts(ms', 2))
    BY <1>2, <1>4, <1>5, <1>6, <2>1 DEF Chain
  <2> QED BY <2>2 DEF ChainOK
<1>12. GateOK' /\ CopiedOK' /\ CodingOK' /\ MainOK'
  BY <1>2, <1>4, <1>5, GateSame, CopiedKept, CodingSame, SameDtsOf, Unmoved
  DEF Lead, MainOK
<1> QED BY <1>10, <1>11, <1>12 DEF Lead

LEMMA TerminatedFgLead == ASSUME TypeInv, Lead, TerminatedFg PROVE Lead'
<1>1. "fg" \in Everyone /\ "close" \in Places /\ "close" \in Quiet /\ Goto("fg", "close")
  BY DEF Everyone, Tasks, Places, Quiet, TerminatedFg
<1>2. Moved("fg", "close", th["fg"].n, th["fg"].then)
  BY <1>1, GotoMoves DEF TypeInv
<1>3. UNCHANGED <<schedule, choked, next, mux_started, ms, q, ended>>
  BY DEF TerminatedFg, Local, SchedKeep, MuxKeep
<1>4. CalmFg
  BY <1>1, <1>2, QuietCalm DEF Moved
<1> QED BY <1>2, <1>3, <1>4, FilterGraphLead, SameDtsOf

LEMMA EncOpenLead == ASSUME TypeInv, Lead, EncOpen PROVE Lead'
<1>1. /\ "fg" \in Everyone /\ "mux" \in Everyone /\ th["fg"].pc \in {"send", "close"}
      /\ {"d", "enc", "main"} \subseteq Everyone
      /\ {"flush", "recv", "done"} \subseteq Places /\ "done" \in Quiet
  BY DEF Everyone, Tasks, Places, EncOpen, Quiet
<1>2. UNCHANGED <<choked, schedule, ms, mux_started, q, next, ended>>
  BY DEF EncOpen, SchedKeep, MainKeep
<1>3. CASE Fails("fg", "done")
  <2>1. Moved("fg", "done", th["fg"].n, th["fg"].then)
    BY <1>1, <1>3, FailsMoves DEF TypeInv
  <2>2. CalmFg
    BY <1>1, <2>1, QuietCalm DEF Moved
  <2> QED BY <1>2, <2>1, <2>2, FilterGraphLead, SameDtsOf
<1>4. CASE th' = [th EXCEPT !["fg"].then = th["fg"].pc, !["fg"].pc = "flush",
                            !["mux"].pc = "recv"]
  <2>1. /\ th'["d"] = th["d"] /\ th'["enc"] = th["enc"] /\ th'["main"] = th["main"]
        /\ th'["fg"].pc = "flush" /\ th'["fg"].then = th["fg"].pc
    <3> DEFINE a == [th["fg"] EXCEPT !.then = th["fg"].pc, !.pc = "flush"]
               b == [th["mux"] EXCEPT !.pc = "recv"]
    <3>1. th' = [[th EXCEPT !["fg"] = a] EXCEPT !["mux"] = b]
      BY <1>1, <1>4 DEF TypeInv, ThreadsOK
    <3>2. a.pc = "flush" /\ a.then = th["fg"].pc
      BY <1>1 DEF TypeInv, ThreadsOK, ThreadType
    <3> HIDE DEF a, b
    <3> QED BY <1>1, <3>1, <3>2 DEF TypeInv, ThreadsOK
  <2>2. CalmFg
    BY <1>1, <2>1 DEF CalmFg, Sending
  <2>3. MainOK' /\ CodingOK'
    BY <1>2, <2>1, CodingSame DEF Lead, MainOK
  <2> QED BY <1>2, <2>1, <2>2, <2>3, LeadKept, SameDtsOf, Unmoved
<1> QED BY <1>3, <1>4 DEF EncOpen

LEMMA FlushSame ==
  ASSUME TypeInv, NEW s \in OutStreams, FlushOne(s)
  PROVE  SameDts(ms', ms)
<1> DEFINE popped == [ms EXCEPT ![s].pre = Tail(@)]
<1>1. popped \in [OutStreams -> [last_dts : 0..N, source_finished : BOOLEAN,
                                 pre : {Tail(ms[u].pre) : u \in OutStreams}
                                         \cup {ms[u].pre : u \in OutStreams},
                                 init_eof : BOOLEAN]]
      /\ SameDts(popped, ms)
  BY DEF TypeInv, StreamsOK, StreamType, SameDts
<1>2. ms' = popped \/ \E b : ms' = [popped EXCEPT ![s].init_eof = b]
  BY DEF FlushOne
<1> HIDE DEF popped
<1> QED BY <1>1, <1>2 DEF SameDts

LEMMA FlushLead == ASSUME TypeInv, Lead, Flush PROVE Lead'
<1>1. /\ "fg" \in Everyone /\ th["fg"].pc = "flush" /\ th["fg"].then \in {"send", "close"}
      /\ {"send", "close"} \subseteq Places
  BY DEF Everyone, Tasks, Flush, TypeInv, ThreadsOK, HandOK, Places
<1>2. UNCHANGED <<choked, schedule, ended, next>>
  BY DEF Flush
<1>3. ASSUME NEW s \in OutStreams, FlushOne(s), UNCHANGED <<th, mux_started>>
      PROVE  Lead'
  <2>1. SameDts(ms', ms)
    BY <1>3, FlushSame
  <2>2. q'["enc"] = q["enc"]
    <3>1. UNCHANGED q \/ \E v : q' = [q EXCEPT !["mux"] = v]
      BY <1>3 DEF FlushOne
    <3>2. "mux" \in Queues \ {"enc"}
      BY DEF Queues
    <3>3. ASSUME NEW v, q' = [q EXCEPT !["mux"] = v]
          PROVE  q'["enc"] = q["enc"]
      BY <3>2, <3>3, EncQueue
    <3> QED BY <3>1, <3>3
  <2>3. MainOK'
    BY <1>3 DEF Lead, MainOK
  <2> QED BY <1>2, <1>3, <2>1, <2>2, <2>3, AsideLead
<1>4. CASE /\ mux_started' = TRUE /\ UNCHANGED <<q, ms>>
           /\ th' = [th EXCEPT !["fg"].pc = th["fg"].then, !["fg"].then = ""]
  <2>1. Moved("fg", th["fg"].then, th["fg"].n, "")
    BY <1>1, <1>4, SetMoves DEF TypeInv
  <2>2. CalmFg
    BY <1>1, <2>1 DEF CalmFg, Moved, Sending
  <2> QED BY <1>2, <1>4, <2>1, <2>2, FilterGraphLead, SameDtsOf
<1> QED BY <1>3, <1>4 DEF Flush

\* The frame goes behind the ones that are in the encoder's queue.
LEMMA FgSendLead == ASSUME TypeInv, Lead, Racing, FgSend PROVE Lead'
<1>1. /\ {"d", "enc", "fg", "main"} \subseteq Everyone /\ th["fg"].pc = "send" /\ ~fed
      /\ {"close", "recv", "done"} \subseteq Places /\ {"close", "done"} \subseteq Quiet
      /\ "enc" \in Queues
  BY DEF Everyone, Tasks, FgSend, Places, Quiet, Racing, Queues
<1>2. next["fg"] = th["fg"].n + 1 /\ th["fg"].n \in 0..N
  BY <1>1 DEF TypeInv, ThreadsOK, SourceOK, Sending, HandOK
<1>3. PICK o \in Send(q["enc"], 1, th["fg"].n) :
          /\ q' = [q EXCEPT !["enc"] = o.q]
          /\ IF o.ret = "ok"
             THEN /\ Goto("fg", IF ~fed /\ th["fg"].n = N THEN "close" ELSE "recv")
                  /\ UNCHANGED ended
             ELSE Goto("fg", "done") /\ ended' = ended \cup {"enc"}
  BY DEF FgSend
<1>4. UNCHANGED <<choked, schedule, next, ms, mux_started>> /\ ("mux" \in ended' => "mux" \in ended)
  BY <1>3 DEF FgSend, FgKeep, SchedKeep
<1>5. q'["enc"] = o.q
  BY <1>3, EncQueue
<1>6. /\ o.ret = "ok" => o.q.fifo = Append(q["enc"].fifo, <<1, th["fg"].n>>)
      /\ o.ret # "ok" => o.q.fifo = q["enc"].fifo
      /\ o.q.recv = q["enc"].recv
  <2>1. \/ o = [ret |-> "einval", q |-> q["enc"]]
        \/ o = [ret |-> "eof", q |-> [q["enc"] EXCEPT !.send = @ \cup {1}]]
        \/ o = [ret |-> "ok",
                q |-> [q["enc"] EXCEPT !.fifo = Append(@, <<1, th["fg"].n>>)]]
    BY DEF Send
  <2> QED BY <2>1, EncQueue DEF QueueOK, QueueType
<1>7. CASE o.ret # "ok"
  <2>1. Moved("fg", "done", th["fg"].n, th["fg"].then)
    BY <1>1, <1>3, <1>7, GotoMoves DEF TypeInv
  <2>2. CalmFg
    BY <1>1, <2>1, QuietCalm DEF Moved
  <2> QED BY <1>4, <1>5, <1>6, <1>7, <2>1, <2>2, FilterGraphLead, SameDtsOf
<1>8. CASE o.ret = "ok"
  <2>1. PICK p \in {"close", "recv"} : Goto("fg", p)
    BY <1>3, <1>8
  <2>2. Moved("fg", p, th["fg"].n, th["fg"].then)
    BY <1>1, <2>1, GotoMoves DEF TypeInv
  <2>3. /\ th'["enc"] = th["enc"] /\ th'["d"] = th["d"] /\ th'["main"] = th["main"]
        /\ th'["fg"].pc = p
    BY <1>1, <2>2 DEF Moved
  <2>4. PICK r \in Nat : Chain(r, th["enc"].pc, th["enc"].n, th["enc"].then, th["fg"].pc,
                               th["fg"].then, q["enc"].fifo, next["fg"], Dts(ms, 2))
    BY DEF Lead, ChainOK
  <2> DEFINE f == q["enc"].fifo
             g == q'["enc"].fifo
             n == th["fg"].n
  <2>5. /\ Len(f) \in Nat /\ Len(g) = Len(f) + 1 /\ g[Len(f) + 1] = <<1, n>>
        /\ \A i \in 1..Len(f) : g[i] = f[i]
    <3>1. f \in Seq(Streams \X (1..N)) /\ g = Append(f, <<1, n>>)
      BY <1>5, <1>6, <1>8, EncQueue
    <3>2. Len(f) \in Nat
      BY EncQueue
    <3> HIDE DEF f, g, n
    <3> QED BY <3>1, <3>2
  <2>6. r + Len(f) + 1 = n /\ n \in Nat /\ next["fg"] = n + 1
    <3>1. r + Len(f) + 2 = next["fg"]
      BY <1>1, <2>4 DEF Chain, Sending
    <3> HIDE DEF f
    <3> QED BY <1>2, <2>5, <3>1
  <2>7. \A i \in 1..Len(f) : f[i][2] = r + i
    BY <2>4 DEF Chain
  <2> HIDE DEF f, g, n
  <2>8. \A i \in 1..Len(g) : g[i][2] = r + i
    <3> SUFFICES ASSUME NEW i \in 1..Len(g)
                 PROVE  g[i][2] = r + i
      OBVIOUS
    <3>1. CASE i \in 1..Len(f)
      BY <2>5, <2>7, <3>1
    <3>2. CASE i = Len(f) + 1
      <4>1. g[i][2] = n
        BY <2>5, <3>2
      <4> QED BY <2>5, <2>6, <3>2, <4>1
    <3> QED BY <2>5, <3>1, <3>2
  <2>9. r + Len(g) < next["fg"] /\ r + Len(g) + 1 = next["fg"]
    BY <2>5, <2>6
  <2>10. ~Sending(th'["fg"].pc, th'["fg"].then)
    BY <2>3 DEF Sending
  <2>11. Chain(r, th'["enc"].pc, th'["enc"].n, th'["enc"].then, th'["fg"].pc,
               th'["fg"].then, g, next'["fg"], Dts(ms', 2))
    BY <1>4, <2>3, <2>4, <2>8, <2>9, <2>10 DEF Chain
  <2>12. ChainOK'
    BY <2>11 DEF ChainOK, g
  <2>13. GateOK' /\ CopiedOK' /\ CodingOK' /\ MainOK' /\ AheadOK'
    BY <1>4, <1>5, <1>6, <2>3, GateSame, CopiedKept, CodingSame, SameDtsOf, Unmoved
    DEF Lead, MainOK, AheadOK
  <2> QED BY <2>12, <2>13 DEF Lead
<1> QED BY <1>7, <1>8

LEMMA FgDoneLead == ASSUME TypeInv, Lead, FgDone PROVE Lead'
<1>1. "fg" \in Everyone /\ "last" \in Places /\ "last" \in Quiet /\ Null \in 0..EofFrame
      /\ {"fg", "enc"} \subseteq Queues
  BY SchedulerAssumption DEF Everyone, Tasks, Places, Quiet, Null, EofFrame, Queues
<1>2. Moved("fg", "last", Null, th["fg"].then)
  <2>1. th' = [th EXCEPT !["fg"].pc = "last", !["fg"].n = Null]
    BY DEF FgDone
  <2> QED BY <1>1, <2>1, HandMoves DEF TypeInv
<1>3. UNCHANGED <<schedule, choked, next, mux_started, ms, ended>>
  BY DEF FgDone, Local, SchedKeep, MuxKeep
<1>4. q'["enc"].fifo = q["enc"].fifo /\ q'["enc"].recv = q["enc"].recv
  <2> DEFINE a == ReceiveFinish(q["fg"], FgInputs)
             b == SendFinish(q["enc"], 1)
  <2>1. q' = [[q EXCEPT !["fg"] = a] EXCEPT !["enc"] = b]
    BY DEF FgDone
  <2>2. b.fifo = q["enc"].fifo /\ b.recv = q["enc"].recv
    BY EncQueue DEF SendFinish, QueueOK, QueueType
  <2> HIDE DEF a, b
  <2> QED BY <1>1, <2>1, <2>2 DEF TypeInv, QueuesOK
<1>5. CalmFg
  BY <1>1, <1>2, QuietCalm DEF Moved
<1> QED BY <1>2, <1>3, <1>4, <1>5, FilterGraphLead, SameDtsOf

-----------------------------------------------------------------------------
(* The encoder.                                                            *)

\* What is left of a queue behind its first item.
LEMMA RestBehind ==
  ASSUME NEW items, NEW k, QueueOK(k, items), Len(k.fifo) >= 1
  PROVE  /\ Len(Rest(k, 2)) = Len(k.fifo) - 1
         /\ \A i \in 1..Len(Rest(k, 2)) : Rest(k, 2)[i] = k.fifo[i + 1]
<1> DEFINE f == k.fifo
<1>1. f \in Seq(Streams \X items) /\ Len(f) \in Nat
  BY LenProperties DEF QueueOK, QueueType
<1> HIDE DEF f
<1>2. /\ Len(SubSeq(f, 2, Len(f))) = (IF 2 <= Len(f) THEN Len(f) - 2 + 1 ELSE 0)
      /\ \A i \in 1..(Len(f) - 2 + 1) : SubSeq(f, 2, Len(f))[i] = f[2 + i - 1]
  <2>1. \A i \in 2..Len(f) : f[i] \in Streams \X items
    BY <1>1, ElementOfSeq
  <2> QED BY <1>1, <2>1, SubSeqProperties
<1>3. Len(f) >= 1 /\ Rest(k, 2) = SubSeq(f, 2, Len(f))
  BY DEF Rest, f
<1>4. /\ Len(SubSeq(f, 2, Len(f))) = Len(f) - 1
      /\ \A i \in 1..(Len(f) - 1) : SubSeq(f, 2, Len(f))[i] = f[i + 1]
  <2> DEFINE g == SubSeq(f, 2, Len(f))
  <2>1. Len(g) = Len(f) - 1
    <3> DEFINE n == Len(f)
    <3>1. Len(g) = (IF 2 <= n THEN n - 2 + 1 ELSE 0) /\ n \in Nat /\ n >= 1
      BY <1>1, <1>2, <1>3
    <3> HIDE DEF g, n
    <3>2. Len(g) = n - 1
      BY <3>1
    <3> QED BY <3>2 DEF n
  <2> HIDE DEF g
  <2>2. ASSUME NEW i \in 1..(Len(f) - 1)
        PROVE  g[i] = f[i + 1]
    <3>1. i \in 1..(Len(f) - 2 + 1) /\ 2 + i - 1 = i + 1
      BY <1>1, <2>2
    <3>2. g[i] = f[2 + i - 1]
      BY <1>2, <3>1 DEF g
    <3> QED BY <3>1, <3>2
  <2> QED BY <2>1, <2>2 DEF g
<1> QED BY <1>3, <1>4 DEF f

\* A queue of which no stream is ended has its first item for the receiver.
LEMMA ReceiveFirst ==
  ASSUME TypeInv, q["enc"].recv = {}, NEW o \in Receive(q["enc"], {1})
  PROVE  \/ /\ o.ret = "item" /\ Len(q["enc"].fifo) >= 1
            /\ o.x = q["enc"].fifo[1][2] /\ o.q.fifo = Rest(q["enc"], 2)
            /\ o.q.recv = {}
         \/ o.ret # "item" /\ Len(q["enc"].fifo) = 0 /\ Len(o.q.fifo) = 0
<1> DEFINE k == q["enc"]
           j == FirstLive(k)
           dropped == [k EXCEPT !.fifo = Rest(k, j)]
           over == k.send \ k.recv
           s == CHOOSE t \in over : \A u \in over : t <= u
<1>1. QueueOK(k, 1..N) /\ Len(k.fifo) \in Nat
  BY EncQueue
<1>2. j \in 1..(Len(k.fifo) + 1) /\ \A i \in 1..(j - 1) : k.fifo[i][1] \in k.recv
  BY <1>1, FirstLiveIs
<1>3. j = 1
  <2>1. ASSUME j # 1
        PROVE  FALSE
    <3>1. 1 \in 1..(j - 1)
      BY <1>1, <1>2, <2>1
    <3> QED BY <1>2, <3>1
  <2> QED BY <2>1
<1>4. k \in [fifo : {k.fifo, Rest(k, 1), Rest(k, 2)}, send : {k.send}, recv : {k.recv},
             told : {k.told}]
  BY <1>1 DEF QueueOK, QueueType
<1>5. CASE j <= Len(k.fifo)
  <2>1. o = Outcome("item", k.fifo[j][1], k.fifo[j][2], [k EXCEPT !.fifo = Rest(k, j + 1)])
    BY <1>5 DEF Receive
  <2> DEFINE g == [k EXCEPT !.fifo = Rest(k, 2)]
  <2>2. o = Outcome("item", k.fifo[1][1], k.fifo[1][2], g)
    BY <1>3, <2>1
  <2>3. g.fifo = Rest(k, 2) /\ g.recv = k.recv
    BY <1>4
  <2> HIDE DEF g
  <2>4. o.ret = "item" /\ o.x = k.fifo[1][2] /\ o.q = g
    BY <2>2 DEF Outcome
  <2> QED BY <1>1, <1>3, <1>5, <2>3, <2>4
<1>6. CASE ~(j <= Len(k.fifo))
  <2>1. Len(k.fifo) = 0
    BY <1>1, <1>3, <1>6
  <2>2. Len(Rest(k, 1)) = 0
    <3>1. 1 \in 1..(Len(k.fifo) + 1)
      BY <2>1
    <3>2. \A i \in 1..(Len(k.fifo) + 1) : Len(Rest(k, i)) = Len(k.fifo) - i + 1
      <4> DEFINE items == 1..N
      <4>1. QueueOK(k, items)
        BY <1>1
      <4> HIDE DEF k, items
      <4> QED BY <4>1, RestOK
    <3> HIDE DEF k
    <3> QED BY <2>1, <3>1, <3>2
  <2> DEFINE g == [dropped EXCEPT !.recv = @ \cup {s}, !.told = @ \cup {s}]
  <2>3. \/ o = Outcome("eof", s, 0, g)
        \/ o = Outcome("end", 0, 0, dropped)
        \/ o = Outcome("again", 0, 0, dropped)
    BY <1>6 DEF Receive
  <2>4. dropped.fifo = Rest(k, 1) /\ g.fifo = Rest(k, 1)
    BY <1>3, <1>4
  <2> HIDE DEF g, dropped, s
  <2>5. o.ret # "item" /\ (o.q = g \/ o.q = dropped)
    BY <2>3 DEF Outcome
  <2>6. Len(o.q.fifo) = 0
    BY <2>2, <2>4, <2>5
  <2> QED BY <2>1, <2>5, <2>6
<1> QED BY <1>5, <1>6

\* The encoder's next frame is the one behind its last packet.
LEMMA EncReceiveLead == ASSUME TypeInv, Lead, EncReceive PROVE Lead'
<1>1. /\ {"d", "enc", "fg", "main"} \subseteq Everyone /\ th["enc"].pc = "recv"
      /\ {"mux", "done"} \subseteq Places
  BY DEF Everyone, Tasks, EncReceive, Places
<1>2. PICK o \in Receive(q["enc"], {1}) :
          /\ q' = [q EXCEPT !["enc"] = o.q]
          /\ \/ /\ o.ret = "item"
                /\ th' = IF "mux" \in ended THEN th
                         ELSE [th EXCEPT !["enc"].pc = "mux", !["enc"].n = o.x]
             \/ o.ret = "item" /\ (Fails("enc", "done") \/ Goto("enc", "done"))
             \/ o.ret = "eof" /\ (Fails("enc", "done") \/ Goto("enc", "done"))
  BY DEF EncReceive
<1>3. UNCHANGED <<schedule, choked, next, mux_started, ms, ended>>
  BY DEF EncReceive, Local, SchedKeep, MuxKeep
<1>4. q'["enc"] = o.q
  BY <1>2, EncQueue
<1>5. "mux" \notin ended /\ q["enc"].recv = {}
  BY <1>1 DEF Lead, CodingOK, Coding, At
<1>6. PICK r \in Nat : Chain(r, th["enc"].pc, th["enc"].n, th["enc"].then, th["fg"].pc,
                             th["fg"].then, q["enc"].fifo, next["fg"], Dts(ms, 2))
  BY DEF Lead, ChainOK
<1> DEFINE f == q["enc"].fifo
           g == o.q.fifo
<1>7. /\ r = Dts(ms, 2) /\ Len(f) \in Nat /\ \A i \in 1..Len(f) : f[i][2] = r + i
  BY <1>1, <1>6, EncQueue DEF Chain
<1>8. ASSUME o.ret = "item"
      PROVE  /\ o.x = r + 1 /\ o.q.recv = {} /\ r + 1 + Len(g) = r + Len(f) /\ Len(g) \in Nat
             /\ \A i \in 1..Len(g) : g[i][2] = r + 1 + i
  <2>1. Len(f) >= 1 /\ o.x = f[1][2] /\ g = Rest(q["enc"], 2) /\ o.q.recv = {}
    BY <1>5, <1>8, ReceiveFirst
  <2>2. 2 \in 1..(Len(f) + 1)
    BY <1>7, <2>1
  <2>3. Len(g) = Len(f) - 1 /\ \A i \in 1..Len(g) : g[i] = f[i + 1]
    <3> DEFINE items == 1..N
               k == q["enc"]
    <3>1. QueueOK(k, items)
      BY EncQueue
    <3>2. Len(k.fifo) >= 1 /\ g = Rest(k, 2)
      BY <2>1
    <3> HIDE DEF k, items, g
    <3>3. Len(Rest(k, 2)) = Len(k.fifo) - 1
          /\ \A i \in 1..Len(Rest(k, 2)) : Rest(k, 2)[i] = k.fifo[i + 1]
      BY <3>1, <3>2, RestBehind
    <3> QED BY <3>2, <3>3 DEF k
  <2> HIDE DEF f, g
  <2>4. Len(g) \in Nat /\ 1 + Len(g) = Len(f) /\ \A i \in 1..Len(g) : g[i] = f[i + 1]
    BY <1>7, <2>1, <2>3
  <2>5. \A i \in 1..Len(g) : g[i][2] = r + 1 + i
    <3> SUFFICES ASSUME NEW i \in 1..Len(g)
                 PROVE  g[i][2] = r + 1 + i
      OBVIOUS
    <3>1. i + 1 \in 1..Len(f)
      BY <2>4
    <3>2. f[i + 1][2] = r + (i + 1)
      BY <1>7, <3>1
    <3>3. g[i] = f[i + 1]
      BY <2>4
    <3>4. i \in Nat
      BY <2>4
    <3> QED BY <3>2, <3>3, <3>4
  <2>6. 1 \in 1..Len(f)
    BY <1>7, <2>1
  <2>7. o.x = r + 1
    BY <1>7, <2>1, <2>6
  <2>8. r + 1 + Len(g) = r + Len(f)
    <3>1. r \in Nat
      BY <1>6
    <3>2. Len(g) \in Nat /\ 1 + Len(g) = Len(f)
      BY <2>4
    <3> QED BY <3>1, <3>2
  <2> QED BY <2>1, <2>4, <2>5, <2>7, <2>8
<1>9. ASSUME o.ret # "item"
      PROVE  Len(f) = 0 /\ Len(g) = 0
  BY <1>5, <1>9, ReceiveFirst
<1>10. Dts(ms', 2) = Dts(ms, 2)
  BY <1>3
<1> HIDE DEF f, g
<1>11. ASSUME NEW p \in {"mux", "done"}, NEW n, Moved("enc", p, n, th["enc"].then),
              p = "mux" => o.ret = "item" /\ n = o.x
       PROVE  Lead'
  <2>1. /\ th'["fg"] = th["fg"] /\ th'["d"] = th["d"] /\ th'["main"] = th["main"]
        /\ th'["enc"].pc = p /\ th'["enc"].n = n
    BY <1>1, <1>11 DEF Moved
  <2>2. CodingOK'
    <3>1. CASE p = "done"
      BY <1>3, <1>5, <2>1, <3>1 DEF CodingOK, Coding, At, InHand
    <3>2. CASE p = "mux"
      <4>1. n # Null /\ q'["enc"].recv = {}
        BY <1>4, <1>8, <1>11, <3>2 DEF Null
      <4> QED BY <1>3, <1>5, <2>1, <3>2, <4>1 DEF CodingOK, Coding
    <3> QED BY <3>1, <3>2
  <2>3. ChainOK'
    <3>1. CASE o.ret = "item"
      <4>1. r + 1 <= Dts(ms, 2) + 1 /\ Dts(ms, 2) <= r + 1 /\ r + 1 = Dts(ms, 2) + 1
        BY <1>7
      <4>2. Chain(r + 1, th'["enc"].pc, th'["enc"].n, th'["enc"].then, th'["fg"].pc,
                  th'["fg"].then, g, next'["fg"], Dts(ms', 2))
        <5>1. InHand(p, n) => n = r + 1
          BY <1>8, <1>11, <3>1 DEF InHand
        <5>2. p \notin {"recv", "set"}
          OBVIOUS
        <5>3. f = q["enc"].fifo /\ UNCHANGED next
          BY <1>3 DEF f
        <5>4. /\ r + Len(f) < next["fg"]
              /\ th["fg"].pc \in {"recv", "wait"} => r + Len(f) + 1 = next["fg"]
              /\ Sending(th["fg"].pc, th["fg"].then) => r + Len(f) + 2 = next["fg"]
          BY <1>6, <5>3 DEF Chain
        <5>5. /\ r + 1 + Len(g) < next["fg"]
              /\ th["fg"].pc \in {"recv", "wait"} => r + 1 + Len(g) + 1 = next["fg"]
              /\ Sending(th["fg"].pc, th["fg"].then) => r + 1 + Len(g) + 2 = next["fg"]
          BY <1>8, <3>1, <5>4
        <5>6. r + 1 \in Nat /\ (\A i \in 1..Len(g) : g[i][2] = r + 1 + i)
          BY <1>6, <1>8, <3>1
        <5> QED BY <1>10, <2>1, <4>1, <5>1, <5>2, <5>3, <5>5, <5>6 DEF Chain
      <4> QED BY <1>4, <4>2 DEF ChainOK, g
    <3>2. CASE o.ret # "item"
      <4>1. Chain(r, th'["enc"].pc, th'["enc"].n, th'["enc"].then, th'["fg"].pc,
                  th'["fg"].then, g, next'["fg"], Dts(ms', 2))
        <5>1. p = "done"
          BY <1>11, <3>2
        <5>2. \A i \in 1..Len(g) : g[i][2] = r + i
          BY <1>9, <3>2
        <5>3. f = q["enc"].fifo /\ UNCHANGED next
          BY <1>3 DEF f
        <5> QED BY <1>6, <1>9, <1>10, <2>1, <3>2, <5>1, <5>2, <5>3 DEF Chain, InHand
      <4> QED BY <1>4, <4>1 DEF ChainOK, g
    <3> QED BY <3>1, <3>2
  <2>4. GateOK' /\ CopiedOK' /\ MainOK' /\ AheadOK'
    BY <1>3, <2>1, GateSame, CopiedKept, SameDtsOf, Unmoved DEF Lead, MainOK, AheadOK
  <2> QED BY <2>2, <2>3, <2>4 DEF Lead
<1>12. CASE o.ret = "item" /\ th' = [th EXCEPT !["enc"].pc = "mux", !["enc"].n = o.x]
  <2>1. o.x \in 0..EofFrame
    <3>1. o.x \in 1..N
      <4>1. QueueOK(q["enc"], 1..N) /\ {1} \in SUBSET Streams
        BY EncQueue DEF Streams
      <4> QED BY <1>12, <4>1, ReceiveOK
    <3> QED BY <3>1, SchedulerAssumption DEF EofFrame
  <2>2. Moved("enc", "mux", o.x, th["enc"].then)
    BY <1>1, <1>12, <2>1, HandMoves DEF TypeInv
  <2> QED BY <1>11, <1>12, <2>2
<1>13. CASE Fails("enc", "done") \/ Goto("enc", "done")
  <2>1. Moved("enc", "done", th["enc"].n, th["enc"].then)
    BY <1>1, <1>13, FailsMoves, GotoMoves DEF TypeInv
  <2> QED BY <1>11, <2>1
<1> QED BY <1>2, <1>5, <1>12, <1>13

LEMMA EncDoneLead == ASSUME TypeInv, Lead, EncDone PROVE Lead'
<1>1. /\ "enc" \in Everyone /\ th["enc"].pc = "done" /\ "mux" \in Places /\ Null \in 0..EofFrame
  BY SchedulerAssumption DEF Everyone, Tasks, EncDone, Places, Null, EofFrame
<1>2. UNCHANGED <<schedule, choked, next, mux_started, ms, ended>>
  BY DEF EncDone, Local, SchedKeep, MuxKeep
<1>3. "mux" \notin ended
  BY <1>1 DEF Lead, CodingOK, Coding
<1>4. th' = [th EXCEPT !["enc"].pc = "mux", !["enc"].n = Null, !["enc"].closing = TRUE]
  BY <1>3 DEF EncDone
<1>5. Moved("enc", "mux", Null, th["enc"].then)
  BY <1>1, <1>4, LastHandMoves DEF TypeInv
<1>6. th'["enc"].closing
  BY <1>1, <1>4 DEF TypeInv, ThreadsOK, ThreadType
<1>7. q'["enc"].fifo = q["enc"].fifo
  <2> DEFINE b == ReceiveFinish(q["enc"], {1})
  <2>1. q' = [q EXCEPT !["enc"] = b]
    BY DEF EncDone
  <2>2. b.fifo = q["enc"].fifo
    BY EncQueue DEF ReceiveFinish, QueueOK, QueueType
  <2> HIDE DEF b
  <2> QED BY <2>1, <2>2, EncQueue
<1>8. CalmEnc
  BY <1>5 DEF CalmEnc, Moved, InHand
<1>9. CodingOK'
  BY <1>2, <1>3, <1>5, <1>6 DEF CodingOK, Coding, Moved, At, InHand
<1> QED BY <1>2, <1>5, <1>7, <1>8, <1>9, EncoderLead, SameDtsOf

-----------------------------------------------------------------------------
(* The steps of the others.                                                *)

\* No operation on another queue is one on the encoder's.
LEMMA EncQueueKept ==
  ASSUME TypeInv, NEW k \in Queues \ {"enc"}, NEW v, q' = [q EXCEPT ![k] = v]
  PROVE  q'["enc"] = q["enc"]
BY EncQueue

LEMMA DecoderLead == ASSUME TypeInv, Lead, DecReceive \/ DecSend \/ DecDone PROVE Lead'
<1>1. "dec" \in Everyone /\ {"recv", "send", "done", "gone", "exit"} \subseteq Places
      /\ {"dec", "fg"} \subseteq Queues \ {"enc"} /\ "enc" \in Queues
  BY DEF Everyone, Tasks, Places, Queues
<1>2. UNCHANGED <<schedule, choked, next, mux_started, ms>>
  BY DEF DecReceive, DecSend, DecDone, Local, SchedKeep, MuxKeep
<1>3. "mux" \in ended' => "mux" \in ended
  BY DEF DecReceive, DecSend, DecDone
<1>4. q'["enc"] = q["enc"]
  <2>1. CASE DecReceive
    BY <1>1, <2>1, EncQueueKept DEF DecReceive
  <2>2. CASE DecSend
    <3>1. \E v : q' = [q EXCEPT !["fg"] = v]
      BY <2>2 DEF DecSend
    <3> QED BY <1>1, <3>1, EncQueueKept
  <2>3. CASE DecDone
    <3> DEFINE a == ReceiveFinish(q["dec"], {1})
               b == IF "fg" \in ended THEN q["fg"] ELSE FinishInput(q["fg"])
    <3>1. q' = [[q EXCEPT !["dec"] = a] EXCEPT !["fg"] = b]
      BY <2>3 DEF DecDone
    <3> HIDE DEF a, b
    <3> QED BY <1>1, <3>1 DEF TypeInv, QueuesOK
  <2> QED BY <2>1, <2>2, <2>3
<1>5. th'["d"] = th["d"] /\ th'["enc"] = th["enc"] /\ th'["fg"] = th["fg"]
      /\ th'["main"] = th["main"]
  BY DEF DecReceive, DecSend, DecDone, Goto, Fails, TypeInv, ThreadsOK, Everyone, Tasks
<1>6. MainOK'
  BY <1>5 DEF Lead, MainOK
<1> QED BY <1>2, <1>3, <1>4, <1>5, <1>6, AsideLead, SameDtsOf

LEMMA MuxReceiveLead == ASSUME TypeInv, Lead, MuxReceive PROVE Lead'
<1>1. UNCHANGED <<schedule, choked, next, mux_started, ms, ended>>
  BY DEF MuxReceive, SchedKeep
<1>2. q'["enc"] = q["enc"]
  <2>1. \E v : q' = [q EXCEPT !["mux"] = v]
    BY DEF MuxReceive
  <2>2. "mux" \in Queues \ {"enc"}
    BY DEF Queues
  <2> QED BY <2>1, <2>2, EncQueueKept
<1>3. th'["d"] = th["d"] /\ th'["enc"] = th["enc"] /\ th'["fg"] = th["fg"]
      /\ th'["main"] = th["main"]
  <2>1. UNCHANGED th \/ Fails("mux", "done") \/ Goto("mux", "done") \/ Goto("mux", "finish")
    BY DEF MuxReceive
  <2> QED BY <2>1 DEF Goto, Fails, TypeInv, ThreadsOK, Everyone, Tasks
<1>4. MainOK'
  BY <1>3 DEF Lead, MainOK
<1> QED BY <1>1, <1>2, <1>3, <1>4, AsideLead, SameDtsOf

LEMMA MainLead ==
  ASSUME TypeInv, Lead, MainLocal, UNCHANGED choked, NEW p, Goto("main", p),
         p \notin {"choke_fg", "choke_d"}
  PROVE  Lead'
<1>1. th'["d"] = th["d"] /\ th'["enc"] = th["enc"] /\ th'["fg"] = th["fg"]
      /\ th'["main"].pc = p
  BY DEF Goto, TypeInv, ThreadsOK, Everyone, Tasks, ThreadType
<1>2. MainOK'
  BY <1>1 DEF MainOK
<1> QED BY <1>1, <1>2, AsideLead, SameDtsOf DEF MainLocal

-----------------------------------------------------------------------------
(* All steps. An end is not taken back.                                    *)

LEMMA RacingBack ==
  ASSUME TypeInv, [Next]_vars, Racing'
  PROVE  Racing
<1>1. ASSUME UNCHANGED fed, terminate => terminate',
             \A s \in OutStreams : ms[s].source_finished => ms'[s].source_finished
      PROVE  Racing
  <2>1. Unfinished(ms') \subseteq Unfinished(ms) /\ Unfinished(ms) \subseteq OutStreams
    BY <1>1 DEF Unfinished
  <2> QED BY <1>1, <2>1 DEF Racing
<1>2. ASSUME MainKeep, SameDts(ms', ms)
      PROVE  Racing
  BY <1>1, <1>2 DEF MainKeep, SameDts
<1>3. ASSUME MainKeep, UNCHANGED ms
      PROVE  Racing
  BY <1>2, <1>3, SameDtsOf
<1>4. CASE \E t \in Everyone : WaiterSet(t) \/ Exit(t) \/ LastUpdate(t) \/ Waits(t)
  BY <1>3, <1>4 DEF WaiterSet, Exit, LastUpdate, Waits, Update, Local, SchedKeep
<1>5. CASE \E t \in Senders : PreQueue(t) \/ Put(t)
  BY <1>2, <1>5, SendKeeps DEF PreQueue, Put, Local
<1>6. CASE \E t \in Senders : UpdateSchedule(t)
  <2>1. PICK t \in Senders : UpdateSchedule(t)
    BY <1>6
  <2>2. PICK s \in OutStreams : \/ ms' = [ms EXCEPT ![s].source_finished = TRUE]
                                \/ \E n : ms' = [ms EXCEPT ![s].last_dts = n]
    BY <2>1 DEF UpdateSchedule, Update, StreamOf, OutStreams
  <2>3. \A r \in OutStreams : ms[r].source_finished => ms'[r].source_finished
    BY <2>2 DEF TypeInv, StreamsOK, StreamType
  <2> QED BY <1>1, <2>1, <2>3 DEF UpdateSchedule, MainKeep
<1>7. CASE ReadEnd \/ TerminatedD \/ Take \/ SendDec \/ DemuxDone \/ DecReceive \/ DecSend
           \/ DecDone \/ FgSource \/ TerminatedFg \/ FgDone \/ EncReceive \/ EncDone
  BY <1>3, <1>7 DEF ReadEnd, TerminatedD, Take, SendDec, DemuxDone, DecReceive, DecSend, DecDone,
                    FgSource, TerminatedFg, FgDone, EncReceive, EncDone, Local, SchedKeep
<1>8. CASE FgReceive \/ FgSend \/ EncOpen \/ MuxReceive \/ Start
  BY <1>3, <1>8 DEF FgReceive, FgSend, FgKeep, EncOpen, MuxReceive, SchedKeep, Start, Update
<1>9. CASE Flush
  BY <1>2, <1>9, FlushSame, SameDtsOf DEF Flush
<1>10. CASE MuxFinish \/ \E t, pc : MuxDone(t, pc)
  <2>1. \/ ms' = [ms EXCEPT ![1].source_finished = TRUE]
        \/ ms' = [s \in OutStreams |-> [ms[s] EXCEPT !.source_finished = TRUE]]
    BY <1>10 DEF MuxFinish, MuxDone, Update
  <2>2. \A r \in OutStreams : ms[r].source_finished => ms'[r].source_finished
    BY <2>1 DEF TypeInv, StreamsOK, StreamType
  <2> QED BY <1>1, <1>10, <2>2 DEF MuxFinish, MuxDone, MainKeep
<1>11. CASE Finish \/ UserStops \/ Terminate \/ ChokeAll
  BY <1>1, <1>11 DEF Finish, UserStops, Terminate, ChokeAll, MainLocal
<1>12. CASE Join
  BY <1>1, <1>10, <1>12 DEF Join, MainLocal
<1>13. CASE UNCHANGED vars
  BY <1>1, <1>13 DEF vars
<1>14. {"d", "fg", "dec", "enc", "mux", "main"} \subseteq Everyone /\ {"d", "enc"} \subseteq Senders
  BY DEF Everyone, Tasks, Senders
<1>15. CASE Demuxer \/ Encoder
  BY <1>4, <1>5, <1>6, <1>7, <1>14, <1>15 DEF Demuxer, Encoder, SendToMux
<1>16. CASE Decoder \/ FilterGraph
  BY <1>4, <1>7, <1>8, <1>9, <1>14, <1>16 DEF Decoder, FilterGraph
<1>17. CASE Muxer \/ Main \/ UserStops
  BY <1>4, <1>8, <1>10, <1>11, <1>12, <1>14, <1>17 DEF Muxer, Main
<1> QED BY <1>13, <1>15, <1>16, <1>17 DEF Next, Threads

LEMMA LeadNext == TypeInv /\ LeadInv /\ [Next]_vars => LeadInv'
<1> SUFFICES ASSUME TypeInv, LeadInv, [Next]_vars, Racing'
             PROVE  Lead'
  BY DEF LeadInv
<1>1. Racing /\ Lead
  BY RacingBack DEF LeadInv
<1>2. /\ {"d", "fg", "enc", "main", "mux"} \subseteq Everyone
      /\ {"d", "fg", "enc", "dec", "mux"} \subseteq Tasks
  BY DEF Everyone, Tasks
<1>3. CASE Demuxer
  <2>1. ~SendDec
    BY <1>1 DEF SendDec, Lead, CopiedOK, Copied
  <2> QED
    BY <1>1, <1>2, <1>3, <2>1, ReadEndLead, WaitsLead, TakeLead, DemuxDoneLead, SendDLead,
       UpdateScheduleDLead, LastUpdateLead, ExitLead, WaiterSetLead
    DEF Demuxer, SendToMux
<1>4. CASE Decoder
  BY <1>1, <1>2, <1>4, DecoderLead, ExitLead DEF Decoder
<1>5. CASE FilterGraph
  <2>1. ~FgReceive
    BY <1>1 DEF FgReceive, Racing
  <2> QED
    BY <1>1, <1>2, <1>5, <2>1, WaitsLead, FgSourceLead, TerminatedFgLead, EncOpenLead, FlushLead,
       FgSendLead, FgDoneLead, LastUpdateLead, ExitLead, WaiterSetLead
    DEF FilterGraph
<1>6. CASE Encoder
  BY <1>1, <1>2, <1>6, EncReceiveLead, EncDoneLead, SendEncLead, UpdateScheduleEncLead,
     ExitLead, WaiterSetLead
  DEF Encoder, SendToMux
<1>7. ~MuxFinish /\ ~\E t, pc : MuxDone(t, pc)
  <2>1. ASSUME MuxFinish \/ \E t, pc : MuxDone(t, pc)
        PROVE  FALSE
    <3>1. \/ ms' = [ms EXCEPT ![1].source_finished = TRUE]
          \/ ms' = [s \in OutStreams |-> [ms[s] EXCEPT !.source_finished = TRUE]]
      BY <2>1 DEF MuxFinish, MuxDone, Update
    <3>2. ms'[1].source_finished
      BY <3>1 DEF TypeInv, StreamsOK, StreamType, OutStreams
    <3> QED BY <3>2 DEF Racing, Unfinished, OutStreams
  <2> QED BY <2>1
<1>8. CASE Muxer
  BY <1>1, <1>2, <1>7, <1>8, MuxReceiveLead, ExitLead, WaiterSetLead DEF Muxer
<1>9. CASE Main \/ UserStops
  <2>1. ~Terminate /\ ~ChokeAll
    BY <1>1 DEF Terminate, Racing, ChokeAll, Lead, MainOK
  <2>2. CASE Finish \/ UserStops \/ Join
    <3>1. PICK p \in {"stop", "stopped"} : MainLocal /\ UNCHANGED choked /\ Goto("main", p)
      BY <1>7, <2>2 DEF Finish, UserStops, Join
    <3> QED BY <1>1, <3>1, MainLead
  <2> QED BY <1>1, <1>2, <1>9, <2>1, <2>2, StartLead, WaiterSetLead DEF Main
<1>10. CASE UNCHANGED vars
  BY <1>1, <1>10, AsideLead, SameDtsOf DEF vars, Lead, MainOK
<1> QED BY <1>3, <1>4, <1>5, <1>6, <1>8, <1>9, <1>10 DEF Next, Threads

LEMMA LeadInit == Init => LeadInv
<1> SUFFICES ASSUME Init, Racing
             PROVE  Lead
  BY DEF LeadInv
<1>1. /\ th["d"] = Thread("read") /\ th["fg"] = Thread("recv") /\ th["enc"] = Thread("recv")
      /\ th["main"] = Thread("start")
  BY DEF Init, Tasks
<1>2. /\ th["d"].pc = "read" /\ th["fg"].pc = "recv" /\ th["enc"].pc = "recv"
      /\ th["main"].pc = "start"
  <2>1. \A p : Thread(p).pc = p
    BY DEF Thread
  <2> QED BY <1>1, <2>1
<1>3. Dts(ms, 1) = 0 /\ Dts(ms, 2) = 0
  BY DEF Init, Dts, NoDts, OutStreams
<1>4. next["d1"] = 1 /\ next["fg"] = 1
  BY DEF Init
<1>5. q["enc"].fifo = <<>> /\ q["enc"].recv = {} /\ Len(q["enc"].fifo) = 0
  BY DEF Init, EmptyQueue, Queues
<1>6. schedule.by = Nobody /\ schedule.todo = {} /\ \A w \in Waiters : ~choked[w]
  BY DEF Init, Idle
<1>7. Asked(ms) = Waiters
  <2>1. \A s \in OutStreams : ms[s].last_dts = 0 /\ ~ms[s].source_finished
    BY DEF Init, NoDts
  <2>2. Unfinished(ms) = OutStreams /\ {ms[s].last_dts : s \in OutStreams} = {0}
    BY <2>1 DEF Unfinished, OutStreams
  <2>3. trailing_dts(ms) = 0
    <3>1. trailing_dts(ms) = CHOOSE x \in {0} : \A y \in {0} : x <= y
      BY <2>2 DEF trailing_dts
    <3>2. \E x \in {0} : \A y \in {0} : x <= y
      OBVIOUS
    <3> QED BY <3>1, <3>2
  <2>4. NotAhead(ms) = OutStreams
    BY <2>1, <2>2, <2>3 DEF NotAhead, NoDts
  <2> QED BY <2>4 DEF Asked, OutStreams, Waiters
<1>8. Tolerance \in Nat /\ Tolerance >= 1 /\ QueueSize \in Nat
  BY SchedulerAssumption, QueueSizeAssumption
<1>9. GateOK
  BY <1>3, <1>6, <1>7, <1>8 DEF GateOK, Gate
<1>10. CopiedOK
  BY <1>2, <1>3, <1>4, <1>8 DEF CopiedOK, Copied, InHand
<1>11. ChainOK
  <2>1. Chain(0, th["enc"].pc, th["enc"].n, th["enc"].then, th["fg"].pc,
              th["fg"].then, q["enc"].fifo, next["fg"], Dts(ms, 2))
    BY <1>2, <1>3, <1>4, <1>5 DEF Chain, InHand, Sending
  <2> QED BY <2>1 DEF ChainOK
<1>12. CodingOK
  <2>1. ended = {}
    BY DEF Init
  <2> QED BY <1>2, <1>5, <2>1 DEF CodingOK, Coding
<1>13. MainOK /\ AheadOK
  BY <1>2, <1>3, <1>4, <1>8 DEF MainOK, AheadOK
<1> QED BY <1>9, <1>10, <1>11, <1>12, <1>13 DEF Lead

\* While both streams are under way, the copied one is ahead of the encoded one
\* by the tolerance at most, and the encoded one of the copied one by what its
\* queue holds and one frame more: the schedule, computed at every packet and
\* carried out waiter by waiter, keeps two sources together that never hear of
\* each other (ffmpeg_sched.c: schedule_update_locked(), waiter_wait()).
THEOREM SourcesStayTogether == Spec => []BoundedLead
<1> QED BY TypeInit, TypeNext, LeadInit, LeadNext, LeadBounded, PTL DEF Spec
=============================================================================

---------------------------- MODULE ChatPathProofs ----------------------------
(***************************************************************************)
(* Theorems about ChatPath, for any number of messages and any timeout.    *)
(***************************************************************************)
EXTENDS ChatPath, TLAPS

\* Nothing has happened yet about a message that was not sent.
Unsent ==
  /\ \A i \in 1..Len(txt) : txt[i][2] <= sent
  /\ \A r \in Requests : r > sent => call[r] = "none" /\ r \notin boxed

\* The message that is being waited for is the last line of the transcript.
LastLine ==
  window = "sending" =>
    /\ sent >= 1 /\ Len(txt) >= 1 /\ txt[Len(txt)] = <<"You", sent>>
    /\ ~Answered(sent) /\ sent \notin boxed

IInv ==
  /\ TypeOK /\ Unsent /\ LastLine
  /\ RepliesFollowTheirMessage /\ EveryMessageAccounted

Lines == {"You", "Simian"} \X Requests
TxtOK == txt \in Seq(Lines)

WindowOK ==
  /\ api \in {"starting", "listening", "dead", "foreign"}
  /\ window \in {"open", "sending", "box", "closed"}
  /\ sent \in 0..MaxSends /\ waited \in 0..Timeout
  /\ gaveUp \subseteq Requests /\ boxed \subseteq Requests

CallsOK ==
  /\ call \in [Requests -> {"none", "posted", "asking", "replied"}]
  /\ code \in [Requests -> {0, 200, 500, 502}]
  /\ silent \in [Requests -> 0..Timeout]

LEMMA TypeParts == /\ TypeOK <=> TxtOK /\ WindowOK /\ CallsOK
                   /\ TypeOK' <=> TxtOK' /\ WindowOK' /\ CallsOK'
BY Zenon DEF TypeOK, TxtOK, WindowOK, CallsOK, Lines

LEMMA InitIInv == Init => IInv
<1>1. SUFFICES ASSUME Init PROVE IInv
  OBVIOUS
<1> USE ChatAssumption DEF Init, Requests
<1>2. TypeOK
  BY <1>1 DEF TypeOK
<1>3. Unsent /\ LastLine
  BY <1>1 DEF Unsent, LastLine
<1>4. RepliesFollowTheirMessage /\ EveryMessageAccounted
  BY <1>1 DEF RepliesFollowTheirMessage, EveryMessageAccounted
<1> QED
  BY <1>2, <1>3, <1>4 DEF IInv

\* A line at the end of the transcript.
LEMMA AppendLine ==
  ASSUME NEW s \in Seq(Lines), NEW e \in Lines
  PROVE  /\ Append(s, e) \in Seq(Lines)
         /\ Len(s) \in Nat /\ Len(Append(s, e)) = Len(s) + 1
         /\ \A i \in 1..Len(s) : Append(s, e)[i] = s[i]
         /\ Append(s, e)[Len(s) + 1] = e
OBVIOUS

LEMMA TypeStep == IInv /\ [Next]_vars => TypeOK'
<1>1. SUFFICES ASSUME IInv, [Next]_vars PROVE TypeOK'
  OBVIOUS
<1> USE ChatAssumption DEF apiVars, windowVars
<1>2. TxtOK /\ WindowOK /\ CallsOK /\ LastLine
  BY <1>1, TypeParts DEF IInv
<1>3. TxtOK'
  <2>1. CASE Send
    <3>1. <<"You", sent + 1>> \in Lines
      BY <1>2, <2>1 DEF Send, WindowOK, Requests, Lines
    <3> QED
      BY <1>2, <2>1, <3>1, AppendLine DEF Send, TxtOK
  <2>2. CASE Receive
    <3>1. <<"Simian", sent>> \in Lines
      BY <1>2, <2>2 DEF Receive, WindowOK, Requests, LastLine, Lines
    <3>2. txt' = txt \/ txt' = Append(txt, <<"Simian", sent>>)
      BY <2>2 DEF Receive
    <3> QED
      BY <1>2, <3>1, <3>2, AppendLine DEF TxtOK
  <2>3. CASE ~Send /\ ~Receive
    BY <1>1, <1>2, <2>3 DEF Next, vars, StartApi, Handle, Upstream, UpstreamTimeout, Reply,
       Chunk, ForeignAnswer, ForeignChunk, GiveUp, CloseBox, Close, Tick, TxtOK
  <2> QED
    BY <2>1, <2>2, <2>3
<1>4. WindowOK'
  <2> USE DEF WindowOK
  <2>1. CASE Send
    <3>1. sent + 1 \in Requests /\ sent' = sent + 1
      BY <1>2, <2>1 DEF Send, Requests
    <3>2. boxed' \subseteq Requests
      BY <1>2, <2>1, <3>1 DEF Send
    <3>3. sent' \in 0..MaxSends /\ waited' \in 0..Timeout
      BY <2>1, <3>1 DEF Send, Requests
    <3> QED
      BY <1>2, <2>1, <3>2, <3>3 DEF Send
  <2>2. CASE Receive \/ GiveUp
    <3>1. sent \in Requests
      BY <1>2, <2>2 DEF Receive, GiveUp, Requests, LastLine
    <3> QED
      BY <1>2, <2>2, <3>1 DEF Receive, GiveUp
  <2>3. CASE StartApi \/ ForeignChunk \/ CloseBox \/ Close \/ UNCHANGED vars
    BY <1>2, <2>3 DEF StartApi, ForeignChunk, CloseBox, Close, vars
  <2>4. CASE Tick
    BY <1>2, <2>4 DEF Tick
  <2>5. ASSUME NEW r \in Requests,
               \/ Handle(r) \/ Upstream(r) \/ UpstreamTimeout(r) \/ Chunk(r)
               \/ ForeignAnswer(r)
        PROVE  WindowOK'
    BY <1>2, <2>5 DEF Handle, Upstream, UpstreamTimeout, Reply, Chunk, ForeignAnswer
  <2> QED
    BY <1>1, <2>1, <2>2, <2>3, <2>4, <2>5 DEF Next
<1>5. CallsOK'
  <2>1. ASSUME NEW r \in Requests, Handle(r) \/ Chunk(r) PROVE CallsOK'
    BY <1>2, <2>1 DEF Handle, Chunk, CallsOK
  <2>2. ASSUME NEW r \in Requests, Upstream(r) \/ UpstreamTimeout(r) PROVE CallsOK'
    <3>1. PICK outcome : Reply(r, outcome)
      BY <2>2 DEF Upstream, UpstreamTimeout
    <3>2. CodeOf(outcome) \in {200, 500, 502}
      BY DEF CodeOf
    <3> QED
      BY <1>2, <3>1, <3>2 DEF Reply, CallsOK
  <2>3. CASE Tick
    BY <1>2, <2>3 DEF Tick, Waiting, CallsOK
  <2>4. CASE Send
    BY <1>2, <2>4 DEF Send, CallsOK
  <2>5. CASE StartApi \/ ForeignChunk \/ Receive \/ GiveUp \/ CloseBox \/ Close \/ UNCHANGED vars
    BY <1>2, <2>5 DEF StartApi, ForeignChunk, Receive, GiveUp, CloseBox, Close, vars, CallsOK
  <2>6. ASSUME NEW r \in Requests, ForeignAnswer(r) PROVE CallsOK'
    BY <1>2, <2>6 DEF ForeignAnswer, CallsOK
  <2> QED
    BY <1>1, <2>1, <2>2, <2>3, <2>4, <2>5, <2>6 DEF Next
<1> QED
  BY <1>3, <1>4, <1>5, TypeParts

\* The steps of the servers and of time, which do not touch the window.
LEMMA ApiStep ==
  ASSUME IInv, TypeOK', UNCHANGED <<window, sent, txt, gaveUp, boxed>>,
         \A r \in Requests : \/ call'[r] = call[r]
                             \/ call[r] \in {"posted", "asking"}
  PROVE  IInv'
<1>1. TypeOK /\ Unsent /\ LastLine /\ RepliesFollowTheirMessage /\ EveryMessageAccounted
  BY DEF IInv
<1>2. Unsent'
  BY <1>1 DEF Unsent
<1>3. LastLine' /\ RepliesFollowTheirMessage'
  BY <1>1 DEF LastLine, Answered, RepliesFollowTheirMessage
<1>4. EveryMessageAccounted'
  <2>1. sent \in 0..MaxSends
    BY <1>1 DEF TypeOK
  <2>2. SUFFICES ASSUME NEW r \in 1..sent, ~WaitedFor(r)
                 PROVE  /\ Answered(r)' <=> r \notin boxed'
                        /\ call'[r] \in {"posted", "asking"} => r \in gaveUp'
    BY DEF EveryMessageAccounted, WaitedFor
  <2>3. r \in Requests
    BY <2>1, ChatAssumption DEF Requests
  <2>4. (Answered(r) <=> r \notin boxed) /\ (call[r] \in {"posted", "asking"} => r \in gaveUp)
    BY <1>1, <2>2 DEF EveryMessageAccounted
  <2>5. Answered(r)' <=> Answered(r)
    BY DEF Answered
  <2> QED
    BY <2>3, <2>4, <2>5
<1> QED
  BY <1>2, <1>3, <1>4 DEF IInv

LEMMA SendStep == IInv /\ TypeOK' /\ Send => IInv'
<1>1. SUFFICES ASSUME IInv, TypeOK', Send PROVE IInv'
  OBVIOUS
<1> USE ChatAssumption
<1>2. /\ TxtOK /\ WindowOK /\ CallsOK /\ Unsent
      /\ RepliesFollowTheirMessage /\ EveryMessageAccounted
  BY <1>1, TypeParts DEF IInv
<1>3. /\ window = "open" /\ sent' = sent + 1 /\ txt' = Append(txt, <<"You", sent + 1>>)
      /\ gaveUp' = gaveUp
      /\ \/ /\ window' = "sending" /\ boxed' = boxed
            /\ call' = [call EXCEPT ![sent + 1] = "posted"]
         \/ window' = "box" /\ boxed' = boxed \cup {sent + 1} /\ call' = call
  BY <1>1 DEF Send
<1>4. /\ sent \in Nat /\ sent + 1 \in Requests /\ <<"You", sent + 1>> \in Lines
  BY <1>1, <1>2 DEF Send, WindowOK, Requests, Lines
<1>5. /\ Len(txt) \in Nat /\ Len(txt') = Len(txt) + 1
      /\ \A i \in 1..Len(txt) : txt'[i] = txt[i]
      /\ txt'[Len(txt) + 1] = <<"You", sent + 1>>
  BY <1>2, <1>3, <1>4, AppendLine DEF TxtOK
<1>6. \A i \in 1..Len(txt) : txt[i][2] \in Nat /\ txt[i][2] <= sent
  BY <1>2 DEF Unsent, TxtOK, Lines, Requests
<1>7. \A r : Answered(r)' <=> Answered(r)
  BY <1>5 DEF Answered
<1>8. ~Answered(sent + 1)
  BY <1>4, <1>6 DEF Answered
<1>9. Unsent'
  <2>1. \A i \in 1..Len(txt') : txt'[i][2] <= sent'
    <3>1. ASSUME NEW i \in 1..Len(txt') PROVE txt'[i][2] <= sent'
      <4>1. CASE i \in 1..Len(txt)
        BY <1>3, <1>4, <1>5, <1>6, <4>1
      <4>2. CASE i = Len(txt) + 1
        BY <1>3, <1>4, <1>5, <4>2
      <4> QED
        BY <1>5, <4>1, <4>2
    <3> QED
      BY <3>1
  <2>2. \A r \in Requests : r > sent' => call'[r] = "none" /\ r \notin boxed'
    BY <1>2, <1>3, <1>4 DEF Unsent, CallsOK, Requests
  <2> QED
    BY <2>1, <2>2 DEF Unsent
<1>10. LastLine'
  BY <1>2, <1>3, <1>4, <1>5, <1>7, <1>8 DEF LastLine, Unsent
<1>11. RepliesFollowTheirMessage'
  BY <1>2, <1>5 DEF RepliesFollowTheirMessage
<1>12. EveryMessageAccounted'
  <2>1. SUFFICES ASSUME NEW r \in 1..(sent + 1), ~WaitedFor(r)'
                 PROVE  /\ Answered(r)' <=> r \notin boxed'
                        /\ call'[r] \in {"posted", "asking"} => r \in gaveUp
    BY <1>3 DEF EveryMessageAccounted
  <2>2. CASE r = sent + 1
    BY <1>2, <1>3, <1>4, <1>7, <1>8, <2>1, <2>2 DEF WaitedFor, Unsent, CallsOK
  <2>3. CASE r \in 1..sent
    <3>1. (Answered(r) <=> r \notin boxed) /\ (call[r] \in {"posted", "asking"} => r \in gaveUp)
      BY <1>2, <1>3, <2>3 DEF EveryMessageAccounted, WaitedFor
    <3>2. call'[r] = call[r] /\ (r \in boxed' <=> r \in boxed)
      BY <1>2, <1>3, <1>4, <2>3 DEF CallsOK, Requests
    <3> QED
      BY <1>7, <3>1, <3>2
  <2> QED
    BY <1>4, <2>2, <2>3
<1> QED
  BY <1>1, <1>9, <1>10, <1>11, <1>12 DEF IInv

LEMMA ReceiveStep == IInv /\ TypeOK' /\ Receive => IInv'
<1>1. SUFFICES ASSUME IInv, TypeOK', Receive PROVE IInv'
  OBVIOUS
<1> USE ChatAssumption
<1>2. /\ TxtOK /\ WindowOK /\ CallsOK /\ Unsent /\ LastLine
      /\ RepliesFollowTheirMessage /\ EveryMessageAccounted
  BY <1>1, TypeParts DEF IInv
<1>3. /\ window = "sending" /\ call[sent] = "replied" /\ call' = call /\ sent' = sent
      /\ gaveUp' = gaveUp /\ window' # "sending"
      /\ \/ txt' = Append(txt, <<"Simian", sent>>) /\ boxed' = boxed
         \/ txt' = txt /\ boxed' = boxed \cup {sent}
  BY <1>1 DEF Receive, apiVars
<1>4. /\ sent \in Requests /\ sent \in Nat /\ <<"Simian", sent>> \in Lines
      /\ Len(txt) >= 1 /\ txt[Len(txt)] = <<"You", sent>>
      /\ ~Answered(sent) /\ sent \notin boxed
  BY <1>2, <1>3 DEF LastLine, WindowOK, Requests, Lines
<1>5. LastLine'
  BY <1>3 DEF LastLine
<1>6. ASSUME NEW r \in 1..sent, r # sent
      PROVE  (Answered(r) <=> r \notin boxed) /\ (call[r] \in {"posted", "asking"} => r \in gaveUp)
  BY <1>2, <1>6 DEF EveryMessageAccounted, WaitedFor
<1>7. CASE txt' = Append(txt, <<"Simian", sent>>) /\ boxed' = boxed
  <2>1. /\ Len(txt) \in Nat /\ Len(txt') = Len(txt) + 1
        /\ \A i \in 1..Len(txt) : txt'[i] = txt[i]
        /\ txt'[Len(txt) + 1] = <<"Simian", sent>>
    BY <1>2, <1>4, <1>7, AppendLine DEF TxtOK
  <2>2. Unsent'
    BY <1>2, <1>3, <1>4, <1>7, <2>1 DEF Unsent
  <2>3. RepliesFollowTheirMessage'
    BY <1>2, <1>4, <2>1 DEF RepliesFollowTheirMessage
  <2>4. Answered(sent)' /\ \A r : r # sent => (Answered(r)' <=> Answered(r))
    <3>1. Answered(sent)'
      <4>1. Len(txt) + 1 \in 1..Len(txt') /\ sent' = sent
        BY <1>3, <2>1
      <4> QED
        BY <2>1, <4>1 DEF Answered
    <3>2. ASSUME NEW r, r # sent PROVE Answered(r)' <=> Answered(r)
      <4>1. \A i \in 1..Len(txt') : i \in 1..Len(txt) \/ txt'[i] # <<"Simian", r>>
        BY <2>1, <3>2
      <4>2. 1..Len(txt) \subseteq 1..Len(txt')
        BY <2>1
      <4> QED
        BY <2>1, <4>1, <4>2 DEF Answered
    <3> QED
      BY <3>1, <3>2
  <2>5. EveryMessageAccounted'
    BY <1>3, <1>4, <1>6, <1>7, <2>4 DEF EveryMessageAccounted
  <2> QED
    BY <1>1, <1>5, <2>2, <2>3, <2>5 DEF IInv
<1>8. CASE txt' = txt /\ boxed' = boxed \cup {sent}
  <2>1. Unsent' /\ RepliesFollowTheirMessage'
    BY <1>2, <1>3, <1>4, <1>8 DEF Unsent, RepliesFollowTheirMessage
  <2>2. \A r : Answered(r)' <=> Answered(r)
    BY <1>8 DEF Answered
  <2>3. EveryMessageAccounted'
    BY <1>3, <1>4, <1>6, <1>8, <2>2 DEF EveryMessageAccounted
  <2> QED
    BY <1>1, <1>5, <2>1, <2>3 DEF IInv
<1> QED
  BY <1>3, <1>7, <1>8

\* The client's timeout, the end of a message box and the end of the process.
LEMMA WindowStep == IInv /\ TypeOK' /\ (GiveUp \/ CloseBox \/ Close) => IInv'
<1>1. SUFFICES ASSUME IInv, TypeOK', GiveUp \/ CloseBox \/ Close PROVE IInv'
  OBVIOUS
<1> USE ChatAssumption
<1>2. /\ TxtOK /\ WindowOK /\ CallsOK /\ Unsent /\ LastLine
      /\ RepliesFollowTheirMessage /\ EveryMessageAccounted
  BY <1>1, TypeParts DEF IInv
<1>3. /\ call' = call /\ sent' = sent /\ txt' = txt /\ window' # "sending"
      /\ \/ window = "sending" /\ gaveUp' = gaveUp \cup {sent} /\ boxed' = boxed \cup {sent}
         \/ window # "sending" /\ gaveUp' = gaveUp /\ boxed' = boxed
  BY <1>1 DEF GiveUp, CloseBox, Close, apiVars
<1>4. sent \in Nat /\ (window = "sending" => ~Answered(sent))
  BY <1>2 DEF LastLine, WindowOK
<1>5. Unsent' /\ LastLine' /\ RepliesFollowTheirMessage'
  BY <1>2, <1>3, <1>4 DEF Unsent, LastLine, RepliesFollowTheirMessage, Requests
<1>6. \A r : Answered(r)' <=> Answered(r)
  BY <1>3 DEF Answered
<1>7. EveryMessageAccounted'
  BY <1>2, <1>3, <1>4, <1>6 DEF EveryMessageAccounted, WaitedFor
<1> QED
  BY <1>1, <1>5, <1>7 DEF IInv

LEMMA Inductive == IInv /\ [Next]_vars => IInv'
<1>1. SUFFICES ASSUME IInv, [Next]_vars PROVE IInv'
  OBVIOUS
<1>2. TypeOK' /\ CallsOK
  BY <1>1, TypeStep, TypeParts DEF IInv
<1>3. CASE Send \/ Receive \/ GiveUp \/ CloseBox \/ Close
  BY <1>1, <1>2, <1>3, SendStep, ReceiveStep, WindowStep
<1>4. CASE StartApi \/ ForeignChunk \/ Tick \/ UNCHANGED vars
  <2>1. call' = call /\ UNCHANGED <<window, sent, txt, gaveUp, boxed>>
    BY <1>4 DEF StartApi, ForeignChunk, Tick, vars, apiVars, windowVars
  <2> QED
    BY <1>1, <1>2, <2>1, ApiStep
<1>5. ASSUME NEW r \in Requests,
             \/ Handle(r) \/ Upstream(r) \/ UpstreamTimeout(r) \/ Chunk(r)
             \/ ForeignAnswer(r)
      PROVE  IInv'
  <2>1. UNCHANGED <<window, sent, txt, gaveUp, boxed>>
    BY <1>5 DEF Handle, Upstream, UpstreamTimeout, Reply, Chunk, ForeignAnswer, windowVars
  <2>2. call[r] \in {"posted", "asking"} /\ \A s \in Requests : s # r => call'[s] = call[s]
    BY <1>2, <1>5 DEF Handle, Upstream, UpstreamTimeout, Reply, Chunk, ForeignAnswer, CallsOK
  <2> QED
    BY <1>1, <1>2, <2>1, <2>2, ApiStep
<1> QED
  BY <1>1, <1>3, <1>4, <1>5 DEF Next

LEMMA Invariant == Spec => []IInv
BY InitIInv, Inductive, PTL DEF Spec

\* Every variable keeps its type: a line of the transcript belongs to a message,
\* each call of the API is at a step of its handler and no wait passes its timeout.
THEOREM TypeCorrect == Spec => []TypeOK
BY Invariant, PTL DEF IInv

\* A reply stands right below the message it answers, whatever requests that were
\* given up still finish (on_send(), lines 107 to 119).
THEOREM RepliesInPlace == Spec => []RepliesFollowTheirMessage
BY Invariant, PTL DEF IInv

\* Every message has had its reply or its error box, never both and never neither,
\* and is only worked on after that when the client has waited in full.
THEOREM MessagesAccounted == Spec => []EveryMessageAccounted
BY Invariant, PTL DEF IInv
=============================================================================

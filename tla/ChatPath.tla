------------------------------ MODULE ChatPath ------------------------------
(***************************************************************************)
(* A chat message on its way from the window to the model and back:        *)
(* on_send() of gui/simian_gui.py posts it with modules/llm_client.py to   *)
(* chat_api() of routes/chat.py, which posts it to Ollama.  The launcher   *)
(* (simian_launcher.py, mode full) runs the API on a daemon thread of the  *)
(* window's process and looks after it no further.                         *)
(*                                                                         *)
(* The Tk thread waits for one reply at a time, but a request it gave up   *)
(* is still being worked on: chat_api() does not notice that the client    *)
(* has gone.  Both sides wait 120 seconds: the client for the response,    *)
(* chat_api() for the next bytes from Ollama, however often they come.     *)
(* A message is the number of its on_send(); Ollama is external, and so is *)
(* another server that may have the API's port before it: the window posts *)
(* to whatever listens there.                                              *)
(***************************************************************************)
EXTENDS Integers, Sequences

CONSTANTS MaxSends,  \* bound: the number of messages the user sends
          Timeout    \* both timeouts, in units of time

ASSUME ChatAssumption == MaxSends \in Nat /\ Timeout \in Nat \ {0}

Requests == 1..MaxSends

\* What a request to Ollama can come to: a JSON object with a message, with a
\* response, or with neither; an HTTP error status; no connection; or a body
\* chat_api() cannot take apart, such as the many JSON lines of a reply that
\* Ollama streams because the request does not say "stream": false.
Outcomes == {"message", "response", "neither", "status", "refused", "garbled"}

VARIABLES
  api,       \* what is at the API's port
  window,    \* what the Tk thread is doing
  sent,      \* the number of the last message
  txt,       \* the transcript: <<"You", r>> and <<"Simian", r>>
  call,      \* how far each request has come
  code,      \* the HTTP status of each finished request
  waited,    \* how long the client has waited for its response
  silent,    \* how long chat_api() has waited for bytes, for each request
  gaveUp,    \* history: the requests the client timed out on
  boxed      \* history: the requests that ended in the "Chat error" box

apiVars    == <<api, call, code, silent>>
windowVars == <<window, sent, txt, waited, gaveUp, boxed>>
vars == <<api, window, sent, txt, call, code, waited, silent, gaveUp, boxed>>

TypeOK ==
  /\ api \in {"starting", "listening", "dead", "foreign"}
  /\ window \in {"open", "sending", "box", "closed"}
  /\ sent \in 0..MaxSends
  /\ txt \in Seq({"You", "Simian"} \X Requests)
  /\ call \in [Requests -> {"none", "posted", "asking", "replied"}]
  /\ code \in [Requests -> {0, 200, 500, 502}]
  /\ waited \in 0..Timeout
  /\ silent \in [Requests -> 0..Timeout]
  /\ gaveUp \subseteq Requests
  /\ boxed \subseteq Requests

Init ==
  /\ api \in {"starting", "foreign"}
  /\ window = "open"
  /\ sent = 0
  /\ txt = <<>>
  /\ call = [r \in Requests |-> "none"]
  /\ code = [r \in Requests |-> 0]
  /\ waited = 0
  /\ silent = [r \in Requests |-> 0]
  /\ gaveUp = {}
  /\ boxed = {}

Alive == window # "closed"

-----------------------------------------------------------------------------
(* The API thread.                                                         *)

\* uvicorn binds its port and listens, or cannot start and ends the thread; with
\* another server at the port it always does the latter.
StartApi ==
  /\ Alive
  /\ api = "starting"
  /\ api' \in {"listening", "dead"}
  /\ UNCHANGED <<call, code, silent, windowVars>>

\* chat_api() up to its request.  The window always sends one message, so the
\* 422 for an empty request is out of its reach.
Handle(r) ==
  /\ Alive
  /\ api = "listening"
  /\ call[r] = "posted"
  /\ call' = [call EXCEPT ![r] = "asking"]
  /\ UNCHANGED <<api, code, silent, windowVars>>

\* Variant of CodeOf: a timeout gets a status of its own.
CodeWithGatewayTimeout(outcome) ==
  CASE outcome \in {"message", "response", "neither"} -> 200
    [] outcome \in {"status", "refused"}              -> 502
    [] outcome = "timeout"                            -> 504
    [] OTHER                                          -> 500

\* The status chat_api() answers with; what is not an httpx.HTTPError leaves
\* it as an exception, which FastAPI turns into a 500.
CodeOf(outcome) ==
  CASE outcome \in {"message", "response", "neither"} -> 200
    [] outcome \in {"status", "refused", "timeout"}   -> 502
    [] OTHER                                          -> 500

Reply(r, outcome) ==
  /\ call[r] = "asking"
  /\ call' = [call EXCEPT ![r] = "replied"]
  /\ code' = [code EXCEPT ![r] = CodeOf(outcome)]
  /\ silent' = [silent EXCEPT ![r] = 0]
  /\ UNCHANGED <<api, windowVars>>

Upstream(r) == Alive /\ \E outcome \in Outcomes : Reply(r, outcome)

UpstreamTimeout(r) == Alive /\ silent[r] = Timeout /\ Reply(r, "timeout")

\* Variant of Chunk: what arrives from Ollama is passed on to the client.
ChunkPassedOn(r) ==
  /\ Alive
  /\ call[r] = "asking"
  /\ silent' = [silent EXCEPT ![r] = 0]
  /\ waited' = IF r = sent THEN 0 ELSE waited
  /\ UNCHANGED <<api, call, code, window, sent, txt, gaveUp, boxed>>

\* Some bytes of a longer reply restart the timeout.
Chunk(r) ==
  /\ Alive
  /\ call[r] = "asking"
  /\ silent' = [silent EXCEPT ![r] = 0]
  /\ UNCHANGED <<api, call, code, windowVars>>

-----------------------------------------------------------------------------
(* The Tk thread: on_send().                                               *)

\* Up to the request; a blank entry returns before anything happens.
Send ==
  /\ window = "open"
  /\ sent < MaxSends
  /\ sent' = sent + 1
  /\ txt' = Append(txt, <<"You", sent + 1>>)
  /\ waited' = 0
  /\ IF api \in {"listening", "foreign"}
     THEN window' = "sending" /\ call' = [call EXCEPT ![sent + 1] = "posted"]
                              /\ boxed' = boxed
     ELSE window' = "box" /\ call' = call /\ boxed' = boxed \cup {sent + 1}
  /\ UNCHANGED <<api, code, silent, gaveUp>>

\* Another server answers in a way the window can show, or it cannot ...
ForeignAnswer(r) ==
  /\ api = "foreign"
  /\ call[r] = "posted"
  /\ call' = [call EXCEPT ![r] = "replied"]
  /\ \E status \in {200, 500} : code' = [code EXCEPT ![r] = status]
  /\ UNCHANGED <<api, silent, windowVars>>

\* ... or byte by byte, each of which restarts the client's timeout.
ForeignChunk ==
  /\ api = "foreign"
  /\ window = "sending"
  /\ waited' = 0
  /\ UNCHANGED <<apiVars, window, sent, txt, gaveUp, boxed>>

\* Variant of Receive: a late reply to an earlier message is taken for the
\* answer.
ReceiveAny ==
  /\ window = "sending"
  /\ \E r \in 1..sent :
       /\ call[r] = "replied" /\ code[r] = 200
       /\ txt' = Append(txt, <<"Simian", r>>)
  /\ window' = "open"
  /\ UNCHANGED <<apiVars, sent, waited, gaveUp, boxed>>

\* The response: raise_for_status() sends an error to the message box.
Receive ==
  /\ window = "sending"
  /\ call[sent] = "replied"
  /\ IF code[sent] = 200
     THEN window' = "open" /\ txt' = Append(txt, <<"Simian", sent>>) /\ boxed' = boxed
     ELSE window' = "box" /\ txt' = txt /\ boxed' = boxed \cup {sent}
  /\ UNCHANGED <<apiVars, sent, waited, gaveUp>>

\* Variant of GiveUp: the request is sent with half the timeout.
GiveUpEarly ==
  /\ window = "sending"
  /\ waited >= Timeout \div 2
  /\ window' = "box"
  /\ gaveUp' = IF waited = Timeout THEN gaveUp \cup {sent} ELSE gaveUp
  /\ boxed' = boxed \cup {sent}
  /\ UNCHANGED <<apiVars, sent, txt, waited>>

\* The client's timeout, an exception like any other to on_send().
GiveUp ==
  /\ window = "sending"
  /\ waited = Timeout
  /\ window' = "box"
  /\ gaveUp' = gaveUp \cup {sent}
  /\ boxed' = boxed \cup {sent}
  /\ UNCHANGED <<apiVars, sent, txt, waited>>

CloseBox ==
  /\ window = "box"
  /\ window' = "open"
  /\ UNCHANGED <<apiVars, sent, txt, waited, gaveUp, boxed>>

\* The process ends, and with it the API and whatever it is working on.
Close ==
  /\ window = "open"
  /\ window' = "closed"
  /\ UNCHANGED <<apiVars, sent, txt, waited, gaveUp, boxed>>

-----------------------------------------------------------------------------
\* Time passes, but not beyond a timeout that is due.
Waiting == {r \in Requests : call[r] = "asking"}

Tick ==
  /\ Alive
  /\ window = "sending" => waited < Timeout
  /\ \A r \in Waiting : silent[r] < Timeout
  /\ window = "sending" \/ Waiting # {}
  /\ waited' = IF window = "sending" THEN waited + 1 ELSE waited
  /\ silent' = [r \in Requests |-> IF r \in Waiting THEN silent[r] + 1 ELSE silent[r]]
  /\ UNCHANGED <<api, call, code, window, sent, txt, gaveUp, boxed>>

Next ==
  \/ StartApi
  \/ \E r \in Requests : Handle(r) \/ Upstream(r) \/ UpstreamTimeout(r) \/ Chunk(r)
  \/ \E r \in Requests : ForeignAnswer(r)
  \/ ForeignChunk
  \/ Send \/ Receive \/ GiveUp \/ CloseBox \/ Close
  \/ Tick

Spec == Init /\ [][Next]_vars

\* Time passes, timeouts fire and responses are read.  Ollama need not answer,
\* and may send bytes for ever.
Fairness ==
  /\ SF_vars(Tick)
  /\ WF_vars(Receive) /\ WF_vars(GiveUp)
  /\ \A r \in Requests : WF_vars(UpstreamTimeout(r))

FairSpec == Spec /\ Fairness

-----------------------------------------------------------------------------
(* Properties.                                                             *)

Answered(r) == \E i \in 1..Len(txt) : txt[i] = <<"Simian", r>>

\* In the transcript a reply directly follows the message it answers, also
\* when requests the user has long given up finish in between.
RepliesFollowTheirMessage ==
  \A i \in 1..Len(txt) :
    txt[i][1] = "Simian" => i > 1 /\ txt[i - 1] = <<"You", txt[i][2]>>

WaitedFor(r) == r = sent /\ window = "sending"

\* Every message but the one being waited for has come to exactly one end, a
\* reply in the transcript or an error box; and the API works on it still only
\* if the client gave it up after the whole timeout, so that repeating a
\* message adds to the work only then.
EveryMessageAccounted ==
  \A r \in 1..sent :
    \/ WaitedFor(r)
    \/ /\ Answered(r) <=> r \notin boxed
       /\ call[r] \in {"posted", "asking"} => r \in gaveUp

\* Whatever Ollama does, a slow reply included that never ends, the window
\* comes back from on_send() unless another server has the API's port: that one
\* can keep it for ever.
SendReturns == window = "sending" /\ api # "foreign" ~> window # "sending"
=============================================================================

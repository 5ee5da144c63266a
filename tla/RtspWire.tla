----------------------------- MODULE RtspWire -----------------------------
(***************************************************************************)
(* One RTSP connection of internal/rtsp/server.go as its two byte streams. *)
(* Upstream the client mixes requests, some with a body, with interleaved  *)
(* frames; readRequest takes them apart.  Downstream the handler's         *)
(* responses and the frames of interleaved senders share one socket, each  *)
(* chunk written under writeMu.  The answers of the lab are any it can     *)
(* give; what they depend on is in RtspServer and LabManager.              *)
(*                                                                         *)
(* A token of the upstream is a line or, for payload bytes, whatever line  *)
(* they happen to look like.                                               *)
(***************************************************************************)
EXTENDS Integers, Sequences, FiniteSets

CONSTANTS
  Scripts,        \* what the client may send: sequences of requests and frames
  UpCap,          \* bound on tokens sent and not yet read
  WireCap,        \* chunks the socket and the client's buffer hold
  LabErrors       \* errors lab.Setup may return besides nil

Requests == [kind : {"request"}, session : {"none", "mine"}, body : Nat,
             method : {"OPTIONS", "DESCRIBE", "SETUP", "PLAY", "PAUSE", "TEARDOWN",
                       "GET_PARAMETER", "ANNOUNCE"},
             transport : {"none", "tcp", "bad"}]
Frames   == [kind : {"frame"}, body : Nat]

ASSUME ScriptAssumption ==
  /\ \A script \in Scripts : script \in Seq(Requests \cup Frames)
  /\ UpCap \in Nat \ {0} /\ WireCap \in Nat \ {0}
  /\ LabErrors \subseteq {"no_tuner", "no_signal", "tuner_wedged",
                          "service_not_found", "invalid_tune"}

VARIABLES
  profile,     \* RequireDescribeBeforeSetup, and whether config says tuner_busy
  script,      \* what this client sends, one item after the other
  sent,        \* items sent so far
  up,          \* upstream tokens the server has not read
  buffer,      \* readRequest: the lines of the request being read
  skip,        \* tokens of a frame or a body still to discard
  request,     \* the request handled, or NoRequest
  response,    \* its response, until it is written
  described,   \* connectionState.described
  live,        \* whether the session the client set up is in the session map
  stopCh,      \* session.stopCh: the sender it would stop, 0 for nil
  afterWrite,  \* connectionState.afterWrite holds a sender start
  senders,     \* the sender goroutines started, in order
  writer,      \* who holds writeMu
  wire,        \* chunks written and not yet read by the client
  log,         \* every response written, in order (history)
  heard        \* responses the client has read

inVars     == <<sent, up>>
readVars   == <<buffer, skip>>
stateVars  == <<described, live>>
senderVars == <<stopCh, senders>>
outVars    == <<writer, wire, log>>
vars == <<profile, script, sent, up, buffer, skip, request, response, described, live,
          stopCh, afterWrite, senders, writer, wire, log, heard>>

NoRequest  == [method |-> "none"]
NoResponse == [cseq |-> 0, status |-> "none"]
Nobody     == 0
Responder  == -1

Asked == {i \in DOMAIN script : script[i].kind = "request"}

\* The CSeq of item i: requests are numbered as the client sends them.
CSeq(i) == Cardinality({j \in Asked : j <= i})

Init ==
  /\ profile \in [requireDescribe : BOOLEAN, busy : BOOLEAN]
  /\ script \in Scripts
  /\ sent = 0 /\ up = <<>> /\ buffer = <<>> /\ skip = 0
  /\ request = NoRequest /\ response = NoResponse
  /\ described = FALSE /\ live = FALSE
  /\ stopCh = 0 /\ afterWrite = FALSE /\ senders = <<>>
  /\ writer = Nobody /\ wire = <<>> /\ log = <<>> /\ heard = 0

----------------------------------------------------------------------------
(* The client.                                                             *)

\* Payload bytes are shown at their worst: as blank lines.
Payload(n) == [i \in 1..n |-> [is |-> "blank"]]
Tokens(i) ==
  IF script[i].kind = "frame"
    THEN <<[is |-> "$", length |-> script[i].body]>> \o Payload(script[i].body)
    ELSE <<[is |-> "first", item |-> i],
           [is |-> "header", cseq |-> CSeq(i), length |-> script[i].body],
           [is |-> "blank"]>> \o Payload(script[i].body)

\* A client names a session only after it read the response that gave it the id.
LastSetup(i) == {j \in Asked : j < i /\ script[j].method = "SETUP"}
KnowsSession(i) == \A j \in LastSetup(i) : heard >= CSeq(j)

Send ==
  /\ sent < Len(script)
  /\ Len(up) < UpCap
  /\ script[sent + 1].kind = "request" /\ script[sent + 1].session = "mine"
       => KnowsSession(sent + 1)
  /\ up' = up \o Tokens(sent + 1)
  /\ sent' = sent + 1
  /\ UNCHANGED <<profile, script, readVars, request, response, stateVars, senderVars,
                 afterWrite, outVars, heard>>

Read ==
  /\ wire # <<>>
  /\ wire' = Tail(wire)
  /\ heard' = heard + (IF Head(wire).is = "response" THEN 1 ELSE 0)
  /\ UNCHANGED <<profile, script, inVars, readVars, request, response, stateVars,
                 senderVars, afterWrite, writer, log>>

----------------------------------------------------------------------------
(* readRequest: one token at a time.                                       *)

Reading == request = NoRequest /\ response = NoResponse /\ ~afterWrite /\ up # <<>>

\* io.CopyN to io.Discard: of a frame, or of a body before its request is handled.
Discard ==
  /\ skip > 0 /\ up # <<>>
  /\ skip' = skip - 1
  /\ up' = Tail(up)
  /\ UNCHANGED <<profile, script, sent, buffer, request, response, stateVars, senderVars,
                 afterWrite, outVars, heard>>

FrameLength_HeaderOnly(token) == 0    \* fault: only the four header bytes are read

\* discardInterleavedFrame: the two length bytes of the header.
FrameLength(token) == token.length

\* A '$' where a line would begin starts a frame, in the middle of a request too.
SkipFrame ==
  /\ Reading /\ skip = 0
  /\ Head(up).is = "$"
  /\ skip' = FrameLength(Head(up))
  /\ up' = Tail(up)
  /\ UNCHANGED <<profile, script, sent, buffer, request, response, stateVars, senderVars,
                 afterWrite, outVars, heard>>

\* parseRequest: the method is on the first line, wherever the request line is.
Header(lines) == {i \in DOMAIN lines : lines[i].is = "header"}
Parsed(lines) ==
  LET headers == Header(lines)
      cseq    == IF headers = {} THEN 0 ELSE lines[CHOOSE i \in headers : TRUE].cseq
  IN  IF lines[1].is = "first"
        THEN [method |-> script[lines[1].item].method, cseq |-> cseq,
              session |-> script[lines[1].item].session,
              transport |-> script[lines[1].item].transport]
        ELSE [method |-> "", cseq |-> cseq, session |-> "none", transport |-> "none"]

ContentLength(lines) ==
  LET headers == Header(lines)
  IN  IF headers = {} THEN 0 ELSE lines[CHOOSE i \in headers : TRUE].length

\* A request ends with the first blank line after another line.
ReadLine ==
  /\ Reading /\ skip = 0
  /\ Head(up).is # "$"
  /\ up' = Tail(up)
  /\ LET lines == Append(buffer, Head(up))
     IN  IF Head(up).is = "blank" /\ Len(lines) > 1
           THEN /\ buffer' = <<>>
                /\ skip' = ContentLength(lines)
                /\ request' = Parsed(lines)
           ELSE /\ buffer' = lines
                /\ UNCHANGED <<skip, request>>
  /\ UNCHANGED <<profile, script, sent, response, stateVars, senderVars, afterWrite,
                 outVars, heard>>

----------------------------------------------------------------------------
(* The handler.  io.CopyN takes the body before the request is returned.   *)

Handling(method) == request.method = method /\ response = NoResponse /\ skip = 0

Reply(status) ==
  /\ response' = [cseq |-> request.cseq, status |-> status]
  /\ request' = NoRequest
  /\ UNCHANGED <<profile, script, inVars, readVars, outVars, heard>>

\* stopStreaming: the sender is told to stop; it may be anywhere in its loop.
Told(k) == [senders EXCEPT ![k].told = TRUE]
StopStreaming ==
  /\ stopCh' = 0
  /\ senders' = IF stopCh = 0 THEN senders ELSE Told(stopCh)

Options ==
  /\ Handling("OPTIONS")
  /\ Reply("200")
  /\ UNCHANGED <<stateVars, senderVars, afterWrite>>

Describe ==
  /\ Handling("DESCRIBE")
  /\ described' = TRUE
  /\ Reply("200")
  /\ UNCHANGED <<live, senderVars, afterWrite>>

\* The status of a SETUP the lab answers with err.
SetupStatus(err) ==
  CASE err \in {"no_tuner", "no_signal", "tuner_wedged"} -> "503"
    [] err = "service_not_found" -> "404"
    [] OTHER -> "400"

\* The gates a SETUP passes before it reaches the lab, in order.
SetupGate_NoDescribe(req) ==     \* fault: the profile's DESCRIBE rule is forgotten
  IF profile.busy THEN "503" ELSE IF req.transport = "bad" THEN "461" ELSE "open"
SetupGate(req) ==
  IF profile.requireDescribe /\ ~described THEN "455"
  ELSE IF profile.busy THEN "503"
  ELSE IF req.transport = "bad" THEN "461"
  ELSE "open"

Setup ==
  /\ Handling("SETUP")
  /\ IF SetupGate(request) # "open"
       THEN /\ Reply(SetupGate(request))
            /\ UNCHANGED <<stateVars, senderVars, afterWrite>>
       ELSE \/ /\ live' = TRUE          \* a new session: it has no sender yet
               /\ stopCh' = 0
               /\ Reply("200")
               /\ UNCHANGED <<described, senders, afterWrite>>
            \/ \E err \in LabErrors :
                 /\ Reply(SetupStatus(err))
                 /\ UNCHANGED <<stateVars, senderVars, afterWrite>>

Named == request.session = "mine" /\ live

Play_AtOnce ==                   \* fault: the sender does not wait for the response
  /\ Handling("PLAY")
  /\ Reply(IF Named THEN "200" ELSE "454")
  /\ senders' = IF Named THEN Append(senders, [at |-> "select", told |-> FALSE,
                                              play |-> request.cseq])
                ELSE senders
  /\ UNCHANGED <<stateVars, stopCh, afterWrite>>

\* handlePlayWithState: an interleaved sender starts after the response is written.
Play ==
  /\ Handling("PLAY")
  /\ \/ /\ ~Named
        /\ Reply("454")
        /\ UNCHANGED afterWrite
     \/ /\ Named
        /\ \/ /\ Reply("200")                       \* started by AfterWrite
              /\ afterWrite' = TRUE
           \/ /\ \E status \in {"400", "500"} : Reply(status)   \* pids, payload
              /\ UNCHANGED afterWrite
  /\ UNCHANGED <<stateVars, senderVars>>

Pause ==
  /\ Handling("PAUSE")
  /\ IF Named THEN StopStreaming /\ Reply("200") ELSE UNCHANGED senderVars /\ Reply("454")
  /\ UNCHANGED <<stateVars, afterWrite>>

Teardown_KeepsSender ==          \* fault: the session goes, its sender stays
  /\ Handling("TEARDOWN")
  /\ live' = (live /\ ~Named)
  /\ Reply("200")
  /\ UNCHANGED <<described, senderVars, afterWrite>>

\* A TEARDOWN answers 200 whether or not there is such a session.
Teardown ==
  /\ Handling("TEARDOWN")
  /\ IF Named THEN StopStreaming /\ live' = FALSE ELSE UNCHANGED <<senderVars, live>>
  /\ Reply("200")
  /\ UNCHANGED <<described, afterWrite>>

GetParameter ==
  /\ Handling("GET_PARAMETER")
  /\ Reply(IF Named THEN "200" ELSE "454")
  /\ UNCHANGED <<stateVars, senderVars, afterWrite>>

\* Any other method, and what a stray blank line makes of a request.
Unknown ==
  /\ \E method \in {"ANNOUNCE", ""} : Handling(method)
  /\ Reply("501")
  /\ UNCHANGED <<stateVars, senderVars, afterWrite>>

----------------------------------------------------------------------------
(* The socket: whoever holds writeMu writes one chunk and lets it go.      *)

Lock(who) ==
  /\ writer = Nobody
  /\ writer' = who
  /\ UNCHANGED <<wire, log>>

Write_KeepsLock(chunk) ==        \* fault: no Unlock after the write, and no owner left
  /\ Len(wire) < WireCap
  /\ wire' = Append(wire, chunk)
  /\ writer' = -2
Write(chunk) ==
  /\ Len(wire) < WireCap        \* else conn.Write blocks, with the lock held
  /\ wire' = Append(wire, chunk)
  /\ writer' = Nobody

LockForResponse ==
  /\ response # NoResponse
  /\ Lock(Responder)
  /\ UNCHANGED <<profile, script, inVars, readVars, request, response, stateVars,
                 senderVars, afterWrite, heard>>

WriteResponse ==
  /\ writer = Responder
  /\ Write([is |-> "response", cseq |-> response.cseq])
  /\ log' = Append(log, response)
  /\ response' = NoResponse
  /\ UNCHANGED <<profile, script, inVars, readVars, request, stateVars, senderVars,
                 afterWrite, heard>>

\* runAfterWrite: startStreaming stops the sender the session may still have.
AfterWrite ==
  /\ afterWrite /\ response = NoResponse
  /\ afterWrite' = FALSE
  /\ senders' = Append(IF stopCh = 0 THEN senders ELSE Told(stopCh),
                       [at |-> "select", told |-> FALSE, play |-> log[Len(log)].cseq])
  /\ stopCh' = Len(senders')
  /\ UNCHANGED <<profile, script, inVars, readVars, request, response, stateVars,
                 outVars, heard>>

----------------------------------------------------------------------------
(* A sender: select between its stop channel and its ticker, at random     *)
(* when both are ready, then write a frame (RTCP or RTP) to the socket.    *)

At(k, place) == senders[k].at = place
Goto(k, place) == senders' = [senders EXCEPT ![k].at = place]
SenderRest == UNCHANGED <<profile, script, inVars, readVars, request, response, stateVars,
                          stopCh, afterWrite, heard>>

TakeStop(k) == At(k, "select") /\ senders[k].told /\ Goto(k, "gone")
                 /\ SenderRest /\ UNCHANGED outVars
TakeTick(k) == At(k, "select") /\ Goto(k, "frame") /\ SenderRest /\ UNCHANGED outVars
LockForFrame(k) == At(k, "frame") /\ Lock(k) /\ Goto(k, "write") /\ SenderRest
WriteFrame(k) ==
  /\ At(k, "write")
  /\ Write([is |-> "frame", sender |-> k])
  /\ Goto(k, "select")
  /\ SenderRest /\ UNCHANGED log

\* The packet limit of rtp_stop: finishInterleavedStreaming, then the end.
Limit(k) ==
  /\ At(k, "write")
  /\ Write([is |-> "frame", sender |-> k])
  /\ Goto(k, "gone")
  /\ stopCh' = IF stopCh = k THEN 0 ELSE stopCh
  /\ UNCHANGED <<profile, script, inVars, readVars, request, response, stateVars,
                 afterWrite, heard, log>>

Sender(k) == TakeStop(k) \/ TakeTick(k) \/ LockForFrame(k) \/ WriteFrame(k) \/ Limit(k)

----------------------------------------------------------------------------

Handler == Options \/ Describe \/ Setup \/ Play \/ Pause \/ Teardown \/ GetParameter \/ Unknown
ReadRequest == Discard \/ SkipFrame \/ ReadLine
Connection == ReadRequest \/ Handler \/ WriteResponse \/ AfterWrite

Next == Send \/ Read \/ Connection \/ LockForResponse \/ \E k \in DOMAIN senders : Sender(k)

Spec == Init /\ [][Next]_vars

Plays(items) == Cardinality({i \in DOMAIN items :
                               items[i].kind = "request" /\ items[i].method = "PLAY"})
\* No script starts more senders than this.
MaxSenders == CHOOSE n \in {Plays(items) : items \in Scripts} :
                \A items \in Scripts : Plays(items) <= n

\* The client sends its script and keeps reading; the connection's goroutine runs.
\* A Go mutex hands over to a waiter that starves, and a select with two ready
\* branches takes each with probability one half: both are strongly fair.
FairSpec ==
  /\ Spec
  /\ WF_vars(Send) /\ WF_vars(Read)
  /\ WF_vars(Connection) /\ SF_vars(LockForResponse)
  /\ \A k \in 1..MaxSenders :
       /\ WF_vars(k \in DOMAIN senders /\ (WriteFrame(k) \/ Limit(k)))
       /\ SF_vars(k \in DOMAIN senders /\ LockForFrame(k))
       /\ SF_vars(k \in DOMAIN senders /\ TakeStop(k))

----------------------------------------------------------------------------
(* Properties.                                                             *)

Item(cseq) == CHOOSE i \in Asked : CSeq(i) = cseq

\* Whatever frames and bodies the client mixes in, every request is read as
\* itself: the responses carry the CSeqs of the requests, in order, each once,
\* and none answers bytes that were no request (readRequest).
AnswersInOrder ==
  /\ \A i \in DOMAIN log : log[i].cseq = i
  /\ Len(log) <= CSeq(sent)

\* A client that reads responses and frames off one socket sees the 200 of a PLAY
\* before the first frame it causes (afterResponse, runAfterWrite).
FramesFollowPlay ==
  \A n \in DOMAIN wire :
    wire[n].is = "frame" =>
      LET play == senders[wire[n].sender].play
      IN  /\ play <= Len(log) /\ log[play].status = "200"
          /\ \A m \in DOMAIN wire : wire[m].is = "response" /\ wire[m].cseq = play => m < n

\* The statuses alone tell a client where its session is: a PLAY that names it
\* succeeds only between a SETUP that did and the next TEARDOWN that names it, and
\* under a profile that wants it no SETUP succeeds before a DESCRIBE
\* (handleRequestWithState).
StatusesMakeSense ==
  \A i \in DOMAIN log :
    LET Method(n)  == script[Item(n)].method
        Session(n) == script[Item(n)].session
        Done(n)    == log[n].status = "200"
    IN  Done(i) =>
          /\ Method(i) \in {"PLAY", "PAUSE", "GET_PARAMETER"} =>
               /\ Session(i) = "mine"
               /\ \E j \in 1..(i - 1) :
                    /\ Method(j) = "SETUP" /\ Done(j)
                    /\ \A n \in j..i : ~(Method(n) = "TEARDOWN" /\ Session(n) = "mine")
          /\ Method(i) = "SETUP" => /\ ~profile.busy
                                    /\ profile.requireDescribe =>
                                         \E j \in 1..(i - 1) : Method(j) = "DESCRIBE"

\* Every request of a client that keeps reading is answered, although frames of
\* senders told to stop compete for the socket: nobody waits for ever for writeMu.
EveryRequestAnswered == <>(Len(log) = Cardinality(Asked))

\* A sender may still write frames after the response to the PAUSE or TEARDOWN of
\* its session, since its select may prefer the ticker, but not for ever.
EndedBy(k, n) ==
  /\ n > senders[k].play
  /\ script[Item(n)].method \in {"PAUSE", "TEARDOWN"} /\ script[Item(n)].session = "mine"
  /\ log[n].status = "200"
  /\ \A m \in senders[k].play..n : script[Item(m)].method # "SETUP"
FramesCease ==
  \A k \in 1..MaxSenders :
    (k \in DOMAIN senders /\ \E n \in DOMAIN log : EndedBy(k, n))
      ~> (k \in DOMAIN senders /\ At(k, "gone"))
=============================================================================

---------------------------- MODULE RtspServer ----------------------------
(***************************************************************************)
(* internal/rtsp/server.go: connections, sessions and RTP senders on top   *)
(* of the lab model, with the session reaper and the HTTP reset.           *)
(*                                                                         *)
(* A session lives in three places that no common lock covers: the lab     *)
(* (lab.mu), the server's session map (sessionMu) and the session struct   *)
(* with its stop channel (streamMu), which a handler keeps using after it  *)
(* left the map.  One action here is one critical section; a handler is    *)
(* the sequence of its sections.  The lab is the abstract LabSessions,     *)
(* which LabManager implements, so every lab call is one of its steps.     *)
(***************************************************************************)
EXTENDS Integers, FiniteSets

CONSTANTS
  Conns,        \* RTSP connections, each used once
  MaxID,        \* bound on nextID
  MaxPlays,     \* bound on the senders one session starts
  Services, MuxOf, TunerCount,
  Transports,   \* subset of {"udp", "tcp"}; "tcp" is interleaved
  Methods,      \* requests the clients send
  SharedUse,    \* whether a client may name a session set up on another connection
  Resets        \* bound on POST /api/reset calls

Reaper == "reaper"

ASSUME BoundAssumption ==
  /\ IsFiniteSet(Conns) /\ Reaper \notin Conns
  /\ MaxID \in Nat /\ MaxPlays \in Nat /\ Resets \in Nat /\ TunerCount \in Nat \ {0}
  /\ SharedUse \in BOOLEAN
  /\ Transports \subseteq {"udp", "tcp"}
  /\ Methods \subseteq {"SETUP", "PLAY", "PAUSE", "TEARDOWN", "GET_PARAMETER"}

IDs     == 1..MaxID
NoID    == 0
Expirers == Conns \cup {Reaper}

VARIABLES
  lab,        \* the lab's sessions, LabSessions!live
  silent,     \* lab sessions whose UpdatedAt is older than rtspSessionTimeout
  nextID,     \* Server.nextID
  sessions,   \* Server.sessions: the ids in the map
  struct,     \* the session structs: transport and RTSP connection
  stopCh,     \* session.stopCh: the sender it would stop, 0 for nil
  plays,      \* senders started by a session so far
  senders,    \* the goroutines of start...StreamingLocked
  up,         \* connections whose client has not gone away
  pc,         \* where each connection's goroutine is
  req,        \* the request it handles: method, session id, transport
  owned,      \* connectionState.sessionIDs
  pending,    \* connectionState.afterWrite: the sender start it holds, or NoID
  doomed,     \* ids ExpireSessions returned to an expirer still to sweep them
  resetting,  \* handleAPIReset between s.reset() and s.lab.Reset()
  resets      \* resets so far

labVars  == <<lab, silent>>
connVars == <<up, req, owned, pending>>
httpVars == <<resetting, resets>>
vars == <<lab, silent, nextID, sessions, struct, stopCh, plays, senders,
          up, pc, req, owned, pending, doomed, resetting, resets>>

Lab == INSTANCE LabSessions WITH
  SessionIDs <- IDs, live <- lab, blocked <- FALSE, answer <- "ok"

ConnSteps == {"idle", "expire", "sweep", "touch", "setup", "register", "play",
              "playLab", "start", "pause", "pauseStop", "pauseLab", "delete",
              "stop", "teardown", "respond", "after", "closing", "closed"}
SenderSteps == {"run", "delete", "stop", "teardown"}

NoRequest == [method |-> "none", id |-> NoID, transport |-> "udp"]

Init ==
  /\ lab = [id \in {} |-> <<>>] /\ silent = {}
  /\ nextID = 0
  /\ sessions = {}
  /\ struct = [id \in {} |-> <<>>]
  /\ stopCh = [id \in IDs |-> 0]
  /\ plays = [id \in IDs |-> 0]
  /\ senders = {}
  /\ up = Conns
  /\ pc = [c \in Conns |-> "idle"]
  /\ req = [c \in Conns |-> NoRequest]
  /\ owned = [c \in Conns |-> {}]
  /\ pending = [c \in Conns |-> NoID]
  /\ doomed = [p \in Expirers |-> {}]
  /\ resetting = FALSE /\ resets = 0

Goto(c, step) == pc' = [pc EXCEPT ![c] = step]
At(c, step)   == pc[c] = step
Id(c)         == req[c].id

\* stopStreamingLocked: the sender of the current stop channel is told to stop.
Stopped(ids) == stopCh' = [id \in IDs |-> IF id \in ids THEN 0 ELSE stopCh[id]]

----------------------------------------------------------------------------
(* Receiving a request.  handleRequestWithState first expires idle         *)
(* sessions, then touches the session the request names.                   *)

\* The ids a client can name: handed out in the response to a finished SETUP.
Known(c) ==
  IF SharedUse
    THEN {id \in DOMAIN struct : \A d \in Conns : ~(req[d].method = "SETUP" /\ Id(d) = id)}
    ELSE owned[c]

\* SETUPs in progress that may yet draw an id.
SettingUp == {c \in Conns : req[c].method = "SETUP" /\ Id(c) = NoID}

\* Requests in progress that may yet start a sender of the session.
Playing(id) == {c \in Conns : req[c].method = "PLAY" /\ Id(c) = id}

Receive(c) ==
  /\ At(c, "idle") /\ c \in up
  /\ \E method \in Methods, transport \in Transports :
       \E id \in IF method = "SETUP" THEN {NoID} ELSE Known(c) :
         /\ method = "SETUP" => nextID + Cardinality(SettingUp) < MaxID
         /\ method = "PLAY" => plays[id] + Cardinality(Playing(id)) < MaxPlays
         /\ method # "SETUP" => transport = struct[id].transport
         /\ req' = [req EXCEPT ![c] = [method |-> method, id |-> id, transport |-> transport]]
  /\ Goto(c, "expire")
  /\ UNCHANGED <<labVars, nextID, sessions, struct, stopCh, plays, senders,
                 up, owned, pending, doomed, httpVars>>

LabExpire_KeepsTuner(p) ==       \* fault: the lab reports the sessions and keeps them
  /\ doomed' = [doomed EXCEPT ![p] = silent \cap DOMAIN lab]
  /\ silent' = {}
  /\ UNCHANGED lab

\* lab.ExpireSessions, by a request or by the reaper's tick.
LabExpire(p) ==
  LET gone == silent \cap DOMAIN lab
  IN  /\ Lab!End(gone)
      /\ silent' = {}
      /\ doomed' = [doomed EXCEPT ![p] = gone]

Sweep_StopsOnly(p) ==            \* fault: the map keeps the sessions
  /\ Stopped(doomed[p] \cap sessions)
  /\ doomed' = [doomed EXCEPT ![p] = {}]
  /\ UNCHANGED sessions

\* The second half of expireSessions, under sessionMu: stop and forget each id
\* the lab expired that is still in the map.
Sweep(p) ==
  /\ Stopped(doomed[p] \cap sessions)
  /\ sessions' = sessions \ doomed[p]
  /\ doomed' = [doomed EXCEPT ![p] = {}]

Expire(c) ==
  /\ At(c, "expire")
  /\ LabExpire(c)
  /\ Goto(c, IF doomed'[c] = {} THEN "touch" ELSE "sweep")
  /\ UNCHANGED <<nextID, sessions, struct, stopCh, plays, senders, connVars, httpVars>>

SweepStep(c) ==
  /\ At(c, "sweep")
  /\ Sweep(c)
  /\ Goto(c, "touch")
  /\ UNCHANGED <<labVars, nextID, struct, plays, senders, connVars, httpVars>>

\* touchRequestSession and the dispatch on the method.  The session is looked
\* up in the map first; the touch itself fails quietly when the lab lost it.
Touch(c) ==
  /\ At(c, "touch")
  /\ silent' = IF Id(c) \in sessions THEN silent \ {Id(c)} ELSE silent
  /\ Goto(c, CASE req[c].method = "SETUP"         -> "setup"
               [] req[c].method = "PLAY"          -> "play"
               [] req[c].method = "PAUSE"         -> "pause"
               [] req[c].method = "TEARDOWN"      -> "delete"
               [] req[c].method = "GET_PARAMETER" -> "respond")
  /\ UNCHANGED <<lab, nextID, sessions, struct, stopCh, plays, senders,
                 connVars, doomed, httpVars>>

----------------------------------------------------------------------------
(* SETUP.  The id is drawn under sessionMu before the lab is asked; nobody *)
(* can name it before the response, so the draw is folded into the call.   *)

SetupLab_SameID(c) ==            \* fault: the counter is not advanced
  /\ At(c, "setup")
  /\ \E svc \in Services : Lab!Admit(nextID + 1, svc)
  /\ req' = [req EXCEPT ![c].id = nextID + 1]
  /\ Goto(c, "register")
  /\ UNCHANGED <<silent, nextID, sessions, struct, stopCh, plays, senders,
                 up, owned, pending, doomed, httpVars>>

SetupLab(c) ==
  /\ At(c, "setup")
  /\ \E svc \in Services : Lab!Admit(nextID + 1, svc)
  /\ nextID' = nextID + 1
  /\ req' = [req EXCEPT ![c].id = nextID + 1]
  /\ Goto(c, "register")
  /\ UNCHANGED <<silent, sessions, struct, stopCh, plays, senders,
                 up, owned, pending, doomed, httpVars>>

\* lab.Setup refuses: no tuner, no signal, bad tuning.  The id drawn is lost; ids
\* nobody sees are not counted.
SetupRefused(c) ==
  /\ At(c, "setup")
  /\ Goto(c, "respond")
  /\ UNCHANGED <<labVars, nextID, sessions, struct, stopCh, plays, senders,
                 connVars, doomed, httpVars>>

\* rememberSession, then s.sessions[sessionID] = sess under sessionMu: whether
\* the lab still has the session is not looked at again.
Register(c) ==
  /\ At(c, "register")
  /\ struct' = [id \in DOMAIN struct \cup {Id(c)} |->
                  IF id = Id(c) THEN [transport |-> req[c].transport, conn |-> c]
                  ELSE struct[id]]
  /\ sessions' = sessions \cup {Id(c)}
  /\ owned' = [owned EXCEPT ![c] = @ \cup {Id(c)}]
  /\ Goto(c, "respond")
  /\ UNCHANGED <<labVars, nextID, stopCh, plays, senders, up, req, pending, doomed, httpVars>>

----------------------------------------------------------------------------
(* PLAY.                                                                   *)

\* sessionByID; 454 when the map has no such id.
PlayFind(c) ==
  /\ At(c, "play")
  /\ Goto(c, IF Id(c) \in sessions THEN "playLab" ELSE "respond")
  /\ UNCHANGED <<labVars, nextID, sessions, struct, stopCh, plays, senders,
                 connVars, doomed, httpVars>>

\* lab.UpdatePIDs and lab.Play: 400 for a bad PID update, 454 when the lab has
\* lost the session, otherwise the lab says "playing" from here on.
PlayLab(c) ==
  /\ At(c, "playLab")
  /\ \/ /\ Lab!Move(Id(c), "playing")
        /\ silent' = silent \ {Id(c)}
        /\ Goto(c, "start")
     \/ /\ Goto(c, "respond")
        /\ UNCHANGED labVars
  /\ UNCHANGED <<nextID, sessions, struct, stopCh, plays, senders, connVars, doomed, httpVars>>

\* startStreaming, under streamMu: stop the sender there is, start a new one.
\* The struct may have left the map meanwhile; nothing looks.
StartSender(id) ==
  /\ plays' = [plays EXCEPT ![id] = @ + 1]
  /\ stopCh' = [stopCh EXCEPT ![id] = plays[id] + 1]
  /\ senders' = senders \cup {[id |-> id, gen |-> plays[id] + 1, at |-> "run"]}

\* An interleaved sender starts only after the PLAY response is on the wire.
PlayStart(c) ==
  /\ At(c, "start")
  /\ IF struct[Id(c)].transport = "tcp"
       THEN /\ pending' = [pending EXCEPT ![c] = Id(c)]
            /\ UNCHANGED <<stopCh, plays, senders>>
       ELSE /\ StartSender(Id(c))
            /\ UNCHANGED pending
  /\ Goto(c, "respond")
  /\ UNCHANGED <<labVars, nextID, sessions, struct, up, req, owned, doomed, httpVars>>

\* playPayloadProvider fails (500), or net.ListenUDP does and PLAY answers 200:
\* in both cases the old sender's fate differs, but no new one starts.
PlayWithoutSender(c) ==
  /\ At(c, "start")
  /\ \/ UNCHANGED stopCh
     \/ struct[Id(c)].transport = "udp" /\ Stopped({Id(c)})
  /\ Goto(c, "respond")
  /\ UNCHANGED <<labVars, nextID, sessions, struct, plays, senders, connVars, doomed, httpVars>>

----------------------------------------------------------------------------
(* PAUSE and TEARDOWN.                                                     *)

PauseFind(c) ==
  /\ At(c, "pause")
  /\ Goto(c, IF Id(c) \in sessions THEN "pauseStop" ELSE "respond")
  /\ UNCHANGED <<labVars, nextID, sessions, struct, stopCh, plays, senders,
                 connVars, doomed, httpVars>>

PauseStop_Forgotten(c) ==        \* fault: PAUSE only tells the lab
  /\ At(c, "pauseStop")
  /\ Goto(c, "pauseLab")
  /\ UNCHANGED <<labVars, nextID, sessions, struct, stopCh, plays, senders,
                 connVars, doomed, httpVars>>

PauseStop(c) ==
  /\ At(c, "pauseStop")
  /\ Stopped({Id(c)})
  /\ Goto(c, "pauseLab")
  /\ UNCHANGED <<labVars, nextID, sessions, struct, plays, senders,
                 connVars, doomed, httpVars>>

PauseLab(c) ==
  /\ At(c, "pauseLab")
  /\ IF Id(c) \in DOMAIN lab
       THEN Lab!Move(Id(c), "paused") /\ silent' = silent \ {Id(c)}
       ELSE UNCHANGED labVars
  /\ Goto(c, "respond")
  /\ UNCHANGED <<nextID, sessions, struct, stopCh, plays, senders,
                 connVars, doomed, httpVars>>

\* stopAndDeleteSession, first half: out of the map under sessionMu.  Used by
\* TEARDOWN and, for each interleaved session, by a closing connection.
Delete(c) ==
  /\ At(c, "delete")
  /\ sessions' = sessions \ {Id(c)}
  /\ Goto(c, IF Id(c) \in sessions THEN "stop" ELSE "teardown")
  /\ UNCHANGED <<labVars, nextID, struct, stopCh, plays, senders,
                 connVars, doomed, httpVars>>

Stop_Forgotten(c) ==             \* fault: the session is only deleted
  /\ At(c, "stop")
  /\ Goto(c, "teardown")
  /\ UNCHANGED <<labVars, nextID, sessions, struct, stopCh, plays, senders,
                 connVars, doomed, httpVars>>

\* Second half: stopStreaming under streamMu.
Stop(c) ==
  /\ At(c, "stop")
  /\ Stopped({Id(c)})
  /\ Goto(c, "teardown")
  /\ UNCHANGED <<labVars, nextID, sessions, struct, plays, senders,
                 connVars, doomed, httpVars>>

\* lab.Teardown, then forgetSession.
Teardown(c) ==
  /\ At(c, "teardown")
  /\ Lab!End({Id(c)} \cap DOMAIN lab)
  /\ silent' = silent \ {Id(c)}
  /\ owned' = [owned EXCEPT ![c] = @ \ {Id(c)}]
  /\ Goto(c, IF req[c].method = "close" THEN "closing" ELSE "respond")
  /\ UNCHANGED <<nextID, sessions, struct, stopCh, plays, senders,
                 up, req, pending, doomed, httpVars>>

----------------------------------------------------------------------------
(* Responses and the end of a connection.                                  *)

Finish(c) == req' = [req EXCEPT ![c] = NoRequest]

\* conn.Write succeeds; it may even after the client has gone.
Respond(c) ==
  /\ At(c, "respond")
  /\ IF pending[c] = NoID THEN Goto(c, "idle") /\ Finish(c)
                          ELSE Goto(c, "after") /\ UNCHANGED req
  /\ UNCHANGED <<labVars, nextID, sessions, struct, stopCh, plays, senders,
                 up, owned, pending, doomed, httpVars>>

\* runAfterWrite starts the interleaved sender that PLAY left behind.
AfterWrite(c) ==
  /\ At(c, "after")
  /\ StartSender(pending[c])
  /\ pending' = [pending EXCEPT ![c] = NoID]
  /\ Goto(c, "idle")
  /\ Finish(c)
  /\ UNCHANGED <<labVars, nextID, sessions, struct, up, owned, doomed, httpVars>>

\* The write or the next read fails: the deferred closeConnectionSessions runs
\* and a sender start still pending is dropped.
Hangup(c) ==
  /\ At(c, "respond") \/ At(c, "idle")
  /\ c \notin up
  /\ Goto(c, "closing")
  /\ req' = [req EXCEPT ![c] = [NoRequest EXCEPT !.method = "close"]]
  /\ pending' = [pending EXCEPT ![c] = NoID]
  /\ UNCHANGED <<labVars, nextID, sessions, struct, stopCh, plays, senders,
                 up, owned, doomed, httpVars>>

CloseSession_LabOnly(c) ==       \* fault: the map keeps the session
  /\ At(c, "closing")
  /\ \E id \in owned[c] :
       IF id \in sessions /\ struct[id].transport = "tcp"
         THEN /\ req' = [req EXCEPT ![c].id = id]
              /\ Goto(c, "teardown")
              /\ UNCHANGED owned
         ELSE /\ owned' = [owned EXCEPT ![c] = @ \ {id}]
              /\ UNCHANGED <<req, pc>>
  /\ UNCHANGED <<labVars, nextID, sessions, struct, stopCh, plays, senders,
                 up, pending, doomed, httpVars>>

\* One iteration of the loop in closeConnectionSessions: UDP sessions and
\* sessions already gone are only forgotten.
CloseSession(c) ==
  /\ At(c, "closing")
  /\ \E id \in owned[c] :
       IF id \in sessions /\ struct[id].transport = "tcp"
         THEN /\ req' = [req EXCEPT ![c].id = id]
              /\ Goto(c, "delete")
              /\ UNCHANGED owned
         ELSE /\ owned' = [owned EXCEPT ![c] = @ \ {id}]
              /\ UNCHANGED <<req, pc>>
  /\ UNCHANGED <<labVars, nextID, sessions, struct, stopCh, plays, senders,
                 up, pending, doomed, httpVars>>

Closed(c) ==
  /\ At(c, "closing") /\ owned[c] = {}
  /\ Goto(c, "closed")
  /\ Finish(c)
  /\ UNCHANGED <<labVars, nextID, sessions, struct, stopCh, plays, senders,
                 up, owned, pending, doomed, httpVars>>

----------------------------------------------------------------------------
(* Senders: one goroutine each.                                            *)

Told(sender) == stopCh[sender.id] # sender.gen      \* its stop channel is closed
Step(sender, at) == senders' = (senders \ {sender}) \cup {[sender EXCEPT !.at = at]}

\* <-stopCh.
SenderStops(sender) ==
  /\ sender.at = "run" /\ Told(sender)
  /\ senders' = senders \ {sender}
  /\ UNCHANGED <<labVars, nextID, sessions, struct, stopCh, plays,
                 pc, connVars, doomed, httpVars>>

SenderFinishes_ChannelKept(sender) ==   \* fault: stopCh is not cleared
  /\ sender.at = "run" /\ ~Told(sender)
  /\ senders' = senders \ {sender}
  /\ UNCHANGED <<labVars, nextID, sessions, struct, stopCh, plays,
                 pc, connVars, doomed, httpVars>>

\* finishStreaming: the packet limit of rtp_stop.  It ends only its own stream.
SenderFinishes(sender) ==
  /\ sender.at = "run" /\ ~Told(sender)
  /\ senders' = senders \ {sender}
  /\ Stopped({sender.id})
  /\ UNCHANGED <<labVars, nextID, sessions, struct, plays, pc, connVars, doomed, httpVars>>

SenderFails_ChannelKept(sender) ==      \* fault: stopCh is not cleared
  /\ sender.at = "run"
  /\ struct[sender.id].transport = "tcp"
  /\ struct[sender.id].conn \notin up
  /\ Step(sender, "delete")
  /\ UNCHANGED <<labVars, nextID, sessions, struct, stopCh, plays,
                 pc, connVars, doomed, httpVars>>

\* An interleaved write fails: finishInterleavedStreaming, then onStreamError.
SenderFails(sender) ==
  /\ sender.at = "run"
  /\ struct[sender.id].transport = "tcp"
  /\ struct[sender.id].conn \notin up
  /\ IF Told(sender) THEN UNCHANGED stopCh ELSE Stopped({sender.id})
  /\ Step(sender, "delete")
  /\ UNCHANGED <<labVars, nextID, sessions, struct, plays, pc, connVars, doomed, httpVars>>

SenderDeletes(sender) ==
  /\ sender.at = "delete"
  /\ sessions' = sessions \ {sender.id}
  /\ Step(sender, IF sender.id \in sessions THEN "stop" ELSE "teardown")
  /\ UNCHANGED <<labVars, nextID, struct, stopCh, plays, pc, connVars, doomed, httpVars>>

SenderStopsSession(sender) ==
  /\ sender.at = "stop"
  /\ Stopped({sender.id})
  /\ Step(sender, "teardown")
  /\ UNCHANGED <<labVars, nextID, sessions, struct, plays, pc, connVars, doomed, httpVars>>

SenderTearsDown(sender) ==
  /\ sender.at = "teardown"
  /\ Lab!End({sender.id} \cap DOMAIN lab)
  /\ silent' = silent \ {sender.id}
  /\ senders' = senders \ {sender}
  /\ UNCHANGED <<nextID, sessions, struct, stopCh, plays, pc, connVars, doomed, httpVars>>

----------------------------------------------------------------------------
(* The reaper, the HTTP reset, and the world.                              *)

\* A tick of startSessionReaper.
ReaperExpires ==
  /\ doomed[Reaper] = {}
  /\ silent \cap DOMAIN lab # {}
  /\ LabExpire(Reaper)
  /\ UNCHANGED <<nextID, sessions, struct, stopCh, plays, senders, pc, connVars, httpVars>>

ReaperSweeps ==
  /\ doomed[Reaper] # {}
  /\ Sweep(Reaper)
  /\ UNCHANGED <<labVars, nextID, struct, plays, senders, pc, connVars, httpVars>>

\* handleAPIReset calls Server.Reset, under sessionMu ...
ResetRtsp ==
  /\ ~resetting /\ resets < Resets
  /\ Stopped(sessions)
  /\ sessions' = {}
  /\ resetting' = TRUE /\ resets' = resets + 1
  /\ UNCHANGED <<labVars, nextID, struct, plays, senders, pc, connVars, doomed>>

ResetLab_Skipped ==              \* fault: the lab is not reset
  /\ resetting
  /\ resetting' = FALSE
  /\ UNCHANGED <<labVars, nextID, sessions, struct, stopCh, plays, senders,
                 pc, connVars, doomed, resets>>

\* ... and then lab.Reset.
ResetLab ==
  /\ resetting
  /\ Lab!End(DOMAIN lab)
  /\ silent' = {}
  /\ resetting' = FALSE
  /\ UNCHANGED <<nextID, sessions, struct, stopCh, plays, senders, pc, connVars, doomed, resets>>

\* rtspSessionTimeout passes without a request for the session.  Handlers are
\* quick but for the response, which waits without a limit for writeMu and for
\* conn.Write: while it waits, the session it is about can expire.
FallSilent(id) ==
  /\ id \in DOMAIN lab \ silent
  /\ \A c \in Conns : Id(c) = id => At(c, "respond")
  /\ silent' = silent \cup {id}
  /\ UNCHANGED <<lab, nextID, sessions, struct, stopCh, plays, senders,
                 pc, connVars, doomed, httpVars>>

ClientLeaves(c) ==
  /\ c \in up
  /\ up' = up \ {c}
  /\ UNCHANGED <<labVars, nextID, sessions, struct, stopCh, plays, senders,
                 pc, req, owned, pending, doomed, httpVars>>

----------------------------------------------------------------------------

Handle(c) ==
  \/ Expire(c) \/ SweepStep(c) \/ Touch(c)
  \/ SetupLab(c) \/ SetupRefused(c) \/ Register(c)
  \/ PlayFind(c) \/ PlayLab(c) \/ PlayStart(c) \/ PlayWithoutSender(c)
  \/ PauseFind(c) \/ PauseStop(c) \/ PauseLab(c)
  \/ Delete(c) \/ Stop(c) \/ Teardown(c)
  \/ Respond(c) \/ AfterWrite(c) \/ Hangup(c) \/ CloseSession(c) \/ Closed(c)

SenderExits(sender) ==
  \/ SenderStops(sender) \/ SenderFails(sender)
  \/ SenderDeletes(sender) \/ SenderStopsSession(sender) \/ SenderTearsDown(sender)

Reap  == ReaperExpires \/ ReaperSweeps
Reset == ResetRtsp \/ ResetLab

Next ==
  \/ \E c \in Conns : Receive(c) \/ Handle(c) \/ ClientLeaves(c)
  \/ \E sender \in senders : SenderExits(sender) \/ SenderFinishes(sender)
  \/ Reap \/ Reset
  \/ \E id \in IDs : FallSilent(id)

Spec == Init /\ [][Next]_vars

\* Every goroutine that can run is scheduled; a session nobody asks about falls
\* silent; the second half of a reset follows the first.  Clients owe nothing:
\* they need not send, pause, tear down or leave.
Fairness ==
  /\ \A c \in Conns : WF_vars(Handle(c))
  /\ \A id \in IDs : WF_vars(FallSilent(id))
  /\ \A id \in IDs, gen \in 1..MaxPlays, at \in SenderSteps :
       LET sender == [id |-> id, gen |-> gen, at |-> at]
       IN  WF_vars(sender \in senders /\ SenderExits(sender))
  /\ WF_vars(Reap)
  /\ WF_vars(ResetLab)

FairSpec == Spec /\ Fairness

----------------------------------------------------------------------------
(* Properties.                                                             *)

LabTypes ==
  /\ nextID \in 0..MaxID
  /\ DOMAIN lab \subseteq 1..nextID /\ silent \subseteq DOMAIN lab
  /\ lab \in [DOMAIN lab -> [service : Services, state : {"setup", "playing", "paused"}]]
MapTypes ==
  /\ sessions \subseteq DOMAIN struct /\ DOMAIN struct \subseteq 1..nextID
  /\ struct \in [DOMAIN struct -> [transport : Transports, conn : Conns]]
  /\ doomed \in [Expirers -> SUBSET IDs]
  /\ resetting \in BOOLEAN /\ resets \in 0..Resets
SenderTypes ==
  /\ plays \in [IDs -> 0..MaxPlays] /\ stopCh \in [IDs -> 0..MaxPlays]
  /\ \A id \in IDs : stopCh[id] <= plays[id]
  /\ senders \subseteq [id : IDs, gen : 1..MaxPlays, at : SenderSteps]
ConnTypes ==
  /\ up \subseteq Conns
  /\ pc \in [Conns -> ConnSteps]
  /\ req \in [Conns -> [method : Methods \cup {"none", "close"}, id : IDs \cup {NoID},
                        transport : {"udp", "tcp"}]]
  /\ owned \in [Conns -> SUBSET IDs] /\ pending \in [Conns -> IDs \cup {NoID}]

\* The variables keep their types, within the bounds; a session's stop channel is
\* that of a sender it started.
TypeOK == LabTypes /\ MapTypes /\ SenderTypes /\ ConnTypes

Active(id) == \E sender \in senders : sender.id = id /\ sender.at = "run" /\ ~Told(sender)

\* Nothing is half done: what remains is what the server believes for good.
Quiet == /\ \A c \in Conns : pc[c] \in {"idle", "closed"}
         /\ \A p \in Expirers : doomed[p] = {}
         /\ \A sender \in senders : sender.at = "run"
         /\ ~resetting

\* A stop channel always has a goroutine listening to it: no sender leaves its
\* socket or its channel behind (finishStreaming, stopStreamingLocked).
StopChannelHeard == \A id \in IDs : stopCh[id] # 0 => Active(id)

\* Until a reset (whose two halves are not atomic), the server and the lab know
\* the same sessions whenever nothing is half done.
MapMatchesLab == Quiet /\ resets = 0 => sessions = DOMAIN lab

WritesFail(id) == struct[id].transport = "tcp" /\ struct[id].conn \notin up

\* No request can stop a sender whose session has left the map: it is lost unless
\* whoever took the session out is about to stop it, or its next write will fail.
Orphaned(id) ==
  /\ Active(id) /\ id \notin sessions /\ ~WritesFail(id)
  /\ \A c \in Conns : ~(Id(c) = id /\ At(c, "stop"))

\* runAfterWrite after the lab expired the session while its PLAY response waited.
LateStart(c, id) ==
  Id(c) = id /\ At(c, "after") /\ ~At(c, "after")' /\ id \notin DOMAIN lab

\* No sweep, PAUSE, TEARDOWN, re-PLAY or closing connection leaves a sender that no
\* request can stop: only an interleaved PLAY whose response outlasts its session does.
NoOrphanSender ==
  [][\A id \in IDs : Orphaned(id)' => Orphaned(id) \/ \E c \in Conns : LateStart(c, id)]_vars

\* A session the lab calls paused, or not yet playing, sends no RTP.
SilentUnlessPlaying ==
  Quiet => \A id \in DOMAIN lab : lab[id].state # "playing" => ~Active(id)

\* A session in the map that the lab has lost, other than to a reset, is one
\* that whoever expired it is about to sweep.
ForgottenOnlyInPassing ==
  \A id \in sessions \ DOMAIN lab : resets > 0 \/ \E p \in Expirers : id \in doomed[p]

\* A session the lab holds, and with it a tuner, is always in the map too, or on
\* its way in or out: whatever clients and resets do, no tuner is lost to a
\* session that no request can name.
NoTunerLeak ==
  \A id \in DOMAIN lab \ sessions :
    \/ \E c \in Conns : Id(c) = id /\ pc[c] \in {"register", "stop", "teardown"}
    \/ \E sender \in senders : sender.id = id /\ sender.at \in {"stop", "teardown"}
    \/ resetting

\* Once every client has gone, its sessions and senders go too: interleaved ones
\* with their connection, UDP ones when the reaper finds them silent.
Drained ==
  <>[](up = {}) => <>[](sessions = {} /\ lab = [id \in {} |-> <<>>] /\ senders = {})

\* Whatever clients and resets did before, the lab frees every tuner once the
\* clients have gone.
TunersFreed == <>[](up = {}) => <>[](lab = [id \in {} |-> <<>>])
=============================================================================

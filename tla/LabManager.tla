---------------------------- MODULE LabManager ----------------------------
(***************************************************************************)
(* internal/lab/manager.go: the lab model shared by the RTSP and the HTTP  *)
(* server.  Every method of Manager takes its mutex for its whole body, so *)
(* each is one atomic action.  What is not atomic is the clock: Status,    *)
(* ScenarioAt, SetScenario..., Touch, ExpireSessions and RecordRTPSentAt   *)
(* use a time the caller read before it waited for the mutex, so they run  *)
(* with a time up to MaxLag behind the clock; Setup, Play, Pause and       *)
(* UpdatePIDs read the clock under the mutex.                              *)
(***************************************************************************)
EXTENDS LabScenario, PidFilter, FiniteSets

CONSTANTS
  SessionIDs,        \* ids the RTSP server hands out (nextID, never reused)
  TunerCount,        \* SATIP_LAB_TUNERS
  EventCap,          \* events kept: 200 in the code
  ProgressEvery,     \* packets between rtp_packet_progress events: 100
  SessionTimeout,    \* whole clock units in the timeout the RTSP server passes to
                     \* ExpireSessions: a constant, so its check for one of 0 or
                     \* less never applies, and 0 here is less than one unit
  DefaultPIDs,       \* defaultPIDs(service)
  Transports,        \* RTP transports a SETUP may record
  SetupQueries,      \* the raw pids values SETUP may carry
  PIDQueries,        \* the PID queries PLAY may carry
  ScenarioRequests,  \* bodies of POST /api/scenario
  TimelineRequests,  \* timelines in bodies of POST /api/scenario
  MaxTime,           \* bound on the clock
  MaxLag,            \* bound on the wait for the mutex
  MaxPackets         \* bound on RTPPacketCount

ASSUME CountAssumption ==
  /\ TunerCount \in Nat \ {0}        \* NewManager raises 0 and less to 1
  /\ EventCap \in Nat
  /\ ProgressEvery \in Nat \ {0}
  /\ SessionTimeout \in Nat
  /\ MaxTime \in Nat /\ MaxLag \in Nat /\ MaxPackets \in Nat
ASSUME RequestAssumption ==
  /\ IsFiniteSet(SessionIDs)
  /\ DefaultPIDs \in [Services -> SUBSET PIDs]
  /\ SetupQueries \subseteq RawValue
  /\ PIDQueries \subseteq PIDQuery
  /\ ScenarioRequests \subseteq RawScenario
  /\ \A steps \in TimelineRequests : steps \in Seq(RawStep)

VARIABLES
  now,        \* the clock
  sessions,   \* Manager.sessions
  tuners,     \* Manager.tuners
  mode,       \* Manager.scenario, scenarioChangedAt and timeline
  events,     \* Manager.events
  answer      \* the error of the last call, "ok" for nil

vars == <<now, sessions, tuners, mode, events, answer>>

Times      == 0..MaxTime
TunerIDs   == 1..TunerCount
NoSession  == ""
NoMux      == ""

SessionRecord ==
  [state : {"setup", "playing", "paused"}, tunerID : TunerIDs,
   service : Services, filter : Filter, updatedAt : Times,
   packets : 0..MaxPackets, transport : Transports \cup {"none"}]

Tuner ==
  [state : {"idle", "tuned"}, mux : Muxes \cup {NoMux},
   sessions : SUBSET SessionIDs, frontend : Frontend,
   tuneStartedAt : Times \cup {NoTime}]

ModeType == [scenario : Scenario, changedAt : Times, timeline : Timeline(Times)]

EventTypes ==
  {"setup_rejected", "tuner_wedged", "tuner_busy", "session_setup",
   "play_started", "play_paused", "pids_updated", "rtp_first_packet_sent",
   "rtp_packet_progress", "session_timeout", "session_closed",
   "scenario_changed", "scenario_timeline_started", "scenario_timeline_step",
   "reset"}
Event == [type : EventTypes, session : SessionIDs \cup {NoSession}]

IdleTuner == [state |-> "idle", mux |-> NoMux, sessions |-> {},
              frontend |-> IdleFrontend, tuneStartedAt |-> NoTime]

\* NewManager.
Init ==
  /\ now = 0
  /\ sessions = [id \in {} |-> <<>>]
  /\ tuners = [i \in TunerIDs |-> IdleTuner]
  /\ mode = Mode(NormalScenario, 0, NoTimeline)
  /\ events = <<>>
  /\ answer = "ok"

----------------------------------------------------------------------------
(* Helpers.                                                                *)

Live == DOMAIN sessions

\* Times a caller may have read before it got the mutex.
Lagged == {t \in Times : t <= now /\ now - t <= MaxLag}

RecordAll_OneMore(log, new) ==   \* fault: the cap is off by one
  LET all == log \o new
  IN  IF Len(all) > EventCap + 1
        THEN SubSeq(all, Len(all) - EventCap, Len(all)) ELSE all

\* recordLocked keeps the newest EventCap events.
RecordAll(log, new) ==
  LET all == log \o new
  IN  IF Len(all) > EventCap
        THEN SubSeq(all, Len(all) - EventCap + 1, Len(all)) ELSE all
Record(log, type, id) == RecordAll(log, <<[type |-> type, session |-> id]>>)

\* recomputeTunerFrontendLocked skips ids the session map does not have.
Recomputed(tuner, sess, md, t) ==
  [tuner EXCEPT !.frontend =
     FrontendFor({sess[id].service : id \in tuner.sessions \cap DOMAIN sess},
                 tuner.tuneStartedAt, md, t)]

\* recomputeAllFrontendsLocked.
RecomputedAll(md, t) == [i \in TunerIDs |-> Recomputed(tuners[i], sessions, md, t)]

\* scenarioAtLocked(t): move the timeline to the step due at t.  The step
\* index may move either way: t can be older than the time of the last move.
StepMoves(t) == /\ mode.timeline.steps # <<>>
                /\ DueStep(mode.timeline, t) # mode.timeline.stepIndex

ModeAt(t) ==
  IF StepMoves(t)
    THEN LET k == DueStep(mode.timeline, t)
         IN  Mode(ScenarioOf(mode.timeline.steps[k]), t,
                  [mode.timeline EXCEPT !.stepIndex = k])
    ELSE mode
TunersAt_Cached(t) == tuners     \* fault: a step recomputes no frontend
TunersAt(t) == IF StepMoves(t) THEN RecomputedAll(ModeAt(t), t) ELSE tuners
EventsAt(t) == IF StepMoves(t)
                 THEN Record(events, "scenario_timeline_step", NoSession)
                 ELSE events

\* The RTSP server never hands out an id twice, so an id the log still
\* mentions is not handed out again.
IsFresh(id) == /\ id \notin Live
               /\ \A i \in DOMAIN events : events[i].session # id

----------------------------------------------------------------------------
(* SETUP.                                                                  *)

First(S) == CHOOSE i \in S : \A j \in S : i <= j

TunedTo(mux) == {i \in TunerIDs : tuners[i].state = "tuned" /\ tuners[i].mux = mux}
IdleTuners   == {i \in TunerIDs : tuners[i].state = "idle"}

CanAllocate_NoSharing(mux) == IdleTuners # {}     \* fault: tuned tuners are not shared
AllocatedTuner_IdleFirst(mux) ==                  \* fault: an idle tuner is preferred
  IF IdleTuners # {} THEN First(IdleTuners) ELSE First(TunedTo(mux))

\* allocateTunerLocked: share the tuner already on the mux, else take the
\* first idle one.
CanAllocate(mux)    == TunedTo(mux) \cup IdleTuners # {}
AllocatedTuner(mux) == IF TunedTo(mux) # {} THEN First(TunedTo(mux))
                                            ELSE First(IdleTuners)

\* The checks of Setup in the order it makes them, under scenario scn.
SetupError(scn, svc, raw) ==
  IF scn.name = "no_signal" /\ AppliesTo(scn, svc) THEN "no_signal"
  ELSE IF scn.name = "tuner_wedged" THEN "tuner_wedged"
  ELSE IF scn.name = "tuner_busy" THEN "no_tuner"
  ELSE IF raw.kind = "bad" THEN "invalid_tune"
  ELSE IF ~CanAllocate(MuxOf[svc]) THEN "no_tuner"
  ELSE "ok"

RejectionEvent(err) == CASE err = "tuner_wedged" -> "tuner_wedged"
                         [] err = "no_tuner"     -> "tuner_busy"
                         [] OTHER                -> "setup_rejected"

\* MatchService finds no service for the tuning parameters.
SetupUnmatched ==
  /\ events' = Record(events, "setup_rejected", NoSession)
  /\ answer' = "no_match"
  /\ UNCHANGED <<now, sessions, tuners, mode>>

SetupRejected(svc, raw) ==
  LET err == SetupError(ModeAt(now).scenario, svc, raw)
  IN  /\ err # "ok"
      /\ tuners' = TunersAt(now)
      /\ mode' = ModeAt(now)
      /\ events' = Record(EventsAt(now), RejectionEvent(err), NoSession)
      /\ answer' = err
      /\ UNCHANGED <<now, sessions>>

JoinedTuner_Retuned(tuner, mux, id) ==            \* fault: every SETUP restarts the lock
  [tuner EXCEPT !.state = "tuned", !.mux = mux, !.tuneStartedAt = now,
                !.sessions = @ \cup {id}]

\* The allocated tuner: freshly tuned unless another session keeps it tuned.
JoinedTuner(tuner, mux, id) ==
  IF tuner.state = "tuned"
    THEN [tuner EXCEPT !.sessions = @ \cup {id}]
    ELSE [tuner EXCEPT !.state = "tuned", !.mux = mux, !.tuneStartedAt = now,
                       !.sessions = @ \cup {id}]

NewSession(svc, raw) ==
  [state |-> "setup", tunerID |-> AllocatedTuner(MuxOf[svc]), service |-> svc,
   filter |-> RequestedPIDs(raw, DefaultPIDs[svc]), updatedAt |-> now,
   packets |-> 0, transport |-> "none"]

SetupAccepted(id, svc, raw) ==
  /\ IsFresh(id)
  /\ SetupError(ModeAt(now).scenario, svc, raw) = "ok"
  /\ sessions' = [x \in Live \cup {id} |->
                    IF x = id THEN NewSession(svc, raw) ELSE sessions[x]]
  /\ mode' = ModeAt(now)
  /\ LET i == AllocatedTuner(MuxOf[svc])
     IN  tuners' = [TunersAt(now) EXCEPT ![i] =
                      Recomputed(JoinedTuner(@, MuxOf[svc], id), sessions', mode', now)]
  /\ events' = Record(EventsAt(now), "session_setup", id)
  /\ answer' = "ok"
  /\ UNCHANGED now

----------------------------------------------------------------------------
(* The life of a session.  A call that names no live session answers       *)
(* "session_not_found" and changes nothing else (Teardown: nothing at all).*)

SessionNotFound(id) ==
  /\ id \notin Live
  /\ answer' = "session_not_found"
  /\ UNCHANGED <<now, sessions, tuners, mode, events>>

Play(id) ==
  /\ id \in Live
  /\ sessions' = [sessions EXCEPT ![id].state = "playing", ![id].updatedAt = now]
  /\ events' = Record(events, "play_started", id)
  /\ answer' = "ok"
  /\ UNCHANGED <<now, tuners, mode>>

Pause_StateKept(id) ==           \* fault: the session keeps its state
  /\ id \in Live
  /\ sessions' = [sessions EXCEPT ![id].updatedAt = now]
  /\ events' = Record(events, "play_paused", id)
  /\ answer' = "ok"
  /\ UNCHANGED <<now, tuners, mode>>

Pause(id) ==
  /\ id \in Live
  /\ sessions' = [sessions EXCEPT ![id].state = "paused", ![id].updatedAt = now]
  /\ events' = Record(events, "play_paused", id)
  /\ answer' = "ok"
  /\ UNCHANGED <<now, tuners, mode>>

UpdatePIDs(id, q) ==
  /\ id \in Live
  /\ MentionsPIDs(q)
  /\ IF UpdateFails(sessions[id].filter, q)
       THEN /\ answer' = "invalid_tune"
            /\ UNCHANGED <<sessions, events>>
       ELSE /\ sessions' = [sessions EXCEPT
                              ![id].filter = UpdatedFilter(@, q),
                              ![id].updatedAt = now]
            /\ events' = Record(events, "pids_updated", id)
            /\ answer' = "ok"
  /\ UNCHANGED <<now, tuners, mode>>

\* SetRTPTransportDetails.
SetRTPTransport(id, transport) ==
  /\ id \in Live
  /\ sessions' = [sessions EXCEPT ![id].transport = transport]
  /\ answer' = "ok"
  /\ UNCHANGED <<now, tuners, mode, events>>

\* RecordRTPSentAt: the first packet and every ProgressEvery-th are logged.
RecordRTPSent(id) ==
  /\ id \in Live
  /\ sessions[id].packets < MaxPackets
  /\ sessions' = [sessions EXCEPT ![id].packets = @ + 1]
  /\ LET first    == IF sessions[id].packets = 0
                       THEN <<[type |-> "rtp_first_packet_sent", session |-> id]>> ELSE <<>>
         progress == IF (sessions[id].packets + 1) % ProgressEvery = 0
                       THEN <<[type |-> "rtp_packet_progress", session |-> id]>> ELSE <<>>
     IN  events' = RecordAll(events, first \o progress)
  /\ answer' = "ok"
  /\ UNCHANGED <<now, tuners, mode>>

Touch(id, t) ==
  /\ id \in Live
  /\ sessions' = [sessions EXCEPT ![id].updatedAt = t]
  /\ answer' = "ok"
  /\ UNCHANGED <<now, tuners, mode, events>>

Released_StaleMux(tuner, gone, rest) ==           \* fault: the mux is not wiped
  IF tuner.sessions \cap gone = {} THEN tuner
  ELSE IF tuner.sessions \subseteq gone THEN [IdleTuner EXCEPT !.mux = tuner.mux]
  ELSE Recomputed([tuner EXCEPT !.sessions = @ \ gone], rest, mode, now)
Released_Cached(tuner, gone, rest) ==             \* fault: no recompute for who stays
  IF tuner.sessions \cap gone = {} THEN tuner
  ELSE IF tuner.sessions \subseteq gone THEN IdleTuner
  ELSE [tuner EXCEPT !.sessions = @ \ gone]

\* removeSessionFromTunerLocked, for a set of sessions.  The last session to
\* leave frees the tuner; a tuner that keeps sessions is recomputed.
Released(tuner, gone, rest) ==
  IF tuner.sessions \cap gone = {} THEN tuner
  ELSE IF tuner.sessions \subseteq gone THEN IdleTuner
  ELSE Recomputed([tuner EXCEPT !.sessions = @ \ gone], rest, mode, now)

Remove(gone) ==
  /\ sessions' = [id \in Live \ gone |-> sessions[id]]
  /\ tuners' = [i \in TunerIDs |-> Released(tuners[i], gone, sessions')]

Teardown(id) ==
  /\ id \in Live
  /\ Remove({id})
  /\ events' = Record(events, "session_closed", id)
  /\ answer' = "ok"
  /\ UNCHANGED <<now, mode>>

Idle(t) == {id \in Live : t - sessions[id].updatedAt > SessionTimeout}

\* ExpireSessions: the map is ranged over in any order.  A tuner that loses
\* several sessions is recomputed after each; only the last result stays.
ExpireSessions(t) ==
  /\ Remove(Idle(t))
  /\ \E order \in [1..Cardinality(Idle(t)) -> Idle(t)] :
       /\ \A i, j \in DOMAIN order : order[i] = order[j] => i = j
       /\ events' = RecordAll(events, [i \in DOMAIN order |->
                      [type |-> "session_timeout", session |-> order[i]]])
  /\ answer' = "ok"
  /\ UNCHANGED <<now, mode>>

----------------------------------------------------------------------------
(* Status, scenarios and reset.                                            *)

StatusAt(t) ==
  /\ mode' = ModeAt(t)
  /\ tuners' = RecomputedAll(mode', t)
  /\ events' = EventsAt(t)
  /\ answer' = "ok"
  /\ UNCHANGED <<now, sessions>>

ScenarioAt(t) ==
  /\ mode' = ModeAt(t)
  /\ tuners' = TunersAt(t)
  /\ events' = EventsAt(t)
  /\ answer' = "ok"
  /\ UNCHANGED <<now, sessions>>

\* SetScenarioOptionsAt.
SetScenario(r, t) ==
  /\ OptionsError(r) = "ok"
  /\ mode' = Mode(ScenarioOf(r), t, NoTimeline)
  /\ tuners' = RecomputedAll(mode', t)
  /\ events' = Record(EventsAt(t), "scenario_changed", NoSession)
  /\ answer' = "ok"
  /\ UNCHANGED <<now, sessions>>

\* SetScenarioTimelineAt replaces a running timeline without looking at it.
SetScenarioTimeline(steps, t) ==
  /\ TimelineError(steps) = "ok"
  /\ mode' = Mode(ScenarioOf(steps[1]), t,
                  [startedAt |-> t, stepIndex |-> 1, steps |-> steps])
  /\ tuners' = RecomputedAll(mode', t)
  /\ events' = Record(events, "scenario_timeline_started", NoSession)
  /\ answer' = "ok"
  /\ UNCHANGED <<now, sessions>>

ScenarioRefused(err) ==
  /\ err # "ok"
  /\ answer' = err
  /\ UNCHANGED <<now, sessions, tuners, mode, events>>

Reset_KeepsSessions ==           \* fault: only the fault and the log are reset
  /\ mode' = IF mode.scenario.name = "tuner_wedged"
               THEN Mode(NormalScenario, mode.changedAt, NoTimeline) ELSE mode
  /\ events' = Record(events, "reset", NoSession)
  /\ answer' = "ok"
  /\ UNCHANGED <<now, sessions, tuners>>

Reset ==
  /\ sessions' = [id \in {} |-> <<>>]
  /\ tuners' = [i \in TunerIDs |-> IdleTuner]
  /\ mode' = IF mode.scenario.name = "tuner_wedged"
               THEN Mode(NormalScenario, mode.changedAt, NoTimeline) ELSE mode
  /\ events' = Record(events, "reset", NoSession)
  /\ answer' = "ok"
  /\ UNCHANGED now

Tick ==
  /\ now < MaxTime
  /\ now' = now + 1
  /\ UNCHANGED <<sessions, tuners, mode, events, answer>>

----------------------------------------------------------------------------

Setup ==
  \/ SetupUnmatched
  \/ \E svc \in Services, raw \in SetupQueries :
       \/ SetupRejected(svc, raw)
       \/ \E id \in SessionIDs : SetupAccepted(id, svc, raw)

SessionCall ==
  \E id \in SessionIDs :
    \/ SessionNotFound(id)
    \/ Play(id)
    \/ Pause(id)
    \/ \E q \in PIDQueries : UpdatePIDs(id, q)
    \/ \E transport \in Transports : SetRTPTransport(id, transport)
    \/ RecordRTPSent(id)
    \/ \E t \in Lagged : Touch(id, t)
    \/ Teardown(id)

LabCall ==
  \/ \E t \in Lagged :
       \/ ExpireSessions(t)
       \/ StatusAt(t)
       \/ ScenarioAt(t)
       \/ \E r \in ScenarioRequests : SetScenario(r, t)
       \/ \E steps \in TimelineRequests : SetScenarioTimeline(steps, t)
  \/ \E r \in ScenarioRequests : ScenarioRefused(OptionsError(r))
  \/ \E steps \in TimelineRequests : ScenarioRefused(TimelineError(steps))
  \/ Reset

Next == Setup \/ SessionCall \/ LabCall \/ Tick

Spec == Init /\ [][Next]_vars

----------------------------------------------------------------------------
(* Properties.                                                             *)

\* Every field of Manager keeps its type; in particular the timeline points
\* at one of its own steps and a clock reading never exceeds the clock.
TypeOK ==
  /\ now \in Times
  /\ Live \subseteq SessionIDs /\ sessions \in [Live -> SessionRecord]
  /\ tuners \in [TunerIDs -> Tuner]
  /\ mode \in ModeType
  /\ events \in Seq(Event) /\ Len(events) <= EventCap

\* A tuner's session list and the sessions' tuner ids tell the same story
\* (allocateTunerLocked, addSessionToTunerLocked, removeSessionFromTunerLocked):
\* a tuner is tuned exactly while it serves sessions, all of them on its mux,
\* and every live session is on the list of its tuner and no other.
TunerAccounting ==
  /\ \A i \in TunerIDs :
       /\ tuners[i].sessions = {id \in Live : sessions[id].tunerID = i}
       /\ tuners[i].state = "tuned" <=> tuners[i].sessions # {}
       /\ tuners[i].state = "idle" => tuners[i] = IdleTuner
  /\ \A id \in Live : tuners[sessions[id].tunerID].mux = MuxOf[sessions[id].service]

\* Sessions on the same mux share one tuner (docs/supported-profile.md): no
\* sequence of setups and teardowns leaves two tuners on one mux.
MuxExclusive ==
  \A i, j \in TunerIDs :
    tuners[i].state = "tuned" /\ tuners[j].state = "tuned" /\ tuners[i].mux = tuners[j].mux
      => i = j

\* The frontend is cached per tuner and recomputed by whoever changes what it
\* depends on.  It shows "lost" or "degraded" exactly while lock_loss or
\* signal_degraded applies to one of the services the tuner serves now.
FrontendShowsFault ==
  \A i \in TunerIDs :
    LET faulted(name) == /\ mode.scenario.name = name
                         /\ \E id \in tuners[i].sessions :
                              AppliesTo(mode.scenario, sessions[id].service)
    IN  /\ tuners[i].frontend.state = "lost" <=> faulted("lock_loss")
        /\ tuners[i].frontend.state = "degraded" <=> faulted("signal_degraded")
        /\ tuners[i].frontend.state = "idle" <=> tuners[i].sessions = {}

\* When a lock of tuner i can have begun, for the services it serves now and the
\* scenario of now: when it was tuned, when the step after a loss that hit one of
\* them began, or when a signal_recovery that hits one of them was set.
LockStarts(i) ==
  LET served == {sessions[id].service : id \in tuners[i].sessions}
      afterLoss   == RecoversFromLoss(served, mode.timeline, now)
      onRecovery  == /\ mode.scenario.name = "signal_recovery"
                     /\ \E svc \in served : AppliesTo(mode.scenario, svc)
  IN  {tuners[i].tuneStartedAt}
        \cup (IF afterLoss THEN {RecoveryStart(mode.timeline)} ELSE {})
        \cup (IF onRecovery THEN {mode.changedAt} ELSE {})

\* No cached frontend reports a lock change that has not happened yet, and under no
\* fault and no step of a timeline is a tuner "locked" but LockTime after the lock
\* began (lifecycleFrontend, timelineRecoveryFrontendLocked).
LockNotEarly ==
  \A i \in TunerIDs :
    LET fe == tuners[i].frontend
    IN  /\ fe.since <= now
        /\ fe.state = "locked" =>
             \E start \in LockStarts(i) : fe.since = start + LockTime

\* While a timeline runs the active scenario is that of its current step, that
\* step has begun, and no timeline holds the fault only a reset clears.
TimelineConsistent ==
  mode.timeline # NoTimeline =>
    LET step == mode.timeline.steps[mode.timeline.stepIndex]
    IN  /\ mode.scenario = ScenarioOf(step)
        /\ mode.timeline.startedAt + step.at <= now
        /\ mode.changedAt <= now
        /\ \A i \in DOMAIN mode.timeline.steps :
             mode.timeline.steps[i].name # "tuner_wedged"

\* No sequence of pids, addpids and delpids leaves a session with both "all"
\* and a list (UpdatePIDs, requestedPIDs).
FilterCanonical ==
  \A id \in Live : sessions[id].filter.pidsAll => sessions[id].filter.pids = {}

\* A session that stays on a tuner is not retuned under it by the sessions
\* that come and go around it: its tuner, mux and lock window stay.
NoRetuneUnderSession ==
  [][\A i \in TunerIDs :
       tuners[i].sessions \cap tuners'[i].sessions # {} =>
         /\ tuners'[i].mux = tuners[i].mux
         /\ tuners'[i].tuneStartedAt = tuners[i].tuneStartedAt]_vars

StateEvents    == {"session_setup", "play_started", "play_paused"}
TerminalEvents == {"session_closed", "session_timeout"}

\* The log of one session reads as one life: it begins with session_setup, it
\* ends with at most one terminal event, the first packet is logged once, and
\* no session is heard of again after a reset.
EventLifecycle ==
  \A i, j \in DOMAIN events :
    i < j =>
      /\ events[i].session = events[j].session /\ events[i].session # NoSession =>
           /\ events[i].type \notin TerminalEvents
           /\ events[j].type # "session_setup"
           /\ events[j].type = "rtp_first_packet_sent" =>
                events[i].type \notin {"rtp_first_packet_sent", "rtp_packet_progress"}
      /\ events[i].type = "reset" =>
           \A k \in 1..i : events[k].session # NoSession => events[k].session # events[j].session

\* What the log says last about a session is what the session is: a client that
\* polls events and one that polls sessions agree.
LogMatchesState ==
  \A i \in DOMAIN events :
    LET id     == events[i].session
        later  == {j \in DOMAIN events : j > i}
        ended  == events[i].type \in TerminalEvents
                    \/ \E j \in later : events[j].type = "reset"
        latest == \A j \in later : ~(events[j].session = id /\ events[j].type \in StateEvents)
    IN  id # NoSession =>
          /\ ended => id \notin Live
          /\ events[i].type \in StateEvents /\ latest /\ id \in Live =>
               sessions[id].state = (CASE events[i].type = "session_setup" -> "setup"
                                       [] events[i].type = "play_started"  -> "playing"
                                       [] events[i].type = "play_paused"   -> "paused")

\* The abstract view: LabManager implements LabSessions.
AbstractAnswer == IF answer \in {"ok", "no_tuner"} THEN answer
                  ELSE IF answer = "tuner_wedged" THEN "no_tuner" ELSE "other"
Promise == INSTANCE LabSessions WITH
  live    <- [id \in Live |-> [service |-> sessions[id].service, state |-> sessions[id].state]],
  blocked <- mode.scenario.name \in {"tuner_busy", "tuner_wedged"},
  answer  <- AbstractAnswer

\* The lab keeps the promise of LabSessions: admission by mux capacity, refusals
\* without effect, sessions that end only by teardown, expiry or reset.
ImplementsLabSessions == Promise!Spec

\* First-fit allocation wastes nothing: allocateTunerLocked finds a tuner exactly
\* for the services whose mux, with those in use, is within the tuner count
\* (docs/supported-profile.md), however sessions came and went before.
AdmitsWhatFits ==
  \A svc \in Services : CanAllocate(MuxOf[svc]) <=> Promise!Fits(svc)

----------------------------------------------------------------------------
(* What the documentation says and the code does not do.                   *)

\* docs/supported-profile.md: timeline steps use elapsed milliseconds from the
\* accepted request, so reading the state never moves a timeline back.  A reader
\* that waited for the mutex moves it back to the step of its older clock.
ReadsNeverRewind ==
  [][(\E t \in Lagged : StatusAt(t) \/ ScenarioAt(t))
       => mode'.timeline.stepIndex >= mode.timeline.stepIndex]_vars
=============================================================================

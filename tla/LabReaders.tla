---------------------------- MODULE LabReaders ----------------------------
(***************************************************************************)
(* Requests that call the lab more than once (internal/httpserver and the  *)
(* RTCP provider of internal/rtsp/server.go).  The mutex of Manager makes  *)
(* each call atomic, not the pair: between the Status and the Scenario of  *)
(* one playback diagnosis (or one agent context, which reads the same two),*)
(* or between an accepted POST /api/scenario and the read that fills its   *)
(* response, every other call of LabManager may run.  One such request is  *)
(* followed here; all others are LabManager's.                             *)
(***************************************************************************)
EXTENDS LabManager

VARIABLE reader   \* the request followed: what it has read so far

allVars == <<vars, reader>>

NoReader == [doing |-> "nothing"]

\* What an answer uses of the lab: the service of each session, the active scenario
\* and, for the properties, the timeline step it came from (0 without a timeline).
SessionsSeen == [id \in DOMAIN sessions' |-> sessions'[id].service]
ModeSeen     == [scenario |-> mode'.scenario, stepIndex |-> mode'.timeline.stepIndex]

\* overtaken: another accepted request has replaced the scenario or the timeline
\* since the first call (history only).
InCall == reader.doing \in {"diagnosis", "post"}

ReaderInit == Init /\ reader = NoReader

----------------------------------------------------------------------------
(* The two calls of a request.                                             *)

\* First call of playbackDiagnostics: s.lab.Status().
ReadStatus(t) ==
  /\ reader = NoReader
  /\ StatusAt(t)
  /\ reader' = [doing |-> "diagnosis", since |-> t, mode |-> ModeSeen, overtaken |-> FALSE,
                 sessions |-> SessionsSeen]

\* handleAPIScenario, POST: the scenario or timeline is set.
Post(t) ==
  /\ reader = NoReader
  /\ \/ \E r \in ScenarioRequests : SetScenario(r, t)
     \/ \E steps \in TimelineRequests : SetScenarioTimeline(steps, t)
  /\ reader' = [doing |-> "post", since |-> t, mode |-> ModeSeen, overtaken |-> FALSE]

Answered ==
  IF reader.doing = "diagnosis"
    THEN [doing |-> "diagnosed", since |-> reader.since, mode |-> reader.mode,
          overtaken |-> reader.overtaken, sessions |-> reader.sessions, found |-> ModeSeen]
    ELSE [doing |-> "posted", since |-> reader.since, mode |-> reader.mode,
          overtaken |-> reader.overtaken, found |-> ModeSeen]

\* Second call of either: s.lab.Scenario(), with a later reading of the clock.
ReadScenario_Cached(t) ==        \* fault: the timeline is not moved to its due step
  /\ InCall /\ t >= reader.since
  /\ UNCHANGED vars
  /\ reader' = Answered
ReadScenario(t) ==
  /\ InCall /\ t >= reader.since
  /\ ScenarioAt(t)
  /\ reader' = Answered

Done ==
  /\ reader.doing \in {"diagnosed", "posted"}
  /\ reader' = NoReader
  /\ UNCHANGED vars

ModeReplaced ==
  \/ mode'.timeline.steps # mode.timeline.steps
  \/ mode'.timeline.startedAt # mode.timeline.startedAt
  \/ mode.timeline = NoTimeline /\ mode'.scenario # mode.scenario

\* Any call by anyone else.  A complete answer no longer changes, so nothing is
\* followed past it.
Other ==
  /\ reader = NoReader \/ InCall
  /\ Next
  /\ reader' = IF InCall THEN [reader EXCEPT !.overtaken = @ \/ ModeReplaced] ELSE reader

ReaderNext ==
  \/ \E t \in Lagged : ReadStatus(t) \/ Post(t) \/ ReadScenario(t)
  \/ Done
  \/ Other

ReaderSpec == ReaderInit /\ [][ReaderNext]_allVars

----------------------------------------------------------------------------
(* What the answers say.                                                   *)

DiagnosedScenario_Untargeted(id) == reader.found.scenario.name  \* fault: the target is ignored

\* The scenario a diagnosis reports for session id (playbackDiagnostics).
DiagnosedScenario(id) ==
  IF AppliesTo(reader.found.scenario, reader.sessions[id])
    THEN reader.found.scenario.name ELSE "normal"

----------------------------------------------------------------------------
(* Properties.                                                             *)

Complete == reader.doing \in {"diagnosed", "posted"}

\* A diagnosis never pairs the sessions of one moment with a scenario of an
\* earlier one, and the response to a POST shows what was posted or a later
\* step of it: although a late clock reading can move the shared timeline back
\* (ReadsNeverRewind), one request never sees it go back, unless somebody else
\* replaced the scenario between its calls.
OneRequestNeverRewinds ==
  Complete /\ ~reader.overtaken =>
    /\ reader.found.stepIndex >= reader.mode.stepIndex
    /\ reader.found.stepIndex = reader.mode.stepIndex
         => reader.found.scenario = reader.mode.scenario

\* When step k of a running timeline is in force, by the times posted with it.
Begins(tl, k) == tl.startedAt + tl.steps[k].at
InForceSince(tl, k, since) ==
  /\ Begins(tl, k) <= now
  /\ k < Len(tl.steps) => since < Begins(tl, k + 1)

\* The scenarios in force at some moment from the first call of the request on.  An
\* answer is followed no further than its second call, so the mode is still its own.
InForce ==
  LET tl == mode.timeline
  IN  IF tl = NoTimeline THEN {mode.scenario}
      ELSE {ScenarioOf(tl.steps[k]) : k \in {j \in DOMAIN tl.steps : InForceSince(tl, j, reader.since)}}

\* Whoever moves the shared timeline forth and back or replaces it between the two
\* calls, an answer never shows a scenario that had ended when its request came in
\* or had yet to begin when it was given, and blames a session for one only if
\* that scenario applies to the service of the session.
AnswerInForce ==
  Complete =>
    /\ reader.found.scenario \in InForce
    /\ reader.doing = "diagnosed" =>
         \A id \in DOMAIN reader.sessions :
           DiagnosedScenario(id) # "normal" =>
             \E scn \in InForce :
               scn.name = DiagnosedScenario(id) /\ AppliesTo(scn, reader.sessions[id])
=============================================================================

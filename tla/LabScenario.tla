---------------------------- MODULE LabScenario ----------------------------
(***************************************************************************)
(* Fault scenarios and the RF frontend they produce: the pure part of      *)
(* internal/lab/manager.go.  A scenario may be aimed at one service or one *)
(* mux of the catalog; a timeline is a sequence of scenarios with the time *)
(* at which each begins.  Nothing here has state: LabManager does.         *)
(***************************************************************************)
EXTENDS Integers, Sequences

CONSTANTS
  Services,      \* service ids of the catalog
  Muxes,         \* mux ids of the catalog
  MuxOf,         \* Service.MuxID
  LockTime       \* defaultLockDuration, in clock units

\* CatalogFromChannels appends the mux of every service it appends.
ASSUME CatalogAssumption == MuxOf \in [Services -> Muxes]
ASSUME LockTimeAssumption == LockTime \in Nat \ {0}

NoTarget == ""   \* an empty service_id or mux_id
NoTime   == -1   \* the zero time.Time

TargetedNames ==   \* Scenario.SupportsTarget
  {"no_signal", "rtp_stop", "malformed_psi", "rtp_loss", "rtp_jitter",
   "rtp_blackhole", "delayed_psi", "cc_errors", "epg_gap",
   "signal_degraded", "lock_loss", "signal_recovery", "slow_lock"}

ScenarioNames ==   \* the names lookupScenario accepts
  TargetedNames \cup
  {"normal", "bad_m3u", "tuner_busy", "tuner_wedged", "slow_rtsp",
   "cold_boot", "epg_mismatch", "epg_stale"}

Scenario == [name    : ScenarioNames,
             service : Services \cup {NoTarget},
             mux     : Muxes \cup {NoTarget},
             duration : Int]

TimelineStep == [at       : Nat,
                 name     : ScenarioNames,
                 service  : Services \cup {NoTarget},
                 mux      : Muxes \cup {NoTarget},
                 duration : Int]

\* What POST /api/scenario decodes from JSON before it validates anything.
RawScenario == [name : STRING, service : STRING, mux : STRING, duration : Int]
RawStep     == [at : Int, name : STRING, service : STRING, mux : STRING, duration : Int]

ScenarioOf(r) == [name |-> r.name, service |-> r.service,
                  mux |-> r.mux, duration |-> r.duration]

NormalScenario == [name |-> "normal", service |-> NoTarget,
                   mux |-> NoTarget, duration |-> 0]

\* Scenario.AppliesTo, for a service on its own mux.
AppliesTo(scn, svc) ==
  /\ scn.service \in {NoTarget, svc}
  /\ scn.mux \in {NoTarget, MuxOf[svc]}

----------------------------------------------------------------------------
(* Validation of POST /api/scenario: "ok" or the error returned.           *)

TargetError(r) ==
  IF (r.service # NoTarget \/ r.mux # NoTarget) /\ r.name \notin TargetedNames
    THEN "scenario_target"
  ELSE IF r.duration > 0 /\ r.name # "epg_gap" THEN "scenario_duration"
  ELSE IF r.service \notin Services \cup {NoTarget} THEN "service_not_found"
  ELSE IF r.mux \notin Muxes \cup {NoTarget} THEN "invalid_tune"
  ELSE "ok"

\* SetScenarioOptionsAt, up to its Lock.
OptionsError(r) ==
  IF r.name \notin ScenarioNames THEN "unknown_scenario" ELSE TargetError(r)

\* One iteration of the loop in validateTimelineSteps.
StepError(steps, i) ==
  IF i > 1 /\ steps[i].at <= steps[i - 1].at THEN "invalid_timeline"
  ELSE IF steps[i].at < 0 THEN "invalid_timeline"
  ELSE IF steps[i].name \notin ScenarioNames THEN "unknown_scenario"
  ELSE IF steps[i].name = "tuner_wedged" THEN "invalid_timeline"
  ELSE TargetError(steps[i])

\* validateTimelineSteps: the error of the first step that has one.
TimelineError(steps) ==
  IF steps = <<>> THEN "invalid_timeline"
  ELSE IF steps[1].at # 0 THEN "invalid_timeline"
  ELSE LET bad == {i \in DOMAIN steps : StepError(steps, i) # "ok"}
       IN  IF bad = {} THEN "ok"
           ELSE StepError(steps, CHOOSE i \in bad : \A j \in bad : i <= j)

----------------------------------------------------------------------------
(* Timelines.  The nil timeline is the one without steps.                  *)

NoTimeline == [startedAt |-> NoTime, stepIndex |-> 0, steps |-> <<>>]

\* A running timeline points at one of its steps; the first begins at once.
Timeline(times) ==
  {NoTimeline} \cup
  {tl \in [startedAt : times, stepIndex : Nat, steps : Seq(TimelineStep)] :
     tl.stepIndex \in DOMAIN tl.steps /\ tl.steps[1].at = 0}

Elapsed(tl, t) == IF t < tl.startedAt THEN 0 ELSE t - tl.startedAt

DueStep_Early(tl, t) ==         \* fault: a step begins one unit early
  LET due == {i \in DOMAIN tl.steps : tl.steps[i].at <= Elapsed(tl, t) + 1}
  IN  CHOOSE i \in due : \A j \in due : j <= i

\* The last step whose time has come, as the loop in scenarioAtLocked finds it.
DueStep(tl, t) ==
  LET due == {i \in DOMAIN tl.steps : tl.steps[i].at <= Elapsed(tl, t)}
  IN  CHOOSE i \in due : \A j \in due : j <= i

----------------------------------------------------------------------------
(* Frontends: the state and LastLockChange.  The synthetic signal levels   *)
(* are a function of the state and are left out.                           *)

FrontendStates == {"idle", "tuning", "locked", "degraded", "lost", "recovering"}
Frontend       == [state : FrontendStates, since : Int]

IdleFrontend == [state |-> "idle", since |-> NoTime]

Locking_Early(waiting, startedAt, t) ==   \* fault: off by one
  IF t + 1 < startedAt + LockTime
    THEN [state |-> waiting,  since |-> startedAt]
    ELSE [state |-> "locked", since |-> startedAt + LockTime]

\* tuning or recovering for LockTime, locked from then on.
Locking(waiting, startedAt, t) ==
  IF t < startedAt + LockTime
    THEN [state |-> waiting,  since |-> startedAt]
    ELSE [state |-> "locked", since |-> startedAt + LockTime]

\* frontendForScenario: the scenarios that impose a frontend state.
ImposingNames == {"signal_degraded", "lock_loss", "slow_lock"}
ImposedState(name) == CASE name = "signal_degraded" -> "degraded"
                        [] name = "lock_loss"       -> "lost"
                        [] name = "slow_lock"       -> "tuning"

(* A mode is what the Manager keeps of the active fault: scenario,         *)
(* scenarioChangedAt and timeline.                                         *)
Mode(scn, changedAt, tl) == [scenario |-> scn, changedAt |-> changedAt, timeline |-> tl]

RecoveryStart(tl) == tl.startedAt + tl.steps[tl.stepIndex].at

\* timelineRecoveryFrontendLocked: the step after a lock_loss that hit one of
\* the services on the tuner recovers from the step's own start, not from the
\* moment some request noticed the step.
RecoversFromLoss(services, tl, t) ==
  /\ tl.stepIndex > 1
  /\ tl.steps[tl.stepIndex].name \in {"normal", "signal_recovery"}
  /\ tl.steps[tl.stepIndex - 1].name = "lock_loss"
  /\ RecoveryStart(tl) <= t
  /\ \E svc \in services : AppliesTo(ScenarioOf(tl.steps[tl.stepIndex - 1]), svc)

\* recomputeTunerFrontendLocked for a tuner that serves the given services.
FrontendFor(services, tuneStartedAt, mode, t) ==
  LET hits      == \E svc \in services : AppliesTo(mode.scenario, svc)
      recovers  == RecoversFromLoss(services, mode.timeline, t)
  IN  IF services = {} THEN IdleFrontend
      ELSE IF hits /\ mode.scenario.name \in ImposingNames
        THEN [state |-> ImposedState(mode.scenario.name), since |-> t]
      ELSE IF recovers THEN Locking("recovering", RecoveryStart(mode.timeline), t)
      ELSE IF hits /\ mode.scenario.name = "signal_recovery"
        THEN Locking("recovering", mode.changedAt, t)
      ELSE Locking("tuning", tuneStartedAt, t)
=============================================================================

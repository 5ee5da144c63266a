------------------------- MODULE LabReaders_proofs -------------------------
(***************************************************************************)
(* Proofs about what readers of the lab see.  First one snapshot of it,    *)
(* the frontends and the RTCP reports built from them: the frontend of a   *)
(* tuner is cached and recomputed by whoever changes what it depends on,   *)
(* and FrontendInv says that nobody forgets.  Then requests that call the  *)
(* lab twice while every other call of the lab may run in between.         *)
(***************************************************************************)
EXTENDS LabReaders, LabStatus, LabManager_proofs

\* The services a tuner serves, as recomputeTunerFrontendLocked collects them.
ServedBy(tuner, sess) == {sess[id].service : id \in tuner.sessions \cap DOMAIN sess}

\* The cached frontend is the one recomputeTunerFrontendLocked computes for what the
\* tuner serves now under the mode of now, at some reading of the clock since.
Current(tuner, sess, md, clock) ==
  \E t \in Times :
    /\ t <= clock
    /\ tuner.frontend = FrontendFor(ServedBy(tuner, sess), tuner.tuneStartedAt, md, t)

\* No time the lab keeps lies ahead of the clock.
ClocksPast == /\ mode.changedAt <= now
              /\ \A i \in TunerIDs : tuners[i].tuneStartedAt <= now

FrontendInv == /\ AccountingInv
               /\ ClocksPast
               /\ \A i \in TunerIDs : Current(tuners[i], sessions, mode, now)

----------------------------------------------------------------------------
(* Lemmas about one tuner.                                                 *)

\* A recomputed frontend is current.
LEMMA RecomputedCurrent ==
  ASSUME NEW tuner \in Tuner, NEW sess, NEW md, NEW t \in Times, NEW clock, t <= clock
  PROVE  Current(Recomputed(tuner, sess, md, t), sess, md, clock)
<1> DEFINE fe  == FrontendFor(ServedBy(tuner, sess), tuner.tuneStartedAt, md, t)
           new == [tuner EXCEPT !.frontend = fe]
<1>1. new = Recomputed(tuner, sess, md, t)
  BY DEF Recomputed, ServedBy
<1>2. ServedBy(tuner, sess) = ServedBy(new, sess) /\ new.tuneStartedAt = tuner.tuneStartedAt
  BY DEF ServedBy, Tuner
<1>3. new.frontend = fe
  BY DEF Tuner
<1> HIDE DEF new
<1>4. new.frontend = FrontendFor(ServedBy(new, sess), new.tuneStartedAt, md, t)
  BY <1>2, <1>3
<1> QED
  BY <1>1, <1>4 DEF Current

\* So is that of an idle tuner.
LEMMA IdleCurrent ==
  ASSUME NEW sess, NEW md, NEW clock \in Times
  PROVE  Current(IdleTuner, sess, md, clock)
<1>1. ServedBy(IdleTuner, sess) = {}
  BY DEF ServedBy, IdleTuner
<1>2. IdleTuner.frontend = FrontendFor({}, IdleTuner.tuneStartedAt, md, clock)
  BY IdleFrontendWithoutServices DEF IdleTuner
<1> QED
  BY <1>1, <1>2 DEF Current, Times

\* A frontend stays current while its services, its tuning and the mode stay.
LEMMA StaysCurrent ==
  ASSUME NEW tuner, NEW sess, NEW md, NEW clock \in Times, Current(tuner, sess, md, clock),
         NEW sess2, tuner.sessions \subseteq DOMAIN sess, tuner.sessions \subseteq DOMAIN sess2,
         \A id \in tuner.sessions : sess2[id].service = sess[id].service,
         NEW clock2 \in Times, clock <= clock2
  PROVE  Current(tuner, sess2, md, clock2)
<1>1. ServedBy(tuner, sess2) = ServedBy(tuner, sess)
  BY DEF ServedBy
<1>2. \A t \in Times : t <= clock => t <= clock2
  BY DEF Times
<1> QED
  BY <1>1, <1>2 DEF Current

\* scenarioAtLocked recomputes every frontend when it moves to another step, so a
\* reader of the scenario leaves no frontend behind.
LEMMA TunersAtCurrent ==
  ASSUME FrontendInv, NEW t \in Times, t <= now, NEW i \in TunerIDs
  PROVE  Current(TunersAt(t)[i], sessions, ModeAt(t), now)
<1>1. tuners[i] \in Tuner
  BY DEF FrontendInv, AccountingInv, TypeOK
<1>2. CASE StepMoves(t)
  BY <1>1, <1>2, RecomputedCurrent DEF TunersAt, RecomputedAll
<1>3. CASE ~StepMoves(t)
  BY <1>3 DEF TunersAt, ModeAt, FrontendInv
<1> QED
  BY <1>2, <1>3

----------------------------------------------------------------------------
(* The calls that move tuners.                                             *)

\* Teardown and expiry: the tuners that keep sessions are recomputed.
LEMMA RemoveCurrent ==
  ASSUME FrontendInv, NEW gone, Remove(gone), UNCHANGED <<now, mode>>
  PROVE  ClocksPast' /\ \A i \in TunerIDs : Current(tuners'[i], sessions', mode', now')
<1> SUFFICES ASSUME NEW i \in TunerIDs
             PROVE  /\ tuners'[i].tuneStartedAt <= now
                    /\ Current(tuners'[i], sessions', mode, now)
  BY DEF FrontendInv, ClocksPast
<1>1. /\ now \in Times /\ now \in Nat
      /\ tuners[i] \in Tuner /\ tuners[i].sessions \subseteq Live
      /\ Current(tuners[i], sessions, mode, now) /\ tuners[i].tuneStartedAt <= now
  BY DEF FrontendInv, AccountingInv, TypeOK, TunerAccounting, ClocksPast, Times
<1>2. /\ tuners'[i] = Released(tuners[i], gone, sessions')
      /\ Live' = Live \ gone /\ \A id \in Live \ gone : sessions'[id] = sessions[id]
  BY DEF Remove, Live
<1>3. CASE tuners[i].sessions \cap gone = {}
  <2>1. /\ tuners'[i] = tuners[i] /\ tuners[i].sessions \subseteq Live'
        /\ \A id \in tuners[i].sessions : sessions'[id].service = sessions[id].service
    BY <1>1, <1>2, <1>3 DEF Released
  <2> QED
    BY <1>1, <2>1, StaysCurrent DEF Live
<1>4. CASE tuners[i].sessions \cap gone # {} /\ tuners[i].sessions \subseteq gone
  <2>1. tuners'[i] = IdleTuner
    BY <1>2, <1>4 DEF Released
  <2>2. IdleTuner.tuneStartedAt <= now
    BY <1>1 DEF IdleTuner, NoTime
  <2> QED
    BY <1>1, <2>1, <2>2, IdleCurrent
<1>5. CASE tuners[i].sessions \cap gone # {} /\ ~(tuners[i].sessions \subseteq gone)
  <2> DEFINE rest == [tuners[i] EXCEPT !.sessions = @ \ gone]
  <2>1. rest \in Tuner /\ rest.tuneStartedAt = tuners[i].tuneStartedAt
    BY <1>1 DEF Tuner
  <2>2. tuners'[i] = Recomputed(rest, sessions', mode, now)
    BY <1>2, <1>5 DEF Released
  <2> HIDE DEF rest
  <2>3. Current(tuners'[i], sessions', mode, now)
    BY <1>1, <2>1, <2>2, RecomputedCurrent
  <2>4. tuners'[i].tuneStartedAt = rest.tuneStartedAt
    BY <2>1, <2>2 DEF Recomputed, Tuner
  <2> QED
    BY <1>1, <2>1, <2>3, <2>4
<1> QED
  BY <1>3, <1>4, <1>5

\* SETUP recomputes the tuner it joins, under the step that is due.
LEMMA SetupCurrent ==
  ASSUME FrontendInv, NEW id \in SessionIDs, NEW svc \in Services, NEW raw \in SetupQueries,
         SetupAccepted(id, svc, raw)
  PROVE  ClocksPast' /\ \A i \in TunerIDs : Current(tuners'[i], sessions', mode', now')
<1> DEFINE mux == MuxOf[svc]
           k   == AllocatedTuner(mux)
           old == TunersAt(now)
           joined == JoinedTuner(old[k], mux, id)
<1>1. k \in TunerIDs
  <2>1. CanAllocate(mux)
    BY DEF SetupAccepted, SetupError
  <2> QED
    BY <2>1, AllocatedTunerType DEF FrontendInv, AccountingInv
<1>2. /\ old \in [TunerIDs -> Tuner] /\ mux \in Muxes /\ now \in Times /\ now \in Nat
      /\ now' = now
  BY ObservationType, CatalogAssumption
  DEF FrontendInv, AccountingInv, TypeOK, Times, SetupAccepted
<1>3. \A j \in TunerIDs : /\ old[j].sessions \subseteq Live
                          /\ old[j].tuneStartedAt <= now
                          /\ Current(old[j], sessions, mode', now)
  <2> TAKE j \in TunerIDs
  <2>1. old[j].sessions \subseteq Live /\ old[j].tuneStartedAt <= now
    BY TunersAtKeeps DEF FrontendInv, AccountingInv, TunerAccounting, ClocksPast
  <2>2. mode' = ModeAt(now)
    BY DEF SetupAccepted
  <2> QED
    BY <1>2, <2>1, <2>2, TunersAtCurrent
<1>4. /\ id \notin Live /\ Live' = Live \cup {id}
      /\ \A x \in Live : sessions'[x] = sessions[x]
  BY DEF SetupAccepted, IsFresh, Live
<1>5. tuners' = [old EXCEPT ![k] = Recomputed(joined, sessions', mode', now)]
  BY <1>1, <1>2 DEF SetupAccepted
<1>6. joined \in Tuner /\ joined.tuneStartedAt <= now
  <2>1. old[k] \in Tuner /\ old[k].tuneStartedAt <= now
    BY <1>1, <1>2, <1>3
  <2>2. joined \in Tuner
    BY <1>2, <2>1 DEF JoinedTuner, Tuner
  <2>3. joined.tuneStartedAt \in {old[k].tuneStartedAt, now}
    BY <2>1 DEF JoinedTuner, Tuner
  <2> HIDE DEF joined, old, k
  <2> QED
    BY <1>2, <2>1, <2>2, <2>3
<1> HIDE DEF old, joined, k
<1>7. ASSUME NEW i \in TunerIDs
      PROVE  tuners'[i].tuneStartedAt <= now /\ Current(tuners'[i], sessions', mode', now)
  <2>1. CASE i = k
    <3>1. tuners'[i] = Recomputed(joined, sessions', mode', now)
      BY <1>2, <1>5, <2>1
    <3>2. tuners'[i].tuneStartedAt = joined.tuneStartedAt
      BY <1>6, <3>1 DEF Recomputed, Tuner
    <3> QED
      BY <1>2, <1>6, <3>1, <3>2, RecomputedCurrent
  <2>2. CASE i # k
    <3>1. /\ tuners'[i] = old[i] /\ old[i].sessions \subseteq Live'
          /\ \A x \in old[i].sessions : sessions'[x].service = sessions[x].service
      BY <1>2, <1>3, <1>4, <1>5, <2>2
    <3> QED
      BY <1>2, <1>3, <3>1, StaysCurrent DEF Live
  <2> QED
    BY <2>1, <2>2
<1>8. mode'.changedAt <= now
  BY <1>2 DEF SetupAccepted, ModeAt, Mode, FrontendInv, ClocksPast
<1> QED
  BY <1>2, <1>7, <1>8 DEF ClocksPast

----------------------------------------------------------------------------
(* Every step.                                                             *)

LEMMA FrontendStep ==
  ASSUME FrontendInv, [Next]_vars
  PROVE  FrontendInv'
<1>1. AccountingInv'
  BY AccountingStep DEF FrontendInv
<1> DEFINE Goal == ClocksPast' /\ \A i \in TunerIDs : Current(tuners'[i], sessions', mode', now')
<1> SUFFICES Goal
  BY <1>1 DEF FrontendInv
<1>2. /\ \A i \in TunerIDs : /\ tuners[i] \in Tuner /\ tuners[i].sessions \subseteq Live
                             /\ tuners[i].tuneStartedAt <= now
                             /\ tuners[i].tuneStartedAt \in Int
                             /\ Current(tuners[i], sessions, mode, now)
      /\ mode.changedAt <= now /\ mode.changedAt \in Int
      /\ now \in Times /\ now \in Nat
      /\ \A t \in Lagged : t \in Times /\ t <= now
      /\ \A id \in Live : sessions[id] \in SessionRecord
  BY DEF FrontendInv, AccountingInv, TypeOK, TunerAccounting, ClocksPast, Lagged, Times,
         Tuner, NoTime, ModeType
<1>3. ASSUME UNCHANGED <<tuners, mode>>, now' \in Times, now <= now', Live' = Live,
             \A id \in Live : sessions'[id].service = sessions[id].service
      PROVE  Goal
  <2>1. ClocksPast'
    BY <1>2, <1>3 DEF ClocksPast, Times
  <2>2. ASSUME NEW i \in TunerIDs PROVE Current(tuners'[i], sessions', mode', now')
    BY <1>2, <1>3, StaysCurrent DEF Live
  <2> QED
    BY <2>1, <2>2
<1>4. ASSUME UNCHANGED <<now, sessions, tuners, mode>> PROVE Goal
  BY <1>2, <1>3, <1>4 DEF Live
<1>5. ASSUME UNCHANGED <<now, sessions>>, NEW t \in Lagged, mode'.changedAt <= now,
             tuners' = RecomputedAll(mode', t)
      PROVE  Goal
  <2>1. \A i \in TunerIDs : tuners'[i] = Recomputed(tuners[i], sessions, mode', t)
    BY <1>5 DEF RecomputedAll
  <2>2. \A i \in TunerIDs : tuners'[i].tuneStartedAt = tuners[i].tuneStartedAt
    BY <1>2, <2>1 DEF Recomputed, Tuner
  <2> QED
    BY <1>2, <1>5, <2>1, <2>2, RecomputedCurrent DEF ClocksPast
<1>6. ASSUME UNCHANGED <<now, sessions>>, NEW t \in Lagged, tuners' = TunersAt(t),
             mode' = ModeAt(t)
      PROVE  Goal
  <2>1. mode'.changedAt <= now
    BY <1>2, <1>6 DEF ModeAt, Mode
  <2>2. \A i \in TunerIDs : tuners'[i].tuneStartedAt = tuners[i].tuneStartedAt
    BY <1>6, TunersAtKeeps DEF FrontendInv, AccountingInv
  <2>3. \A i \in TunerIDs : Current(tuners'[i], sessions, mode', now)
    BY <1>2, <1>6, TunersAtCurrent
  <2> QED
    BY <1>2, <1>6, <2>1, <2>2, <2>3 DEF ClocksPast
<1>7. ASSUME NEW id \in Live, NEW r, r.service = sessions[id].service,
             sessions' = [sessions EXCEPT ![id] = r], UNCHANGED <<now, tuners, mode>>
      PROVE  Goal
  <2>1. Live' = Live /\ \A x \in Live : sessions'[x].service = sessions[x].service
    BY <1>7 DEF Live
  <2>2. now' \in Times /\ now <= now'
    BY <1>2, <1>7
  <2> QED
    BY <1>3, <1>7, <2>1, <2>2
<1> HIDE DEF Goal
<1>8. CASE Setup
  <2>1. CASE SetupUnmatched
    BY <1>4, <2>1 DEF SetupUnmatched
  <2>2. ASSUME NEW svc \in Services, NEW raw \in SetupQueries, SetupRejected(svc, raw)
        PROVE  Goal
    <3>1. now \in Lagged
      BY <1>2, CountAssumption DEF Lagged, Times
    <3> QED
      BY <1>6, <2>2, <3>1 DEF SetupRejected
  <2>3. ASSUME NEW svc \in Services, NEW raw \in SetupQueries, NEW id \in SessionIDs,
               SetupAccepted(id, svc, raw)
        PROVE  Goal
    BY <2>3, SetupCurrent DEF Goal
  <2> QED
    BY <1>8, <2>1, <2>2, <2>3 DEF Setup
<1>9. ASSUME NEW id \in SessionIDs, Play(id) \/ Pause(id) PROVE Goal
  BY <1>7, <1>9, MovedSession DEF FrontendInv, AccountingInv
<1>10. ASSUME NEW id \in SessionIDs, RecordRTPSent(id) PROVE Goal
  BY <1>2, <1>7, <1>10 DEF RecordRTPSent, SessionRecord
<1>11. ASSUME NEW id \in SessionIDs, NEW q \in PIDQueries, UpdatePIDs(id, q) PROVE Goal
  BY <1>2, <1>4, <1>7, <1>11 DEF UpdatePIDs, SessionRecord
<1>12. ASSUME NEW id \in SessionIDs, NEW transport \in Transports, SetRTPTransport(id, transport)
       PROVE  Goal
  BY <1>2, <1>7, <1>12 DEF SetRTPTransport, SessionRecord
<1>13. ASSUME NEW id \in SessionIDs, NEW t \in Lagged, Touch(id, t) PROVE Goal
  BY <1>2, <1>7, <1>13 DEF Touch, SessionRecord
<1>14. ASSUME NEW id \in SessionIDs, SessionNotFound(id) PROVE Goal
  BY <1>4, <1>14 DEF SessionNotFound
<1>15. ASSUME NEW id \in SessionIDs, Teardown(id) PROVE Goal
  BY <1>15, RemoveCurrent DEF Teardown, Goal
<1>16. CASE SessionCall
  BY <1>9, <1>10, <1>11, <1>12, <1>13, <1>14, <1>15, <1>16 DEF SessionCall
<1>17. ASSUME NEW t \in Lagged, ExpireSessions(t) PROVE Goal
  BY <1>17, RemoveCurrent DEF ExpireSessions, Goal
<1>18. ASSUME NEW t \in Lagged, StatusAt(t) PROVE Goal
  BY <1>2, <1>5, <1>18 DEF StatusAt, ModeAt, Mode
<1>19. ASSUME NEW t \in Lagged, ScenarioAt(t) PROVE Goal
  BY <1>6, <1>19 DEF ScenarioAt
<1>20. ASSUME NEW t \in Lagged, NEW r \in ScenarioRequests, SetScenario(r, t) PROVE Goal
  BY <1>2, <1>5, <1>20 DEF SetScenario, Mode
<1>21. ASSUME NEW t \in Lagged, NEW steps \in TimelineRequests, SetScenarioTimeline(steps, t)
       PROVE  Goal
  BY <1>2, <1>5, <1>21 DEF SetScenarioTimeline, Mode
<1>22. ASSUME NEW err, ScenarioRefused(err) PROVE Goal
  BY <1>4, <1>22 DEF ScenarioRefused
<1>23. CASE Reset
  <2>1. /\ \A i \in TunerIDs : tuners'[i] = IdleTuner
        /\ mode'.changedAt = mode.changedAt /\ now' = now
    BY <1>23 DEF Reset, Mode
  <2>2. IdleTuner.tuneStartedAt <= now
    BY <1>2 DEF IdleTuner, NoTime
  <2> QED
    BY <1>2, <2>1, <2>2, IdleCurrent DEF Goal, ClocksPast
<1>24. CASE Tick
  <2>1. now' \in Times /\ now <= now'
    BY <1>2, <1>24, CountAssumption DEF Tick, Times
  <2> QED
    BY <1>3, <1>24, <2>1 DEF Tick, Live
<1>25. CASE UNCHANGED vars
  BY <1>4, <1>25 DEF vars
<1> QED
  BY <1>8, <1>16, <1>17, <1>18, <1>19, <1>20, <1>21, <1>22, <1>23, <1>24, <1>25
  DEF Next, LabCall

LEMMA FrontendInit == Init => FrontendInv
<1> SUFFICES ASSUME Init PROVE FrontendInv
  OBVIOUS
<1>1. now \in Times /\ now = 0 /\ \A i \in TunerIDs : tuners[i] = IdleTuner
  BY CountAssumption DEF Init, Times
<1>2. ClocksPast
  BY <1>1 DEF Init, ClocksPast, Mode, IdleTuner, NoTime
<1> QED
  BY <1>1, <1>2, AccountingInit, IdleCurrent DEF FrontendInv

----------------------------------------------------------------------------
(* What follows.                                                           *)

\* What decides the state of a frontend (frontendForScenario, lifecycleFrontend).
LEMMA FrontendState ==
  ASSUME NEW services, NEW started, NEW md, NEW t
  PROVE  LET fe  == FrontendFor(services, started, md, t)
             hit == \E svc \in services : AppliesTo(md.scenario, svc)
         IN  /\ fe.state = "lost" <=> hit /\ md.scenario.name = "lock_loss"
             /\ fe.state = "degraded" <=> hit /\ md.scenario.name = "signal_degraded"
             /\ fe.state = "idle" <=> services = {}
             /\ hit /\ md.scenario.name = "slow_lock" => fe.state = "tuning"
             /\ hit /\ md.scenario.name = "signal_recovery"
                  => fe.state \in {"recovering", "locked"}
<1> DEFINE hit == \E svc \in services : AppliesTo(md.scenario, svc)
<1>1. \A waiting, at : Locking(waiting, at, t).state \in {waiting, "locked"}
  BY DEF Locking
<1>2. hit => services # {}
  OBVIOUS
<1> QED
  BY <1>1, <1>2 DEF FrontendFor, ImposingNames, ImposedState, IdleFrontend

\* The same for the cached frontend of a tuner.
LEMMA CachedState ==
  ASSUME FrontendInv, NEW i \in TunerIDs
  PROVE  LET state == tuners[i].frontend.state
             hit   == \E id \in tuners[i].sessions : AppliesTo(mode.scenario, sessions[id].service)
         IN  /\ state = "lost" <=> hit /\ mode.scenario.name = "lock_loss"
             /\ state = "degraded" <=> hit /\ mode.scenario.name = "signal_degraded"
             /\ state = "idle" <=> tuners[i].sessions = {}
             /\ hit /\ mode.scenario.name = "slow_lock" => state = "tuning"
             /\ hit /\ mode.scenario.name = "signal_recovery"
                  => state \in {"recovering", "locked"}
<1> DEFINE services == ServedBy(tuners[i], sessions)
<1>1. tuners[i].sessions \subseteq DOMAIN sessions
  BY DEF FrontendInv, AccountingInv, TunerAccounting, Live
<1>2. /\ (\E svc \in services : AppliesTo(mode.scenario, svc))
           <=> (\E id \in tuners[i].sessions : AppliesTo(mode.scenario, sessions[id].service))
      /\ services = {} <=> tuners[i].sessions = {}
  BY <1>1 DEF ServedBy
<1>3. PICK t \in Times :
        tuners[i].frontend = FrontendFor(services, tuners[i].tuneStartedAt, mode, t)
  BY DEF FrontendInv, Current
<1> HIDE DEF services
<1> QED
  BY <1>2, <1>3, FrontendState

\* The frontend of every tuner, cached by whoever changed it last, shows lock_loss or
\* signal_degraded exactly while it applies to a service on the tuner, for any
\* number of tuners, muxes and sessions and any sequence of calls.
THEOREM FrontendShowsFaultHolds == Spec => []FrontendShowsFault
<1>1. Init => FrontendInv
  BY FrontendInit
<1>2. FrontendInv /\ [Next]_vars => FrontendInv'
  BY FrontendStep
<1>3. FrontendInv => FrontendShowsFault
  BY CachedState DEF FrontendShowsFault
<1> QED
  BY <1>1, <1>2, <1>3, PTL DEF Spec

\* Locking reports no lock change ahead of the clock, and "locked" since LockTime
\* after it began.
LEMMA LockingTimes ==
  ASSUME NEW waiting, waiting # "locked", NEW started \in Int, NEW t \in Int, NEW clock \in Int,
         t <= clock, started <= clock
  PROVE  /\ Locking(waiting, started, t).since <= clock
         /\ Locking(waiting, started, t).state = "locked"
              => Locking(waiting, started, t).since = started + LockTime
<1>1. LockTime \in Int
  BY LockTimeAssumption
<1>2. CASE t < started + LockTime
  <2>1. Locking(waiting, started, t) = [state |-> waiting, since |-> started]
    BY <1>2 DEF Locking
  <2> QED
    BY <2>1
<1>3. CASE ~(t < started + LockTime)
  <2>1. Locking(waiting, started, t) = [state |-> "locked", since |-> started + LockTime]
    BY <1>3 DEF Locking
  <2> QED
    BY <1>1, <1>3, <2>1
<1> QED
  BY <1>2, <1>3

\* So does every frontend the code computes (frontendForScenario,
\* timelineRecoveryFrontendLocked, lifecycleFrontend).
LEMMA FrontendTimes ==
  ASSUME NEW services, NEW started \in Int, NEW md \in ModeType, NEW t \in Times, NEW clock \in Int,
         t <= clock, started <= clock, md.changedAt <= clock
  PROVE  LET fe == FrontendFor(services, started, md, t)
         IN  /\ fe.since <= clock
             /\ fe.state = "locked" =>
                  \/ fe.since = started + LockTime
                  \/ /\ RecoversFromLoss(services, md.timeline, clock)
                     /\ fe.since = RecoveryStart(md.timeline) + LockTime
                  \/ /\ md.scenario.name = "signal_recovery"
                     /\ \E svc \in services : AppliesTo(md.scenario, svc)
                     /\ fe.since = md.changedAt + LockTime
<1> DEFINE fe   == FrontendFor(services, started, md, t)
           hits == \E svc \in services : AppliesTo(md.scenario, svc)
<1>1. t \in Nat /\ t \in Int /\ md.changedAt \in Int
  BY DEF Times, ModeType
<1>2. CASE services = {}
  BY <1>1, <1>2 DEF FrontendFor, IdleFrontend, NoTime
<1>3. CASE services # {} /\ hits /\ md.scenario.name \in ImposingNames
  <2>1. fe = [state |-> ImposedState(md.scenario.name), since |-> t]
    BY <1>3 DEF FrontendFor
  <2>2. fe.since <= clock /\ fe.state # "locked"
    BY <1>1, <1>3, <2>1 DEF ImposingNames, ImposedState
  <2> QED
    BY <2>2
<1>4. CASE services # {} /\ RecoversFromLoss(services, md.timeline, t)
             /\ ~(hits /\ md.scenario.name \in ImposingNames)
  <2> DEFINE at == RecoveryStart(md.timeline)
  <2>1. fe = Locking("recovering", at, t)
    BY <1>4 DEF FrontendFor
  <2>2. md.timeline.stepIndex > 1 /\ at <= t
    BY <1>4 DEF RecoversFromLoss
  <2>3. md.timeline # NoTimeline
    BY <2>2 DEF NoTimeline
  <2>4. at \in Int
    <3>1. /\ md.timeline.startedAt \in Times /\ md.timeline.steps \in Seq(TimelineStep)
          /\ md.timeline.stepIndex \in DOMAIN md.timeline.steps
      BY <2>3 DEF ModeType, Timeline
    <3>2. md.timeline.steps[md.timeline.stepIndex] \in TimelineStep
      BY <3>1, ElementOfSeq, LenProperties
    <3>3. md.timeline.startedAt \in Int /\ md.timeline.steps[md.timeline.stepIndex].at \in Int
      BY <3>1, <3>2 DEF TimelineStep, Times
    <3> QED
      BY <3>3 DEF RecoveryStart
  <2>5. RecoversFromLoss(services, md.timeline, clock)
    <3>1. at <= clock
      BY <1>1, <2>2, <2>4
    <3> QED
      BY <1>4, <3>1 DEF RecoversFromLoss
  <2>6. at <= clock
    BY <1>1, <2>2, <2>4
  <2> HIDE DEF at
  <2>7. fe.since <= clock /\ (fe.state = "locked" => fe.since = at + LockTime)
    BY <1>1, <2>1, <2>4, <2>6, LockingTimes
  <2> QED
    BY <2>5, <2>7 DEF at
<1>5. CASE /\ services # {} /\ ~RecoversFromLoss(services, md.timeline, t)
           /\ hits /\ md.scenario.name = "signal_recovery"
  <2>1. fe = Locking("recovering", md.changedAt, t)
    BY <1>5 DEF FrontendFor, ImposingNames
  <2> QED
    BY <1>1, <1>5, <2>1, LockingTimes
<1>6. CASE /\ services # {} /\ ~RecoversFromLoss(services, md.timeline, t)
           /\ ~(hits /\ md.scenario.name \in ImposingNames \cup {"signal_recovery"})
  <2>1. fe = Locking("tuning", started, t)
    BY <1>6 DEF FrontendFor, ImposingNames
  <2> QED
    BY <1>1, <2>1, LockingTimes
<1> QED
  BY <1>2, <1>3, <1>4, <1>5, <1>6 DEF ImposingNames

\* No frontend reports a lock change that has not happened yet, and one that is
\* "locked" has been since LockTime after its tuner was tuned, the step after a loss
\* began or a signal_recovery was set, whatever the scenario, the timeline and the
\* clock readings of the callers (lifecycleFrontend, timelineRecoveryFrontendLocked).
THEOREM LockNotEarlyHolds == Spec => []LockNotEarly
<1>1. Init => FrontendInv
  BY FrontendInit
<1>2. FrontendInv /\ [Next]_vars => FrontendInv'
  BY FrontendStep
<1>3. FrontendInv => LockNotEarly
  <2> SUFFICES ASSUME FrontendInv, NEW i \in TunerIDs
               PROVE  LET fe == tuners[i].frontend
                      IN  /\ fe.since <= now
                          /\ fe.state = "locked" =>
                               \E start \in LockStarts(i) : fe.since = start + LockTime
    BY DEF LockNotEarly
  <2> DEFINE fe     == tuners[i].frontend
             served == ServedBy(tuners[i], sessions)
  <2>1. /\ tuners[i].tuneStartedAt \in Int /\ mode \in ModeType /\ now \in Int
        /\ tuners[i].tuneStartedAt <= now /\ mode.changedAt <= now
    BY DEF FrontendInv, ClocksPast, AccountingInv, TypeOK, Tuner, Times, NoTime
  <2>2. PICK t \in Times :
          t <= now /\ fe = FrontendFor(served, tuners[i].tuneStartedAt, mode, t)
    BY DEF FrontendInv, Current
  <2>3. served = {sessions[id].service : id \in tuners[i].sessions}
    BY DEF ServedBy, FrontendInv, AccountingInv, TunerAccounting, Live
  <2> HIDE DEF served
  <2>4. /\ fe.since <= now
        /\ fe.state = "locked" =>
             \/ fe.since = tuners[i].tuneStartedAt + LockTime
             \/ /\ RecoversFromLoss(served, mode.timeline, now)
                /\ fe.since = RecoveryStart(mode.timeline) + LockTime
             \/ /\ mode.scenario.name = "signal_recovery"
                /\ \E svc \in served : AppliesTo(mode.scenario, svc)
                /\ fe.since = mode.changedAt + LockTime
    BY <2>1, <2>2, FrontendTimes
  <2>5. LockStarts(i) = {tuners[i].tuneStartedAt}
          \cup (IF RecoversFromLoss(served, mode.timeline, now)
                 THEN {RecoveryStart(mode.timeline)} ELSE {})
          \cup (IF /\ mode.scenario.name = "signal_recovery"
                   /\ \E svc \in served : AppliesTo(mode.scenario, svc)
                 THEN {mode.changedAt} ELSE {})
    BY <2>3, Zenon DEF LockStarts
  <2> QED
    BY <2>4, <2>5
<1> QED
  BY <1>1, <1>2, <1>3, PTL DEF Spec

\* Every session of a mux gets the RTCP report of the fault that hits any of them, and
\* frontend_locks counts the tuner accordingly: sessions of one mux are on one tuner,
\* and the frontend of that tuner is current (rtcpStatusForSession, hardwareStatus).
THEOREM RtcpShowsFaultHolds == Spec => []RtcpShowsFault
<1>1. Init => FrontendInv
  BY FrontendInit
<1>2. FrontendInv /\ [Next]_vars => FrontendInv'
  BY FrontendStep
<1>3. FrontendInv => RtcpShowsFault
  <2> SUFFICES ASSUME FrontendInv, NEW id \in Live, NEW hit \in Live,
                      MuxOf[sessions[id].service] = MuxOf[sessions[hit].service],
                      AppliesTo(mode.scenario, sessions[hit].service)
               PROVE  LET report  == Rtcp(id)
                          counted == sessions[id].tunerID \in FrontendLocks
                          name    == mode.scenario.name
                      IN  /\ name = "lock_loss" => /\ report.lock = 0 /\ report.level = 0
                                                   /\ report.quality = 0 /\ ~counted
                          /\ name = "signal_degraded" => report.lock = 1 /\ report.level = 42 /\ counted
                          /\ name = "slow_lock" => report.lock = 0 /\ ~counted
                          /\ name = "signal_recovery" => report.lock = 1
    BY DEF RtcpShowsFault
  <2> DEFINE i     == sessions[id].tunerID
             state == tuners[i].frontend.state
  <2>1. i \in TunerIDs /\ sessions[hit].tunerID \in TunerIDs
    BY DEF FrontendInv, AccountingInv, TypeOK, SessionRecord
  <2>2. hit \in tuners[i].sessions
    <3>1. /\ id \in tuners[i].sessions /\ hit \in tuners[sessions[hit].tunerID].sessions
          /\ tuners[i].mux = tuners[sessions[hit].tunerID].mux
      BY <2>1 DEF FrontendInv, AccountingInv, TunerAccounting
    <3>2. tuners[i].state = "tuned" /\ tuners[sessions[hit].tunerID].state = "tuned"
      BY <2>1, <3>1 DEF FrontendInv, AccountingInv, TunerAccounting
    <3> QED
      BY <2>1, <3>1, <3>2 DEF FrontendInv, AccountingInv, MuxExclusive
  <2>3. /\ mode.scenario.name = "lock_loss" => state = "lost"
        /\ mode.scenario.name = "signal_degraded" => state = "degraded"
        /\ mode.scenario.name = "slow_lock" => state = "tuning"
        /\ mode.scenario.name = "signal_recovery" => state \in {"recovering", "locked"}
    BY <2>1, <2>2, CachedState
  <2>4. /\ Rtcp(id).lock = RtcpLock(state) /\ Rtcp(id).level = Strength(state)
        /\ Rtcp(id).quality = RtcpQuality(state)
        /\ i \in FrontendLocks <=> state \in {"locked", "degraded"}
    BY <2>1 DEF Rtcp, FrontendLocks
  <2> HIDE DEF i, state
  <2> QED
    BY <2>3, <2>4 DEF RtcpLock, Strength, RtcpQuality, i
<1> QED
  BY <1>1, <1>2, <1>3, PTL DEF Spec
----------------------------------------------------------------------------
(* Requests that call the lab twice.                                       *)

\* What a reading of the mode finds at time t: of a timeline the step that is due.
DueAt(md, t) ==
  IF md.timeline = NoTimeline
    THEN [scenario |-> md.scenario, stepIndex |-> 0]
    ELSE [scenario |-> ScenarioOf(md.timeline.steps[DueStep(md.timeline, t)]),
          stepIndex |-> DueStep(md.timeline, t)]

\* What the request followed holds.
Shaped ==
  /\ reader.doing \in {"nothing", "diagnosis", "post", "diagnosed", "posted"}
  /\ reader.doing = "diagnosis" =>
       reader = [doing |-> "diagnosis", since |-> reader.since, mode |-> reader.mode,
                 overtaken |-> reader.overtaken, sessions |-> reader.sessions]
  /\ reader.doing = "post" =>
       reader = [doing |-> "post", since |-> reader.since, mode |-> reader.mode,
                 overtaken |-> reader.overtaken]
  /\ InCall \/ Complete => reader.since \in Times
  /\ InCall => reader.overtaken \in BOOLEAN

\* Unless it is overtaken, what a request read first is what the lab shows at the
\* time of that reading still: the index of the lab may have moved meanwhile, but the
\* step that was due then is due then for ever.
FirstReading == InCall /\ ~reader.overtaken => reader.mode = DueAt(mode, reader.since)

\* The second reading found what the first did, or a later step.
SecondReading ==
  Complete /\ ~reader.overtaken =>
    /\ reader.found.stepIndex >= reader.mode.stepIndex
    /\ reader.found.stepIndex = reader.mode.stepIndex \/ reader.mode.stepIndex = 0
         => reader.found.scenario = reader.mode.scenario

\* The second reading found a scenario that was in force while the request was
\* under way, overtaken or not.
FoundInForce == Complete => reader.found.scenario \in InForce

ReaderInv == /\ FrontendInv /\ TimelineConsistent
             /\ Shaped /\ FirstReading /\ SecondReading /\ FoundInForce

----------------------------------------------------------------------------
(* Readings of the mode.                                                   *)

\* A timeline that runs has steps and points at one of them.
LEMMA Running ==
  ASSUME NEW tl \in Timeline(Times)
  PROVE  /\ tl.steps = <<>> <=> tl = NoTimeline
         /\ tl # NoTimeline => tl.startedAt \in Nat /\ tl.stepIndex \in DOMAIN tl.steps
<1>1. tl # NoTimeline => tl.startedAt \in Times /\ tl.stepIndex \in DOMAIN tl.steps
  BY DEF Timeline
<1>2. DOMAIN <<>> = {}
  OBVIOUS
<1>3. NoTimeline.steps = <<>>
  BY DEF NoTimeline
<1>4. QED BY <1>1, <1>2, <1>3 DEF Times

\* What is due depends on when a timeline started and its steps alone.
LEMMA SameSteps ==
  ASSUME NEW tl, NEW other, tl.startedAt = other.startedAt, tl.steps = other.steps, NEW t
  PROVE  DueStep(tl, t) = DueStep(other, t)
BY DEF DueStep, Elapsed

\* A mode nobody replaced finds at every time what it found before.
LEMMA NotReplaced ==
  ASSUME TypeOK, TypeOK', ~ModeReplaced, NEW t
  PROVE  DueAt(mode', t) = DueAt(mode, t)
<1>1. /\ mode'.timeline.steps = mode.timeline.steps
      /\ mode'.timeline.startedAt = mode.timeline.startedAt
      /\ mode.timeline = NoTimeline => mode'.scenario = mode.scenario
  BY DEF ModeReplaced
<1>2. mode'.timeline = NoTimeline <=> mode.timeline = NoTimeline
  <2>1. mode.timeline \in Timeline(Times) /\ mode'.timeline \in Timeline(Times)
    BY DEF TypeOK, ModeType
  <2>2. QED BY <1>1, <2>1, Running
<1>3. DueStep(mode'.timeline, t) = DueStep(mode.timeline, t)
  BY <1>1, SameSteps
<1>4. QED BY <1>1, <1>2, <1>3 DEF DueAt

\* A call that moves the timeline replaces nothing, and what it shows is what is due.
LEMMA ReadingFinds ==
  ASSUME TypeOK, TypeOK', TimelineConsistent, NEW t \in Times, mode' = ModeAt(t)
  PROVE  ModeSeen = DueAt(mode, t) /\ ~ModeReplaced
<1> DEFINE tl == mode.timeline
           k  == DueStep(tl, t)
<1>0. tl \in Timeline(Times)
  BY DEF TypeOK, ModeType
<1>1. CASE tl = NoTimeline
  <2>1. ~StepMoves(t)
    BY <1>1 DEF StepMoves, NoTimeline
  <2>2. mode' = mode
    BY <2>1 DEF ModeAt
  <2>3. QED BY <1>1, <2>2 DEF ModeSeen, DueAt, ModeReplaced, NoTimeline
<1>2. CASE tl # NoTimeline /\ ~StepMoves(t)
  <2>1. mode' = mode
    BY <1>2 DEF ModeAt
  <2>2. k = tl.stepIndex
    BY <1>0, <1>2, Running DEF StepMoves
  <2>3. mode.scenario = ScenarioOf(tl.steps[k])
    BY <1>2, <2>2 DEF TimelineConsistent
  <2>4. QED BY <1>2, <2>1, <2>2, <2>3 DEF ModeSeen, DueAt, ModeReplaced
<1>3. CASE tl # NoTimeline /\ StepMoves(t)
  <2> DEFINE next == [tl EXCEPT !.stepIndex = k]
  <2>1. next.stepIndex = k /\ next.steps = tl.steps /\ next.startedAt = tl.startedAt
    BY <1>0, <1>3, Zenon DEF Timeline
  <2>2. mode' = Mode(ScenarioOf(tl.steps[k]), t, next)
    BY <1>3 DEF ModeAt
  <2> HIDE DEF next, k
  <2>3. mode'.scenario = ScenarioOf(tl.steps[k]) /\ mode'.timeline = next
    BY <2>2 DEF Mode
  <2> USE DEF k
  <2>4. QED BY <1>3, <2>1, <2>3 DEF ModeSeen, DueAt, ModeReplaced
<1>4. QED BY <1>1, <1>2, <1>3

\* Time does not take a step back.
LEMMA LaterFindsLater ==
  ASSUME TypeOK, NEW s \in Times, NEW t \in Times, s <= t
  PROVE  /\ DueAt(mode, s).stepIndex <= DueAt(mode, t).stepIndex
         /\ \/ DueAt(mode, s).stepIndex = DueAt(mode, t).stepIndex
            \/ DueAt(mode, s).stepIndex = 0
            => DueAt(mode, s).scenario = DueAt(mode, t).scenario
<1>1. CASE mode.timeline = NoTimeline
  BY <1>1 DEF DueAt
<1>2. CASE mode.timeline # NoTimeline
  <2> DEFINE tl == mode.timeline
             k  == DueStep(tl, s)
             n  == DueStep(tl, t)
  <2>1. tl \in Timeline(Times) /\ tl # NoTimeline /\ tl.startedAt \in Nat
    BY <1>2, Running DEF TypeOK, ModeType
  <2>2. k \in DOMAIN tl.steps /\ tl.steps[k].at \in Nat /\ tl.steps[k].at <= Elapsed(tl, s)
    BY <2>1, DueStepIsStep
  <2>3. n \in DOMAIN tl.steps /\ \A i \in DOMAIN tl.steps : tl.steps[i].at <= Elapsed(tl, t) => i <= n
    BY <2>1, DueStepIsStep
  <2>4. /\ Elapsed(tl, s) <= Elapsed(tl, t) /\ Elapsed(tl, s) \in Nat /\ Elapsed(tl, t) \in Nat
    BY <2>1 DEF Elapsed, Times
  <2>5. tl.steps[k].at <= Elapsed(tl, t)
    BY <2>2, <2>4
  <2>6. DOMAIN tl.steps \subseteq Nat \ {0}
    <3>1. tl.steps \in Seq(TimelineStep)
      BY <2>1 DEF Timeline
    <3>2. QED BY <3>1, LenProperties
  <2>7. k <= n /\ k # 0
    BY <2>2, <2>3, <2>5, <2>6
  <2>8. /\ DueAt(mode, s) = [scenario |-> ScenarioOf(tl.steps[k]), stepIndex |-> k]
        /\ DueAt(mode, t) = [scenario |-> ScenarioOf(tl.steps[n]), stepIndex |-> n]
    BY <1>2 DEF DueAt
  <2> HIDE DEF k, n
  <2>9. QED BY <2>7, <2>8
<1>3. QED BY <1>1, <1>2

\* The step due at time t had begun by the clock and had not ended before t.
LEMMA DueIsInForce ==
  ASSUME NEW tl \in Timeline(Times), tl # NoTimeline, NEW clock \in Times, tl.startedAt <= clock,
         NEW since \in Times, NEW t \in Times, since <= t, t <= clock
  PROVE  LET k == DueStep(tl, t)
         IN  /\ k \in DOMAIN tl.steps
             /\ Begins(tl, k) <= clock
             /\ k < Len(tl.steps) => since < Begins(tl, k + 1)
<1> DEFINE k == DueStep(tl, t)
<1>1. /\ tl.startedAt \in Nat /\ clock \in Nat /\ since \in Nat /\ t \in Nat
      /\ tl.steps \in Seq(TimelineStep)
  BY Running DEF Times, Timeline
<1>2. /\ k \in DOMAIN tl.steps /\ tl.steps[k].at \in Nat /\ tl.steps[k].at <= Elapsed(tl, t)
      /\ \A i \in DOMAIN tl.steps : tl.steps[i].at <= Elapsed(tl, t) => i <= k
  BY DueStepIsStep
<1>3. Begins(tl, k) <= clock
  BY <1>1, <1>2 DEF Begins, Elapsed
<1>4. ASSUME k < Len(tl.steps) PROVE since < Begins(tl, k + 1)
  <2>1. k \in Nat /\ k + 1 \in DOMAIN tl.steps
    <3>1. k \in 1..Len(tl.steps) /\ Len(tl.steps) \in Nat
      BY <1>1, <1>2, LenProperties
    <3> HIDE DEF k
    <3>2. k + 1 \in 1..Len(tl.steps)
      BY <1>4, <3>1
    <3>3. QED BY <1>1, <3>1, <3>2, LenProperties
  <2> HIDE DEF k
  <2>2. ~(tl.steps[k + 1].at <= Elapsed(tl, t))
    BY <1>2, <2>1
  <2>3. tl.steps[k + 1].at \in Nat
    <3>1. tl.steps[k + 1] \in TimelineStep
      BY <1>1, <2>1, ElementOfSeq, LenProperties
    <3>2. QED BY <3>1 DEF TimelineStep
  <2>4. QED BY <1>1, <2>2, <2>3 DEF Begins, Elapsed
<1>5. QED BY <1>2, <1>3, <1>4

\* An accepted POST leaves the lab at the first step, which is the step that is due.
LEMMA PostFinds ==
  ASSUME TypeOK, TypeOK', NEW t \in Times,
         \/ \E r \in ScenarioRequests : SetScenario(r, t)
         \/ \E steps \in TimelineRequests : SetScenarioTimeline(steps, t)
  PROVE  ModeSeen = DueAt(mode', t)
<1>1. ASSUME NEW r \in ScenarioRequests, SetScenario(r, t) PROVE ModeSeen = DueAt(mode', t)
  <2>1. mode'.timeline = NoTimeline
    BY <1>1 DEF SetScenario, Mode
  <2>2. QED BY <2>1 DEF ModeSeen, DueAt, NoTimeline
<1>2. ASSUME NEW steps \in TimelineRequests, SetScenarioTimeline(steps, t)
      PROVE  ModeSeen = DueAt(mode', t)
  <2> DEFINE tl == [startedAt |-> t, stepIndex |-> 1, steps |-> steps]
  <2>1. /\ mode'.timeline = tl /\ mode'.scenario = ScenarioOf(steps[1])
    BY <1>2 DEF SetScenarioTimeline, Mode
  <2>2. /\ 1 \in DOMAIN steps /\ steps \in Seq(TimelineStep)
        /\ \A i \in DOMAIN steps : steps[i].at <= 0 => i = 1
    BY <1>2, ValidTimeline DEF SetScenarioTimeline
  <2>3. tl # NoTimeline
    BY DEF NoTimeline
  <2>4. tl \in Timeline(Times)
    BY <2>1 DEF TypeOK, ModeType
  <2>5. Elapsed(tl, t) = 0
    BY DEF Elapsed, Times
  <2>6. /\ DueStep(tl, t) \in DOMAIN steps /\ steps[DueStep(tl, t)].at <= 0
    BY <2>3, <2>4, <2>5, DueStepIsStep
  <2>7. DueStep(tl, t) = 1
    BY <2>2, <2>6
  <2>8. QED BY <2>1, <2>3, <2>7 DEF ModeSeen, DueAt
<1>3. QED BY <1>1, <1>2

----------------------------------------------------------------------------
(* Every step.                                                             *)

\* To the lab each call of a request is a call like any other.
LEMMA CallOfLab == [ReaderNext]_allVars => [Next]_vars
<1>1. ASSUME NEW t \in Lagged, ReadStatus(t) PROVE Next
  BY <1>1 DEF ReadStatus, Next, LabCall
<1>2. ASSUME NEW t \in Lagged, Post(t) PROVE Next
  BY <1>2 DEF Post, Next, LabCall
<1>3. ASSUME NEW t \in Lagged, ReadScenario(t) PROVE Next
  BY <1>3 DEF ReadScenario, Next, LabCall
<1>4. CASE Done
  BY <1>4 DEF Done
<1>5. CASE Other
  BY <1>5 DEF Other
<1>6. CASE UNCHANGED allVars
  BY <1>6 DEF allVars
<1>7. QED BY <1>1, <1>2, <1>3, <1>4, <1>5, <1>6 DEF ReaderNext

\* The parts of the invariant about the lab are those of LabManager.
LEMMA LabKept ==
  ASSUME ReaderInv, [ReaderNext]_allVars
  PROVE  FrontendInv' /\ TimelineConsistent' /\ TypeOK /\ TypeOK' /\ TunerAccounting'
<1>1. [Next]_vars
  BY CallOfLab
<1>2. TypeOK /\ FrontendInv /\ TimelineConsistent
  BY DEF ReaderInv, FrontendInv, AccountingInv
<1>3. FrontendInv' /\ TimelineConsistent'
  BY <1>1, <1>2, FrontendStep, TimelineKept
<1>4. QED BY <1>2, <1>3 DEF FrontendInv, AccountingInv

\* First call of a diagnosis.
LEMMA StatusRead ==
  ASSUME ReaderInv, NEW t \in Lagged, ReadStatus(t)
  PROVE  ReaderInv'
<1>1. FrontendInv' /\ TimelineConsistent' /\ TypeOK /\ TypeOK' /\ TunerAccounting'
  BY LabKept DEF ReaderNext
<1>2. t \in Times /\ mode' = ModeAt(t) /\ TimelineConsistent
  BY DEF Lagged, ReadStatus, StatusAt, ReaderInv
<1>3. reader' = [doing |-> "diagnosis", since |-> t, mode |-> ModeSeen, overtaken |-> FALSE,
                 sessions |-> SessionsSeen]
  BY DEF ReadStatus
<1>4. ModeSeen = DueAt(mode', t)
  BY <1>1, <1>2, ReadingFinds, NotReplaced
<1>5. Shaped' /\ FirstReading' /\ SecondReading' /\ FoundInForce'
  BY <1>2, <1>3, <1>4 DEF Shaped, FirstReading, SecondReading, FoundInForce, InCall, Complete
<1>6. QED BY <1>1, <1>5 DEF ReaderInv

\* First call of an accepted POST.
LEMMA Posted ==
  ASSUME ReaderInv, NEW t \in Lagged, Post(t)
  PROVE  ReaderInv'
<1>1. FrontendInv' /\ TimelineConsistent' /\ TypeOK /\ TypeOK'
  BY LabKept DEF ReaderNext
<1>2. t \in Times
  BY DEF Lagged
<1>3. reader' = [doing |-> "post", since |-> t, mode |-> ModeSeen, overtaken |-> FALSE]
  BY DEF Post
<1>4. ModeSeen = DueAt(mode', t)
  BY <1>1, <1>2, PostFinds DEF Post
<1>5. Shaped' /\ FirstReading' /\ SecondReading' /\ FoundInForce'
  BY <1>2, <1>3, <1>4 DEF Shaped, FirstReading, SecondReading, FoundInForce, InCall, Complete
<1>6. QED BY <1>1, <1>5 DEF ReaderInv

\* Second call of either.
LEMMA ScenarioRead ==
  ASSUME ReaderInv, NEW t \in Lagged, ReadScenario(t)
  PROVE  ReaderInv'
<1>1. FrontendInv' /\ TimelineConsistent' /\ TypeOK /\ TypeOK'
  BY LabKept DEF ReaderNext
<1>2. /\ t \in Times /\ t <= now /\ now' = now /\ mode' = ModeAt(t)
      /\ reader.since \in Times /\ reader.since <= t
      /\ InCall /\ TimelineConsistent /\ Shaped /\ FirstReading
  BY <1>1 DEF Lagged, ReadScenario, ScenarioAt, ReaderInv, Shaped, Times, TypeOK
<1>3. ModeSeen = DueAt(mode, t) /\ ~ModeReplaced
  BY <1>1, <1>2, ReadingFinds
<1>4. /\ reader'.doing = IF reader.doing = "diagnosis" THEN "diagnosed" ELSE "posted"
      /\ reader'.since = reader.since /\ reader'.mode = reader.mode
      /\ reader'.overtaken = reader.overtaken /\ reader'.found = ModeSeen
  BY DEF ReadScenario, Answered
<1>5. ~reader.overtaken =>
        /\ reader.mode.stepIndex <= ModeSeen.stepIndex
        /\ reader.mode.stepIndex = ModeSeen.stepIndex \/ reader.mode.stepIndex = 0
             => reader.mode.scenario = ModeSeen.scenario
  BY <1>1, <1>2, <1>3, LaterFindsLater DEF FirstReading
<1>6. Shaped' /\ FirstReading' /\ SecondReading'
  BY <1>2, <1>4, <1>5 DEF Shaped, FirstReading, SecondReading, InCall, Complete
<1>7. ModeSeen.scenario \in InForce'
  <2> DEFINE tl == mode'.timeline
             k  == DueStep(tl, t)
  <2>1. ModeSeen = DueAt(mode', t)
    BY <1>1, <1>3, NotReplaced
  <2>2. CASE tl = NoTimeline
    BY <2>1, <2>2 DEF DueAt, InForce
  <2>3. CASE tl # NoTimeline
    <3>1. tl \in Timeline(Times) /\ now \in Times
      BY <1>1, <1>2 DEF TypeOK, ModeType
    <3>2. tl.startedAt <= now
      <4>1. tl.startedAt + tl.steps[tl.stepIndex].at <= now
        BY <1>1, <1>2, <2>3 DEF TimelineConsistent
      <4>2. /\ tl.startedAt \in Nat /\ tl.stepIndex \in DOMAIN tl.steps
            /\ tl.steps \in Seq(TimelineStep)
        BY <2>3, <3>1, Running DEF Timeline
      <4>3. tl.steps[tl.stepIndex] \in TimelineStep
        BY <4>2, ElementOfSeq, LenProperties
      <4>4. tl.steps[tl.stepIndex].at \in Nat
        BY <4>3 DEF TimelineStep
      <4>5. QED BY <3>1, <4>1, <4>2, <4>4 DEF Times
    <3>3. /\ k \in DOMAIN tl.steps /\ Begins(tl, k) <= now
          /\ k < Len(tl.steps) => reader.since < Begins(tl, k + 1)
      BY <1>2, <2>3, <3>1, <3>2, DueIsInForce
    <3>4. ModeSeen.scenario = ScenarioOf(tl.steps[k])
      BY <2>1, <2>3 DEF DueAt
    <3> HIDE DEF k
    <3>5. InForce' = {ScenarioOf(tl.steps[j]) : j \in {n \in DOMAIN tl.steps :
                        /\ Begins(tl, n) <= now
                        /\ n < Len(tl.steps) => reader.since < Begins(tl, n + 1)}}
      BY <1>2, <1>4, <2>3 DEF InForce, InForceSince
    <3>6. QED BY <3>3, <3>4, <3>5
  <2>4. QED BY <2>2, <2>3
<1>8. FoundInForce'
  BY <1>4, <1>7 DEF FoundInForce
<1>9. QED BY <1>1, <1>6, <1>8 DEF ReaderInv

\* A call by anyone else.
LEMMA OtherCall ==
  ASSUME ReaderInv, Other
  PROVE  ReaderInv'
<1>1. FrontendInv' /\ TimelineConsistent' /\ TypeOK /\ TypeOK'
  BY LabKept DEF ReaderNext
<1>2. Shaped /\ FirstReading /\ SecondReading
  BY DEF ReaderInv
<1>3. CASE ~InCall
  <2>1. reader' = NoReader
    BY <1>3 DEF Other
  <2>2. QED BY <1>1, <2>1 DEF ReaderInv, NoReader, Shaped, FirstReading, SecondReading,
                              FoundInForce, InCall, Complete
<1>4. CASE InCall
  <2> DEFINE over == reader.overtaken \/ ModeReplaced
  <2>1. reader' = [reader EXCEPT !.overtaken = over]
    BY <1>4 DEF Other
  <2>2. over \in BOOLEAN
    BY <1>2, <1>4 DEF Shaped, ModeReplaced
  <2>3. /\ reader'.overtaken = over
        /\ InCall' => DueAt(mode', reader.since) = DueAt(mode, reader.since) \/ over
    <3>1. reader'.overtaken = over
      BY <1>2, <1>4, <2>1 DEF Shaped, InCall
    <3>2. ~over => DueAt(mode', reader.since) = DueAt(mode, reader.since)
      BY <1>1, NotReplaced
    <3>3. QED BY <3>1, <3>2
  <2> HIDE DEF over
  <2>4. CASE reader.doing = "diagnosis"
    <3>1. reader' = [doing |-> "diagnosis", since |-> reader.since, mode |-> reader.mode,
                     overtaken |-> over, sessions |-> reader.sessions]
      BY <1>2, <2>1, <2>4 DEF Shaped
    <3>2. Shaped' /\ SecondReading' /\ FoundInForce'
      BY <1>2, <1>4, <2>2, <3>1 DEF Shaped, SecondReading, FoundInForce, InCall, Complete
    <3>3. ~over => ~reader.overtaken
      BY <1>2, <1>4 DEF over, Shaped
    <3>4. FirstReading'
      BY <1>2, <1>4, <2>3, <3>1, <3>3 DEF FirstReading, InCall
    <3>5. QED BY <1>1, <3>2, <3>4 DEF ReaderInv
  <2>5. CASE reader.doing = "post"
    <3>1. reader' = [doing |-> "post", since |-> reader.since, mode |-> reader.mode,
                     overtaken |-> over]
      BY <1>2, <2>1, <2>5 DEF Shaped
    <3>2. Shaped' /\ SecondReading' /\ FoundInForce'
      BY <1>2, <1>4, <2>2, <3>1 DEF Shaped, SecondReading, FoundInForce, InCall, Complete
    <3>3. ~over => ~reader.overtaken
      BY <1>2, <1>4 DEF over, Shaped
    <3>4. FirstReading'
      BY <1>2, <1>4, <2>3, <3>1, <3>3 DEF FirstReading, InCall
    <3>5. QED BY <1>1, <3>2, <3>4 DEF ReaderInv
  <2>6. QED BY <1>4, <2>4, <2>5 DEF InCall
<1>5. QED BY <1>3, <1>4

\* Every step preserves the invariant.
LEMMA ReaderStep ==
  ASSUME ReaderInv, [ReaderNext]_allVars
  PROVE  ReaderInv'
<1>1. CASE Done
  <2>1. reader' = NoReader
    BY <1>1 DEF Done
  <2>2. QED BY <2>1, LabKept DEF ReaderInv, NoReader, Shaped, FirstReading, SecondReading,
                                 FoundInForce, InCall, Complete
<1>2. CASE UNCHANGED allVars
  <2>1. reader' = reader /\ mode' = mode /\ now' = now
    BY <1>2 DEF allVars, vars
  <2>2. Shaped' /\ FirstReading' /\ SecondReading'
    BY <2>1 DEF ReaderInv, Shaped, FirstReading, SecondReading, InCall, Complete
  <2>3. InForce' = InForce
    BY <2>1 DEF InForce, InForceSince
  <2>4. FoundInForce'
    BY <2>1, <2>3 DEF ReaderInv, FoundInForce, Complete
  <2>5. QED BY <1>2, <2>2, <2>4, LabKept DEF ReaderInv
<1>3. QED BY <1>1, <1>2, StatusRead, Posted, ScenarioRead, OtherCall DEF ReaderNext

\* The invariant holds.
THEOREM ReaderInvariant == ReaderSpec => []ReaderInv
<1>1. ReaderInit => ReaderInv
  <2> SUFFICES ASSUME Init, reader = NoReader PROVE ReaderInv
    BY DEF ReaderInit
  <2>1. FrontendInv
    BY FrontendInit
  <2>2. TimelineConsistent
    BY DEF Init, TimelineConsistent, Mode
  <2>3. QED BY <2>1, <2>2 DEF ReaderInv, NoReader, Shaped, FirstReading, SecondReading,
                              FoundInForce, InCall, Complete
<1>2. ReaderInv /\ [ReaderNext]_allVars => ReaderInv'
  BY ReaderStep
<1>3. QED BY <1>1, <1>2, PTL DEF ReaderSpec

\* OneRequestNeverRewinds: what one request reads second is what it read first or a
\* later step, whoever else moved the shared timeline back between its two calls
\* (status, handleAPIScenario).
THEOREM OneRequestNeverRewindsHolds == ReaderSpec => []OneRequestNeverRewinds
<1>1. ReaderInv => OneRequestNeverRewinds
  BY DEF ReaderInv, SecondReading, OneRequestNeverRewinds
<1>2. QED BY <1>1, ReaderInvariant, PTL

\* AnswerInForce: whoever moves or replaces the timeline between the two calls of a
\* request, the answer shows a scenario that was in force at some moment from its
\* first call on, and blames only sessions it applies to (playbackDiagnostics,
\* handleAPIScenario).
THEOREM AnswerInForceHolds == ReaderSpec => []AnswerInForce
<1>1. ReaderInv => AnswerInForce
  BY DEF ReaderInv, FoundInForce, AnswerInForce, DiagnosedScenario
<1>2. QED BY <1>1, ReaderInvariant, PTL
=============================================================================

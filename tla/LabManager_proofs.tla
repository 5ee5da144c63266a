------------------------- MODULE LabManager_proofs -------------------------
(***************************************************************************)
(* Theorems about LabManager for every catalog, tuner count, clock bound   *)
(* and set of requests.                                                    *)
(***************************************************************************)
EXTENDS LabManager, FiniteSetTheorems, SequenceTheorems, TLAPS

----------------------------------------------------------------------------
(* Data lemmas.                                                            *)

\* A nonempty set of numbers has a least one.
LEMMA LeastNatural ==
  ASSUME NEW S \in SUBSET Nat, S # {}
  PROVE  \E n \in S : \A m \in S : n <= m
<1> DEFINE R == {ss \in Nat \X Nat : ss[1] < ss[2]}
<1>1. IsWellFoundedOn(R, Nat)
  BY NatLessThanWellFounded, Zenon DEF OpToRel
<1> HIDE DEF R
<1>2. PICK n \in S : \A m \in S : ~ (<<m, n>> \in R)
  BY <1>1, WFMin
<1>3. \A m \in S : ~ (m < n)
  BY <1>2 DEF R
<1> QED
  BY <1>3

\* First picks an element of every nonempty set of tuner ids.
LEMMA FirstIsMember ==
  ASSUME NEW S \in SUBSET Nat, S # {}
  PROVE  First(S) \in S
<1>1. PICK n \in S : \A m \in S : n <= m
  BY LeastNatural
<1> QED
  BY <1>1 DEF First

\* The longest prefix of a timeline that has begun ends in a step of it that has
\* begun: DueStep is well defined because the first step begins at once.
LEMMA DueStepIsStep ==
  ASSUME NEW tl \in Timeline(Times), tl # NoTimeline, NEW t \in Times
  PROVE  /\ DueStep(tl, t) \in DOMAIN tl.steps
         /\ tl.steps[DueStep(tl, t)].at \in Nat
         /\ tl.steps[DueStep(tl, t)].at <= Elapsed(tl, t)
         /\ \A i \in DOMAIN tl.steps : tl.steps[i].at <= Elapsed(tl, t) => i <= DueStep(tl, t)
<1> DEFINE steps == tl.steps
           due   == {i \in DOMAIN steps : steps[i].at <= Elapsed(tl, t)}
           rev   == {n \in Nat : \E i \in due : n = Len(steps) - i}
<1>1. /\ steps \in Seq(TimelineStep) /\ tl.startedAt \in Times
      /\ 1 \in DOMAIN steps /\ steps[1].at = 0
  BY DEF Timeline
<1>2. Len(steps) \in Nat /\ DOMAIN steps = 1..Len(steps)
  BY <1>1, LenProperties
<1>3. 1 \in due
  BY <1>1 DEF Elapsed, Times
<1>4. Len(steps) - 1 \in rev
  BY <1>2, <1>3
<1>5. PICK n \in rev : \A m \in rev : n <= m
  BY <1>4, LeastNatural
<1>6. PICK k \in due : n = Len(steps) - k
  BY <1>5
<1>7. \A j \in due : j <= k
  <2> TAKE j \in due
  <2>1. j \in 1..Len(steps) /\ k \in 1..Len(steps)
    BY <1>2
  <2>2. Len(steps) - j \in Nat
    BY <1>2, <2>1
  <2>3. Len(steps) - j \in rev
    BY <2>2
  <2> QED
    BY <1>2, <1>5, <1>6, <2>1, <2>3
<1>8. DueStep(tl, t) \in due /\ \A i \in due : i <= DueStep(tl, t)
  <2>1. DueStep(tl, t) = CHOOSE i \in due : \A j \in due : j <= i
    BY DEF DueStep
  <2> HIDE DEF due
  <2> QED
    BY <1>6, <1>7, <2>1
<1>9. \A i \in DOMAIN steps : steps[i] \in TimelineStep
  BY <1>1, <1>2, ElementOfSeq
<1> QED
  BY <1>8, <1>9 DEF TimelineStep

\* recordLocked keeps a log of events of at most EventCap entries.
LEMMA RecordAllType ==
  ASSUME NEW log \in Seq(Event), NEW new \in Seq(Event)
  PROVE  RecordAll(log, new) \in Seq(Event) /\ Len(RecordAll(log, new)) <= EventCap
<1> DEFINE all == log \o new
<1>1. all \in Seq(Event) /\ Len(all) \in Nat
  BY ConcatProperties, LenProperties
<1>2. EventCap \in Nat
  BY CountAssumption
<1> HIDE DEF all
<1>3. RecordAll(log, new) =
        IF Len(all) > EventCap THEN SubSeq(all, Len(all) - EventCap + 1, Len(all)) ELSE all
  BY DEF RecordAll, all
<1>4. CASE Len(all) <= EventCap
  BY <1>1, <1>2, <1>3, <1>4
<1>5. CASE Len(all) > EventCap
  <2> DEFINE first == Len(all) - EventCap + 1
  <2>1. \A i \in first .. Len(all) : all[i] \in Event
    BY <1>1, <1>2, <1>5, ElementOfSeq
  <2>2. /\ SubSeq(all, first, Len(all)) \in Seq(Event)
        /\ Len(SubSeq(all, first, Len(all))) =
             IF first <= Len(all) THEN Len(all) - first + 1 ELSE 0
    BY <2>1, <1>1, <1>2, SubSeqProperties
  <2>3. RecordAll(log, new) = SubSeq(all, first, Len(all))
    BY <1>3, <1>5
  <2> QED
    BY <2>2, <2>3, <1>1, <1>2, <1>5
<1> QED
  BY <1>1, <1>2, <1>4, <1>5

LEMMA RecordType ==
  ASSUME NEW log \in Seq(Event), NEW type \in EventTypes,
         NEW id \in SessionIDs \cup {NoSession}
  PROVE  Record(log, type, id) \in Seq(Event) /\ Len(Record(log, type, id)) <= EventCap
<1>1. <<[type |-> type, session |-> id]>> \in Seq(Event)
  BY DEF Event
<1> QED
  BY <1>1, RecordAllType DEF Record

\* The scenario a validated request or timeline step names is a scenario.
LEMMA ScenarioOfStep ==
  ASSUME NEW step \in TimelineStep
  PROVE  ScenarioOf(step) \in Scenario
BY DEF TimelineStep, ScenarioOf, Scenario

\* The frontend computed for a tuner is a frontend, whatever the mode.
LEMMA FrontendType ==
  ASSUME NEW services \in SUBSET Services, NEW started \in Int,
         NEW md \in ModeType, NEW t \in Times
  PROVE  FrontendFor(services, started, md, t) \in Frontend
<1>1. t \in Int /\ md.changedAt \in Int /\ md.scenario \in Scenario
  BY DEF ModeType, Times
<1>2. \A waiting \in FrontendStates, at \in Int : Locking(waiting, at, t) \in Frontend
  BY <1>1, LockTimeAssumption DEF Locking, Frontend, FrontendStates
<1>3. RecoversFromLoss(services, md.timeline, t) => RecoveryStart(md.timeline) \in Int
  <2> SUFFICES ASSUME md.timeline.stepIndex > 1
               PROVE  RecoveryStart(md.timeline) \in Int
    BY DEF RecoversFromLoss
  <2>1. md.timeline \in Timeline(Times) /\ md.timeline # NoTimeline
    BY DEF ModeType, NoTimeline
  <2>2. /\ md.timeline.startedAt \in Int
        /\ md.timeline.steps[md.timeline.stepIndex] \in TimelineStep
    BY <2>1, ElementOfSeq, LenProperties DEF Timeline, Times
  <2> QED
    BY <2>2 DEF RecoveryStart, TimelineStep
<1>4. md.scenario.name \in ImposingNames =>
        [state |-> ImposedState(md.scenario.name), since |-> t] \in Frontend
  BY <1>1 DEF ImposingNames, ImposedState, Frontend, FrontendStates
<1>5. IdleFrontend \in Frontend
  BY DEF IdleFrontend, Frontend, FrontendStates, NoTime
<1> QED
  BY <1>1, <1>2, <1>3, <1>4, <1>5 DEF FrontendFor, FrontendStates

\* A tuner without sessions shows the idle frontend.
LEMMA IdleFrontendWithoutServices ==
  ASSUME NEW started, NEW md, NEW t
  PROVE  FrontendFor({}, started, md, t) = IdleFrontend
BY DEF FrontendFor

----------------------------------------------------------------------------
(* Type correctness.                                                       *)

\* Recomputing a frontend changes nothing else of a tuner.
LEMMA RecomputedType ==
  ASSUME NEW tuner \in Tuner, NEW sess,
         \A id \in DOMAIN sess : sess[id].service \in Services,
         NEW md \in ModeType, NEW t \in Times
  PROVE  /\ Recomputed(tuner, sess, md, t) \in Tuner
         /\ \A fe \in Frontend : [tuner EXCEPT !.frontend = fe] \in Tuner
<1> DEFINE services == {sess[id].service : id \in tuner.sessions \cap DOMAIN sess}
<1>1. services \in SUBSET Services
  OBVIOUS
<1>2. tuner.tuneStartedAt \in Int
  BY CountAssumption DEF Tuner, Times, NoTime
<1>3. FrontendFor(services, tuner.tuneStartedAt, md, t) \in Frontend
  BY <1>1, <1>2, FrontendType
<1> HIDE DEF services
<1>4. \A fe \in Frontend : [tuner EXCEPT !.frontend = fe] \in Tuner
  BY DEF Tuner
<1> QED
  BY <1>3, <1>4 DEF Recomputed, services

\* scenarioAtLocked leaves a mode, tuners and a log of the right types.
LEMMA ObservationType ==
  ASSUME TypeOK, NEW t \in Times
  PROVE  /\ ModeAt(t) \in ModeType
         /\ TunersAt(t) \in [TunerIDs -> Tuner]
         /\ EventsAt(t) \in Seq(Event) /\ Len(EventsAt(t)) <= EventCap
         /\ \A md \in ModeType : RecomputedAll(md, t) \in [TunerIDs -> Tuner]
<1> USE DEF TypeOK
<1>1. ModeAt(t) \in ModeType
  <2>1. CASE ~StepMoves(t)
    BY <2>1 DEF ModeAt
  <2>2. CASE StepMoves(t)
    <3> DEFINE tl == mode.timeline
               k  == DueStep(tl, t)
    <3>1. tl \in Timeline(Times) /\ tl # NoTimeline
      BY <2>2 DEF StepMoves, NoTimeline, ModeType
    <3>2. k \in DOMAIN tl.steps
      BY <3>1, DueStepIsStep
    <3>3. /\ tl.steps \in Seq(TimelineStep)
          /\ tl \in [startedAt : Times, stepIndex : Nat, steps : Seq(TimelineStep)]
          /\ tl.steps[1].at = 0
      BY <3>1 DEF Timeline
    <3>4. k \in Nat /\ tl.steps[k] \in TimelineStep
      BY <3>2, <3>3, ElementOfSeq, LenProperties
    <3>5. ModeAt(t) = Mode(ScenarioOf(tl.steps[k]), t, [tl EXCEPT !.stepIndex = k])
      BY <2>2 DEF ModeAt
    <3> HIDE DEF k, tl
    <3>6. [tl EXCEPT !.stepIndex = k] \in Timeline(Times)
      BY <3>2, <3>3, <3>4 DEF Timeline
    <3>7. ScenarioOf(tl.steps[k]) \in Scenario
      BY <3>4, ScenarioOfStep
    <3> QED
      BY <3>5, <3>6, <3>7 DEF Mode, ModeType
  <2> QED
    BY <2>1, <2>2
<1>2. \A md \in ModeType : RecomputedAll(md, t) \in [TunerIDs -> Tuner]
  <2> TAKE md \in ModeType
  <2>1. \A id \in DOMAIN sessions : sessions[id].service \in Services
    BY DEF SessionRecord
  <2>2. \A i \in TunerIDs : Recomputed(tuners[i], sessions, md, t) \in Tuner
    BY <2>1, RecomputedType
  <2> QED
    BY <2>2 DEF RecomputedAll
<1>3. TunersAt(t) \in [TunerIDs -> Tuner]
  BY <1>1, <1>2 DEF TunersAt
<1>4. EventsAt(t) \in Seq(Event) /\ Len(EventsAt(t)) <= EventCap
  BY RecordType DEF EventsAt, EventTypes
<1> QED
  BY <1>1, <1>2, <1>3, <1>4

\* A PID filter stays a filter under requestedPIDs and UpdatePIDs.
LEMMA FilterType ==
  /\ \A raw \in RawValue, defaults \in SUBSET PIDs :
       RequestedPIDs(raw, defaults) \in Filter
  /\ \A f \in Filter, q \in PIDQuery : UpdatedFilter(f, q) \in Filter
<1>1. \A raw \in RawValue : ParsePIDList(raw) \in Filter
  BY DEF RawValue, ParsePIDList, Filter
<1>2. \A f \in Filter, raw \in RawValue :
        /\ Replaced(f, raw) \in Filter
        /\ Added(f, raw) \in Filter
        /\ Deleted(f, raw) \in Filter
  BY <1>1 DEF Replaced, Added, Deleted, Filter, RawValue
<1>3. \A f \in Filter, q \in PIDQuery : UpdatedFilter(f, q) \in Filter
  BY <1>2 DEF UpdatedFilter, PIDQuery
<1>4. \A raw \in RawValue, defaults \in SUBSET PIDs :
        RequestedPIDs(raw, defaults) \in Filter
  BY <1>1 DEF RequestedPIDs, Filter
<1> QED
  BY <1>3, <1>4

\* A request that passes validation is a scenario of the catalog, a timeline that
\* passes is a timeline: nothing the code stores is unchecked input.
LEMMA ValidScenario ==
  ASSUME NEW r \in ScenarioRequests, OptionsError(r) = "ok"
  PROVE  ScenarioOf(r) \in Scenario
<1>1. r \in RawScenario
  BY RequestAssumption
<1>2. /\ r.name \in ScenarioNames
      /\ r.service \in Services \cup {NoTarget}
      /\ r.mux \in Muxes \cup {NoTarget}
  BY DEF OptionsError, TargetError
<1> QED
  BY <1>1, <1>2 DEF RawScenario, ScenarioOf, Scenario

LEMMA ValidTimeline ==
  ASSUME NEW steps \in TimelineRequests, TimelineError(steps) = "ok"
  PROVE  /\ steps \in Seq(TimelineStep) /\ 1 \in DOMAIN steps /\ steps[1].at = 0
         /\ \A i \in DOMAIN steps : steps[i].name # "tuner_wedged"
         /\ \A i \in DOMAIN steps : steps[i].at <= 0 => i = 1
<1>1. steps \in Seq(RawStep)
  BY RequestAssumption
<1> DEFINE bad == {i \in DOMAIN steps : StepError(steps, i) # "ok"}
<1>2. /\ steps # <<>> /\ steps[1].at = 0
      /\ bad # {} => StepError(steps, CHOOSE i \in bad : \A j \in bad : i <= j) = "ok"
  BY DEF TimelineError
<1>3. DOMAIN steps = 1..Len(steps) /\ Len(steps) \in Nat
  BY <1>1, LenProperties
<1>4. bad = {}
  <2> SUFFICES ASSUME bad # {} PROVE FALSE
    OBVIOUS
  <2>1. bad \in SUBSET Nat
    BY <1>3
  <2>2. PICK n \in bad : \A m \in bad : n <= m
    BY <2>1, LeastNatural
  <2>3. (CHOOSE i \in bad : \A j \in bad : i <= j) \in bad
    BY <2>2
  <2> QED
    BY <2>3, <1>2
<1>5. \A i \in DOMAIN steps : steps[i] \in RawStep /\ StepError(steps, i) = "ok"
  BY <1>1, <1>3, <1>4, ElementOfSeq
<1>6. \A i \in DOMAIN steps : steps[i] \in TimelineStep /\ steps[i].name # "tuner_wedged"
  BY <1>5 DEF StepError, TargetError, RawStep, TimelineStep
<1>7. 1 \in DOMAIN steps
  BY <1>2, <1>3, <1>1, EmptySeq
<1>8. ASSUME NEW i \in DOMAIN steps, i # 1 PROVE steps[i].at > 0
  <2>1. i > 1 /\ i \in Nat /\ i - 1 \in DOMAIN steps
    BY <1>3, <1>8
  <2>2. steps[i].at > steps[i - 1].at
    <3>1. ~(steps[i].at <= steps[i - 1].at)
      BY <1>5, <2>1 DEF StepError
    <3> QED
      BY <1>5, <2>1, <3>1 DEF RawStep
  <2>3. steps[i].at \in Int /\ steps[i - 1].at \in Nat
    BY <1>5, <1>6, <2>1 DEF RawStep, TimelineStep
  <2> QED
    BY <2>2, <2>3
<1>9. \A i \in DOMAIN steps : steps[i].at \in Int
  BY <1>5 DEF RawStep
<1> QED
  BY <1>1, <1>2, <1>3, <1>6, <1>7, <1>8, <1>9, SeqDef

\* Replacing the record of one session keeps the session map well typed.
LEMMA SessionUpdate ==
  ASSUME sessions \in [Live -> SessionRecord], NEW id \in Live, NEW r \in SessionRecord,
         sessions' = [sessions EXCEPT ![id] = r]
  PROVE  Live' = Live /\ sessions' \in [Live' -> SessionRecord]
BY DEF Live

\* Play and Pause replace the state and the time of a session and nothing else.
LEMMA MovedSession ==
  ASSUME TypeOK, NEW id, Play(id) \/ Pause(id)
  PROVE  /\ id \in Live /\ UNCHANGED <<now, tuners, mode>> /\ answer' = "ok"
         /\ \E r \in SessionRecord :
              /\ sessions' = [sessions EXCEPT ![id] = r]
              /\ \/ Play(id) /\ r.state = "playing"
                 \/ Pause(id) /\ r.state = "paused"
              /\ r.tunerID = sessions[id].tunerID /\ r.service = sessions[id].service
              /\ r.filter = sessions[id].filter /\ r.packets = sessions[id].packets
<1>1. now \in Times /\ \A x \in Live : sessions[x] \in SessionRecord
  BY DEF TypeOK
<1>2. ASSUME NEW state \in {"playing", "paused"}, id \in Live,
             sessions' = [sessions EXCEPT
                            ![id] = [sessions[id] EXCEPT !.state = state, !.updatedAt = now]]
      PROVE  \E r \in SessionRecord :
               /\ sessions' = [sessions EXCEPT ![id] = r]
               /\ r.state = state
               /\ r.tunerID = sessions[id].tunerID /\ r.service = sessions[id].service
               /\ r.filter = sessions[id].filter /\ r.packets = sessions[id].packets
  <2> DEFINE s == sessions[id]
             r == [s EXCEPT !.state = state, !.updatedAt = now]
  <2>1. s \in SessionRecord /\ r = [s EXCEPT !.state = state, !.updatedAt = now]
    BY <1>1, <1>2
  <2>2. /\ r \in SessionRecord /\ r.state = state
        /\ r.tunerID = s.tunerID /\ r.service = s.service
        /\ r.filter = s.filter /\ r.packets = s.packets
    <3> HIDE DEF r, s
    <3> QED
      BY <1>1, <2>1 DEF SessionRecord
  <2>3. sessions' = [sessions EXCEPT ![id] = r]
    BY <1>2
  <2> HIDE DEF r
  <2> QED
    BY <2>2, <2>3
<1>3. CASE Play(id)
  BY <1>2, <1>3 DEF Play
<1>4. CASE Pause(id)
  BY <1>2, <1>4 DEF Pause
<1> QED
  BY <1>3, <1>4

\* A tuner that loses a set of sessions is still a tuner.
LEMMA ReleasedType ==
  ASSUME NEW tuner \in Tuner, NEW gone, NEW rest,
         \A id \in DOMAIN rest : rest[id].service \in Services,
         mode \in ModeType, now \in Times
  PROVE  Released(tuner, gone, rest) \in Tuner
<1>1. [tuner EXCEPT !.sessions = @ \ gone] \in Tuner
  BY DEF Tuner
<1>2. Recomputed([tuner EXCEPT !.sessions = @ \ gone], rest, mode, now) \in Tuner
  BY <1>1, RecomputedType
<1>3. IdleTuner \in Tuner
  BY DEF IdleTuner, Tuner, IdleFrontend, Frontend, FrontendStates, NoTime
<1> QED
  BY <1>2, <1>3 DEF Released

\* Removing sessions keeps sessions and tuners well typed.
LEMMA RemoveType ==
  ASSUME TypeOK, NEW gone, Remove(gone)
  PROVE  /\ Live' = Live \ gone /\ Live' \subseteq SessionIDs
         /\ sessions' \in [Live' -> SessionRecord]
         /\ tuners' \in [TunerIDs -> Tuner]
<1>1. /\ Live' = Live \ gone
      /\ sessions' \in [Live' -> SessionRecord]
  BY DEF TypeOK, Remove, Live
<1>2. \A id \in DOMAIN sessions' : sessions'[id].service \in Services
  BY <1>1 DEF SessionRecord, Live
<1>3. \A i \in TunerIDs : Released(tuners[i], gone, sessions') \in Tuner
  BY <1>2, ReleasedType DEF TypeOK
<1> QED
  BY <1>1, <1>3 DEF TypeOK, Remove

\* SETUP finds a tuner whenever the admission check passed.
LEMMA AllocatedTunerType ==
  ASSUME TypeOK, NEW mux, CanAllocate(mux)
  PROVE  /\ AllocatedTuner(mux) \in TunerIDs
         /\ TunedTo(mux) # {} => AllocatedTuner(mux) \in TunedTo(mux)
         /\ TunedTo(mux) = {} => AllocatedTuner(mux) \in IdleTuners
<1>1. TunerIDs \subseteq Nat
  BY CountAssumption DEF TunerIDs
<1>2. TunedTo(mux) \in SUBSET Nat /\ IdleTuners \in SUBSET Nat
  BY <1>1 DEF TunedTo, IdleTuners
<1>3. /\ TunedTo(mux) # {} => AllocatedTuner(mux) \in TunedTo(mux)
      /\ TunedTo(mux) = {} => AllocatedTuner(mux) \in IdleTuners
  BY <1>2, FirstIsMember DEF AllocatedTuner, CanAllocate
<1> QED
  BY <1>3 DEF TunedTo, IdleTuners

\* SETUP stores a well-typed session and a well-typed tuner.
LEMMA SetupType ==
  ASSUME TypeOK, NEW id \in SessionIDs, NEW svc \in Services, NEW raw \in SetupQueries,
         SetupAccepted(id, svc, raw)
  PROVE  TypeOK'
<1> DEFINE mux == MuxOf[svc]
           i   == AllocatedTuner(mux)
           old == TunersAt(now)
<1>1. now \in Times /\ mux \in Muxes
  BY CatalogAssumption DEF TypeOK
<1>2. CanAllocate(mux)
  BY DEF SetupAccepted, SetupError
<1>3. i \in TunerIDs
  BY <1>2, AllocatedTunerType
<1>4. ModeAt(now) \in ModeType /\ old \in [TunerIDs -> Tuner]
  BY <1>1, ObservationType
<1>5. NewSession(svc, raw) \in SessionRecord
  <2>1. RequestedPIDs(raw, DefaultPIDs[svc]) \in Filter
    BY RequestAssumption, FilterType
  <2>2. 0 \in 0..MaxPackets
    BY CountAssumption
  <2> QED
    BY <1>1, <1>3, <2>1, <2>2 DEF NewSession, SessionRecord
<1>6. /\ Live' = Live \cup {id} /\ Live' \subseteq SessionIDs
      /\ sessions' \in [Live' -> SessionRecord]
  BY <1>5 DEF SetupAccepted, TypeOK, Live
<1>7. Recomputed(JoinedTuner(old[i], mux, id), sessions', mode', now) \in Tuner
  <2>1. old[i] \in Tuner
    BY <1>3, <1>4
  <2>2. JoinedTuner(old[i], mux, id) \in Tuner
    BY <2>1, <1>1 DEF JoinedTuner, Tuner
  <2>3. \A x \in DOMAIN sessions' : sessions'[x].service \in Services
    BY <1>6 DEF SessionRecord, Live
  <2>4. mode' \in ModeType
    BY <1>4 DEF SetupAccepted
  <2> QED
    BY <2>2, <2>3, <2>4, <1>1, RecomputedType
<1>8. tuners' = [old EXCEPT ![i] =
                   Recomputed(JoinedTuner(old[i], mux, id), sessions', mode', now)]
  BY <1>3, <1>4 DEF SetupAccepted
<1> HIDE DEF i, old, mux
<1>9. tuners' \in [TunerIDs -> Tuner]
  BY <1>4, <1>7, <1>8
<1>10. events' \in Seq(Event) /\ Len(events') <= EventCap
  BY <1>1, ObservationType, RecordType DEF SetupAccepted, EventTypes
<1> QED
  BY <1>1, <1>4, <1>6, <1>9, <1>10 DEF SetupAccepted, TypeOK

\* The events of an expiry are events, one for each expired session.
LEMMA ExpireType ==
  ASSUME TypeOK, NEW t \in Lagged, ExpireSessions(t)
  PROVE  TypeOK'
<1>1. /\ Live' \subseteq SessionIDs
      /\ sessions' \in [Live' -> SessionRecord]
      /\ tuners' \in [TunerIDs -> Tuner]
  BY RemoveType DEF ExpireSessions
<1>2. Idle(t) \subseteq SessionIDs
  BY DEF Idle, TypeOK
<1>3. Cardinality(Idle(t)) \in Nat
  BY <1>2, RequestAssumption, FS_Subset, FS_CardinalityType
<1>4. PICK order \in [1..Cardinality(Idle(t)) -> Idle(t)] :
        events' = RecordAll(events, [i \in DOMAIN order |->
                    [type |-> "session_timeout", session |-> order[i]]])
  BY DEF ExpireSessions
<1> DEFINE new == [i \in DOMAIN order |->
                     [type |-> "session_timeout", session |-> order[i]]]
<1>5. \A i \in DOMAIN order :
        [type |-> "session_timeout", session |-> order[i]] \in Event
  BY <1>2 DEF Event, EventTypes
<1>6. new \in Seq(Event)
  BY <1>3, <1>5, SeqDef
<1> HIDE DEF new
<1>7. events' \in Seq(Event) /\ Len(events') <= EventCap
  BY <1>4, <1>6, RecordAllType DEF TypeOK, new
<1> QED
  BY <1>1, <1>7 DEF ExpireSessions, TypeOK

\* One packet sent logs at most two events.
LEMMA RecordRTPSentType ==
  ASSUME TypeOK, NEW id \in SessionIDs, RecordRTPSent(id)
  PROVE  TypeOK'
<1>1. sessions' = [sessions EXCEPT ![id] = [sessions[id] EXCEPT !.packets = @ + 1]]
  BY DEF RecordRTPSent
<1>2. id \in Live /\ [sessions[id] EXCEPT !.packets = @ + 1] \in SessionRecord
  <2>1. id \in Live /\ sessions[id] \in SessionRecord /\ sessions[id].packets < MaxPackets
    BY DEF RecordRTPSent, TypeOK
  <2>2. sessions[id].packets + 1 \in 0..MaxPackets
    BY <2>1, CountAssumption DEF SessionRecord
  <2>3. [sessions[id] EXCEPT !.packets = sessions[id].packets + 1] \in SessionRecord
    BY <2>1, <2>2 DEF SessionRecord
  <2> QED
    BY <2>1, <2>3
<1>3. Live' = Live /\ sessions' \in [Live' -> SessionRecord]
  BY <1>1, <1>2, SessionUpdate DEF TypeOK
<1> DEFINE first == IF sessions[id].packets = 0
                      THEN <<[type |-> "rtp_first_packet_sent", session |-> id]>> ELSE <<>>
           progress == IF (sessions[id].packets + 1) % ProgressEvery = 0
                         THEN <<[type |-> "rtp_packet_progress", session |-> id]>> ELSE <<>>
<1>4. first \in Seq(Event) /\ progress \in Seq(Event)
  <2>1. \A type \in EventTypes : <<[type |-> type, session |-> id]>> \in Seq(Event)
    BY DEF Event
  <2>2. "rtp_first_packet_sent" \in EventTypes /\ "rtp_packet_progress" \in EventTypes
    BY DEF EventTypes
  <2>3. <<>> \in Seq(Event)
    OBVIOUS
  <2> QED
    BY <2>1, <2>2, <2>3
<1>5. events' = RecordAll(events, first \o progress)
  BY DEF RecordRTPSent
<1> HIDE DEF first, progress
<1>6. first \o progress \in Seq(Event)
  BY <1>4, ConcatProperties
<1>7. events' \in Seq(Event) /\ Len(events') <= EventCap
  BY <1>5, <1>6, RecordAllType DEF TypeOK
<1> QED
  BY <1>3, <1>7 DEF RecordRTPSent, TypeOK

LEMMA TypeInit == Init => TypeOK
<1> SUFFICES ASSUME Init PROVE TypeOK
  OBVIOUS
<1>1. now \in Times
  BY CountAssumption DEF Init, Times
<1>2. Live \subseteq SessionIDs /\ sessions \in [Live -> SessionRecord]
  BY DEF Init, Live
<1>3. IdleTuner \in Tuner
  BY DEF IdleTuner, Tuner, IdleFrontend, Frontend, FrontendStates, NoTime
<1>4. mode \in ModeType
  BY <1>1 DEF Init, Mode, ModeType, NormalScenario, Scenario, ScenarioNames, Timeline, Times
<1>5. events \in Seq(Event) /\ Len(events) <= EventCap
  BY CountAssumption DEF Init
<1> QED
  BY <1>1, <1>2, <1>3, <1>4, <1>5 DEF Init, TypeOK

LEMMA TypeStep == TypeOK /\ [Next]_vars => TypeOK'
<1> SUFFICES ASSUME TypeOK, [Next]_vars PROVE TypeOK'
  OBVIOUS
<1>1. now \in Times /\ now \in Int /\ Lagged \subseteq Times
  BY DEF TypeOK, Lagged, Times
\* An action that leaves sessions, tuners and mode alone and appends one event.
<1>2. ASSUME NEW type \in EventTypes, NEW id \in SessionIDs \cup {NoSession}, 
             events' = Record(events, type, id)
      PROVE  events' \in Seq(Event) /\ Len(events') <= EventCap
  BY <1>2, RecordType DEF TypeOK
<1>3. CASE SetupUnmatched
  BY <1>2, <1>3 DEF SetupUnmatched, TypeOK, Live, EventTypes
<1>4. ASSUME NEW svc \in Services, NEW raw \in SetupQueries, SetupRejected(svc, raw)
      PROVE  TypeOK'
  <2>1. \A err : RejectionEvent(err) \in EventTypes
    BY DEF RejectionEvent, EventTypes
  <2>2. /\ EventsAt(now) \in Seq(Event) /\ ModeAt(now) \in ModeType
        /\ TunersAt(now) \in [TunerIDs -> Tuner]
    BY <1>1, ObservationType
  <2>3. events' \in Seq(Event) /\ Len(events') <= EventCap
    BY <1>4, <2>1, <2>2, RecordType DEF SetupRejected
  <2> QED
    BY <1>4, <2>2, <2>3 DEF SetupRejected, TypeOK, Live
<1>5. ASSUME NEW svc \in Services, NEW raw \in SetupQueries, NEW id \in SessionIDs,
             SetupAccepted(id, svc, raw)
      PROVE  TypeOK'
  BY <1>5, SetupType
<1>6. ASSUME NEW id \in SessionIDs, SessionNotFound(id)
      PROVE  TypeOK'
  BY <1>6 DEF SessionNotFound, TypeOK, Live
<1>7. ASSUME NEW id \in SessionIDs, Play(id)
      PROVE  TypeOK'
  <2>1. PICK r \in SessionRecord : id \in Live /\ sessions' = [sessions EXCEPT ![id] = r]
    BY <1>7, MovedSession
  <2>2. Live' = Live /\ sessions' \in [Live' -> SessionRecord]
    BY <2>1, SessionUpdate DEF TypeOK
  <2> QED
    BY <1>2, <1>7, <2>2 DEF Play, TypeOK, EventTypes
<1>8. ASSUME NEW id \in SessionIDs, Pause(id)
      PROVE  TypeOK'
  <2>1. PICK r \in SessionRecord : id \in Live /\ sessions' = [sessions EXCEPT ![id] = r]
    BY <1>8, MovedSession
  <2>2. Live' = Live /\ sessions' \in [Live' -> SessionRecord]
    BY <2>1, SessionUpdate DEF TypeOK
  <2> QED
    BY <1>2, <1>8, <2>2 DEF Pause, TypeOK, EventTypes
<1>9. ASSUME NEW id \in SessionIDs, NEW q \in PIDQueries, UpdatePIDs(id, q)
      PROVE  TypeOK'
  <2>1. id \in Live /\ sessions[id] \in SessionRecord
    BY <1>9 DEF UpdatePIDs, TypeOK
  <2>2. CASE UpdateFails(sessions[id].filter, q)
    BY <1>9, <2>2 DEF UpdatePIDs, TypeOK, Live
  <2>3. CASE ~UpdateFails(sessions[id].filter, q)
    <3> DEFINE f == UpdatedFilter(sessions[id].filter, q)
    <3>1. f \in Filter
      BY <2>1, RequestAssumption, FilterType DEF SessionRecord
    <3>2. /\ sessions' = [sessions EXCEPT ![id] =
                             [sessions[id] EXCEPT !.filter = f, !.updatedAt = now]]
          /\ events' = Record(events, "pids_updated", id)
      BY <1>9, <2>3 DEF UpdatePIDs
    <3> HIDE DEF f
    <3>3. [sessions[id] EXCEPT !.filter = f, !.updatedAt = now] \in SessionRecord
      BY <2>1, <3>1, <1>1 DEF SessionRecord
    <3>4. Live' = Live /\ sessions' \in [Live' -> SessionRecord]
      BY <2>1, <3>2, <3>3, SessionUpdate DEF TypeOK
    <3> QED
      BY <1>2, <1>9, <3>2, <3>4 DEF UpdatePIDs, TypeOK, EventTypes
  <2> QED
    BY <2>2, <2>3
<1>10. ASSUME NEW id \in SessionIDs, NEW transport \in Transports, SetRTPTransport(id, transport)
       PROVE  TypeOK'
  <2>1. id \in Live /\ [sessions[id] EXCEPT !.transport = transport] \in SessionRecord
    BY <1>10 DEF SetRTPTransport, TypeOK, SessionRecord
  <2>2. Live' = Live /\ sessions' \in [Live' -> SessionRecord]
    BY <1>10, <2>1, SessionUpdate DEF SetRTPTransport, TypeOK
  <2> QED
    BY <1>10, <2>2 DEF SetRTPTransport, TypeOK
<1>11. ASSUME NEW id \in SessionIDs, RecordRTPSent(id)
       PROVE  TypeOK'
  BY <1>11, RecordRTPSentType
<1>12. ASSUME NEW id \in SessionIDs, NEW t \in Lagged, Touch(id, t)
       PROVE  TypeOK'
  <2>1. id \in Live /\ [sessions[id] EXCEPT !.updatedAt = t] \in SessionRecord
    BY <1>1, <1>12 DEF Touch, TypeOK, SessionRecord
  <2>2. Live' = Live /\ sessions' \in [Live' -> SessionRecord]
    BY <1>12, <2>1, SessionUpdate DEF Touch, TypeOK
  <2> QED
    BY <1>12, <2>2 DEF Touch, TypeOK
<1>13. ASSUME NEW id \in SessionIDs, Teardown(id)
       PROVE  TypeOK'
  BY <1>2, <1>13, RemoveType DEF Teardown, TypeOK, EventTypes
<1>14. ASSUME NEW t \in Lagged, ExpireSessions(t)
       PROVE  TypeOK'
  BY <1>14, ExpireType
<1>15. ASSUME NEW t \in Lagged, StatusAt(t)
       PROVE  TypeOK'
  BY <1>1, <1>15, ObservationType DEF StatusAt, TypeOK, Live
<1>16. ASSUME NEW t \in Lagged, ScenarioAt(t)
       PROVE  TypeOK'
  BY <1>1, <1>16, ObservationType DEF ScenarioAt, TypeOK, Live
<1>17. ASSUME NEW t \in Lagged, NEW r \in ScenarioRequests, SetScenario(r, t)
       PROVE  TypeOK'
  <2>1. t \in Times /\ ScenarioOf(r) \in Scenario
    BY <1>1, <1>17, ValidScenario DEF SetScenario
  <2>2. mode' \in ModeType
    BY <1>17, <2>1 DEF SetScenario, Mode, ModeType, Timeline
  <2>3. events' \in Seq(Event) /\ Len(events') <= EventCap
    BY <1>17, <2>1, ObservationType, RecordType DEF SetScenario, EventTypes
  <2>4. tuners' \in [TunerIDs -> Tuner]
    BY <1>17, <2>1, <2>2, ObservationType DEF SetScenario
  <2> QED
    BY <1>17, <2>2, <2>3, <2>4 DEF SetScenario, TypeOK, Live
<1>18. ASSUME NEW t \in Lagged, NEW steps \in TimelineRequests, SetScenarioTimeline(steps, t)
       PROVE  TypeOK'
  <2>1. /\ t \in Times /\ steps \in Seq(TimelineStep)
        /\ 1 \in DOMAIN steps /\ steps[1].at = 0
    BY <1>1, <1>18, ValidTimeline DEF SetScenarioTimeline
  <2>2. ScenarioOf(steps[1]) \in Scenario
    BY <2>1, ElementOfSeq, LenProperties, ScenarioOfStep
  <2>3. [startedAt |-> t, stepIndex |-> 1, steps |-> steps] \in Timeline(Times)
    BY <2>1 DEF Timeline
  <2>4. mode' \in ModeType
    BY <1>18, <2>1, <2>2, <2>3 DEF SetScenarioTimeline, Mode, ModeType
  <2>5. tuners' \in [TunerIDs -> Tuner]
    BY <1>18, <2>1, <2>4, ObservationType DEF SetScenarioTimeline
  <2> QED
    BY <1>2, <1>18, <2>4, <2>5 DEF SetScenarioTimeline, TypeOK, Live, EventTypes
<1>19. ASSUME NEW err, ScenarioRefused(err)
       PROVE  TypeOK'
  BY <1>19 DEF ScenarioRefused, TypeOK, Live
<1>20. CASE Reset
  <2>1. tuners' \in [TunerIDs -> Tuner]
    BY <1>20 DEF Reset, IdleTuner, Tuner, IdleFrontend, Frontend, FrontendStates, NoTime
  <2>2. mode' \in ModeType
    BY <1>20 DEF Reset, TypeOK, Mode, ModeType, NormalScenario, Scenario, ScenarioNames, Timeline
  <2>3. Live' \subseteq SessionIDs /\ sessions' \in [Live' -> SessionRecord]
    BY <1>20 DEF Reset, Live
  <2> QED
    BY <1>2, <1>20, <2>1, <2>2, <2>3 DEF Reset, TypeOK, EventTypes
<1>21. CASE Tick
  BY <1>1, <1>21, CountAssumption DEF Tick, TypeOK, Live, Times
<1>22. CASE UNCHANGED vars
  BY <1>22 DEF vars, TypeOK, Live
<1> QED
  BY <1>3, <1>4, <1>5, <1>6, <1>7, <1>8, <1>9, <1>10, <1>11, <1>12, <1>13, <1>14, <1>15,
     <1>16, <1>17, <1>18, <1>19, <1>20, <1>21, <1>22
  DEF Next, Setup, SessionCall, LabCall

\* Every field of Manager keeps its type, for every catalog, tuner count, clock
\* and set of requests.
THEOREM TypeCorrect == Spec => []TypeOK
<1>1. Init => TypeOK
  BY TypeInit
<1>2. TypeOK /\ [Next]_vars => TypeOK'
  BY TypeStep
<1> QED
  BY <1>1, <1>2, PTL DEF Spec

----------------------------------------------------------------------------
(* Tuner accounting.  TunerAccounting and MuxExclusive need each other and  *)
(* the types: a setup may take an idle tuner only because no tuned tuner    *)
(* is on the mux, and it may treat an idle tuner as blank only because      *)
(* whoever emptied it wiped it.                                             *)

AccountingInv == TypeOK /\ TunerAccounting /\ MuxExclusive

\* The action NoRetuneUnderSession allows.
KeepsTuning ==
  \A i \in TunerIDs :
    tuners[i].sessions \cap tuners'[i].sessions # {} =>
      /\ tuners'[i].mux = tuners[i].mux
      /\ tuners'[i].tuneStartedAt = tuners[i].tuneStartedAt

\* Recomputing frontends leaves the rest of every tuner, and idle tuners whole.
LEMMA RecomputedAllKeeps ==
  ASSUME TypeOK, NEW md, NEW t, NEW i \in TunerIDs
  PROVE  LET new == RecomputedAll(md, t)[i]
         IN  /\ new.state = tuners[i].state /\ new.mux = tuners[i].mux
             /\ new.sessions = tuners[i].sessions
             /\ new.tuneStartedAt = tuners[i].tuneStartedAt
             /\ tuners[i] = IdleTuner => new = IdleTuner
<1> DEFINE new == RecomputedAll(md, t)[i]
           services == {sessions[id].service : id \in tuners[i].sessions \cap DOMAIN sessions}
           fe == FrontendFor(services, tuners[i].tuneStartedAt, md, t)
<1>1. new = [tuners[i] EXCEPT !.frontend = fe] /\ tuners[i] \in Tuner
  BY DEF RecomputedAll, Recomputed, TypeOK
<1>2. tuners[i] = IdleTuner => fe = IdleFrontend
  BY IdleFrontendWithoutServices DEF IdleTuner
<1> HIDE DEF new, fe
<1>3. tuners[i] = IdleTuner => new = IdleTuner
  BY <1>1, <1>2 DEF IdleTuner
<1> QED
  BY <1>1, <1>3 DEF Tuner, new

\* A step that touches neither the session map's keys, tuner ids and services
\* nor anything of a tuner but the frontend of a tuned one.
LEMMA AccountingFrame ==
  ASSUME AccountingInv,
         Live' = Live,
         \A id \in Live : /\ sessions'[id].tunerID = sessions[id].tunerID
                          /\ sessions'[id].service = sessions[id].service,
         \A i \in TunerIDs : /\ tuners'[i].state = tuners[i].state
                             /\ tuners'[i].mux = tuners[i].mux
                             /\ tuners'[i].sessions = tuners[i].sessions
                             /\ tuners'[i].tuneStartedAt = tuners[i].tuneStartedAt
                             /\ tuners[i] = IdleTuner => tuners'[i] = IdleTuner
  PROVE  TunerAccounting' /\ MuxExclusive' /\ KeepsTuning
<1>1. \A id \in Live : sessions[id].tunerID \in TunerIDs
  BY DEF AccountingInv, TypeOK, SessionRecord
<1>2. TunerAccounting'
  BY <1>1 DEF AccountingInv, TunerAccounting
<1>3. MuxExclusive'
  BY DEF AccountingInv, MuxExclusive
<1> QED
  BY <1>2, <1>3 DEF KeepsTuning

\* Teardown and expiry.
LEMMA RemoveAccounting ==
  ASSUME AccountingInv, NEW gone, Remove(gone)
  PROVE  TunerAccounting' /\ MuxExclusive' /\ KeepsTuning
<1>1. /\ Live' = Live \ gone
      /\ \A id \in Live' : sessions'[id] = sessions[id]
  BY DEF Remove, Live
<1>2. \A id \in Live : sessions[id].tunerID \in TunerIDs
  BY DEF AccountingInv, TypeOK, SessionRecord
<1>3. ASSUME NEW i \in TunerIDs
      PROVE  /\ tuners'[i].sessions = tuners[i].sessions \ gone
             /\ tuners'[i].sessions # {} => /\ tuners'[i].mux = tuners[i].mux
                                            /\ tuners'[i].tuneStartedAt = tuners[i].tuneStartedAt
                                            /\ tuners'[i].state = tuners[i].state
             /\ tuners'[i].sessions = {} => tuners'[i] = IdleTuner
  <2> DEFINE rest == [tuners[i] EXCEPT !.sessions = tuners[i].sessions \ gone]
  <2>1. tuners'[i] = Released(tuners[i], gone, sessions') /\ tuners[i] \in Tuner
    BY DEF Remove, AccountingInv, TypeOK
  <2>2. tuners[i].sessions = {} => tuners[i] = IdleTuner
    BY <2>1 DEF AccountingInv, TunerAccounting, Tuner
  <2>3. CASE tuners[i].sessions \cap gone = {}
    BY <2>1, <2>2, <2>3 DEF Released
  <2>4. CASE /\ tuners[i].sessions \cap gone # {}
             /\ tuners[i].sessions \subseteq gone
    BY <2>1, <2>4 DEF Released, IdleTuner
  <2>5. CASE ~(tuners[i].sessions \subseteq gone) /\ tuners[i].sessions \cap gone # {}
    <3>1. \E fe : tuners'[i] = [rest EXCEPT !.frontend = fe]
      BY <2>1, <2>5 DEF Released, Recomputed
    <3>2. PICK fe : tuners'[i] = [rest EXCEPT !.frontend = fe]
      BY <3>1
    <3>3. /\ tuners'[i].sessions = tuners[i].sessions \ gone
          /\ tuners'[i].mux = tuners[i].mux
          /\ tuners'[i].tuneStartedAt = tuners[i].tuneStartedAt
          /\ tuners'[i].state = tuners[i].state
      BY <2>1, <3>2 DEF Tuner
    <3> QED
      BY <2>5, <3>3
  <2> QED
    BY <2>3, <2>4, <2>5
<1>4. \A i \in TunerIDs : tuners'[i].sessions = {id \in Live' : sessions'[id].tunerID = i}
  BY <1>1, <1>3 DEF AccountingInv, TunerAccounting
<1>5. \A i \in TunerIDs :
        /\ tuners'[i].state = "tuned" <=> tuners'[i].sessions # {}
        /\ tuners'[i].state = "idle" => tuners'[i] = IdleTuner
  <2> TAKE i \in TunerIDs
  <2>1. CASE tuners'[i].sessions = {}
    <3>1. tuners'[i] = IdleTuner
      BY <1>3, <2>1
    <3>2. IdleTuner.state = "idle" /\ IdleTuner.sessions = {}
      BY DEF IdleTuner
    <3> QED
      BY <3>1, <3>2
  <2>2. CASE tuners'[i].sessions # {}
    <3>1. tuners[i].sessions # {}
      BY <1>3, <2>2
    <3> QED
      BY <1>3, <2>2, <3>1 DEF AccountingInv, TunerAccounting
  <2> QED
    BY <2>1, <2>2
<1>6. \A id \in Live' : tuners'[sessions'[id].tunerID].mux = MuxOf[sessions'[id].service]
  <2> TAKE id \in Live'
  <2>1. tuners'[sessions[id].tunerID].sessions # {}
    BY <1>1, <1>2, <1>4
  <2> QED
    BY <1>1, <1>2, <1>3, <2>1 DEF AccountingInv, TunerAccounting
<1>7. TunerAccounting'
  BY <1>4, <1>5, <1>6 DEF TunerAccounting
<1>8. MuxExclusive'
  BY <1>3, <1>5 DEF AccountingInv, MuxExclusive
<1>9. KeepsTuning
  BY <1>3 DEF KeepsTuning
<1> QED
  BY <1>7, <1>8, <1>9

\* A status or scenario read, and the read at the start of Setup.
LEMMA TunersAtKeeps ==
  ASSUME TypeOK, NEW t, NEW i \in TunerIDs
  PROVE  LET new == TunersAt(t)[i]
         IN  /\ new.state = tuners[i].state /\ new.mux = tuners[i].mux
             /\ new.sessions = tuners[i].sessions
             /\ new.tuneStartedAt = tuners[i].tuneStartedAt
             /\ tuners[i] = IdleTuner => new = IdleTuner
<1>1. CASE StepMoves(t)
  BY <1>1, RecomputedAllKeeps DEF TunersAt
<1>2. CASE ~StepMoves(t)
  BY <1>2 DEF TunersAt
<1> QED
  BY <1>1, <1>2

LEMMA SetupAccounting ==
  ASSUME AccountingInv, NEW id \in SessionIDs, NEW svc \in Services, NEW raw \in SetupQueries,
         SetupAccepted(id, svc, raw)
  PROVE  TunerAccounting' /\ MuxExclusive' /\ KeepsTuning
<1> DEFINE mux == MuxOf[svc]
           k   == AllocatedTuner(mux)
           old == TunersAt(now)
<1>1. CanAllocate(mux)
  BY DEF SetupAccepted, SetupError
<1>2. /\ k \in TunerIDs
      /\ TunedTo(mux) # {} => k \in TunedTo(mux)
      /\ TunedTo(mux) = {} => k \in IdleTuners
  BY <1>1, AllocatedTunerType DEF AccountingInv
<1>3. old \in [TunerIDs -> Tuner] /\ mux \in Muxes
  BY ObservationType, CatalogAssumption DEF AccountingInv, TypeOK
<1>4. \A i \in TunerIDs :
        /\ old[i].state = tuners[i].state /\ old[i].mux = tuners[i].mux
        /\ old[i].sessions = tuners[i].sessions
        /\ old[i].tuneStartedAt = tuners[i].tuneStartedAt
        /\ tuners[i] = IdleTuner => old[i] = IdleTuner
  BY TunersAtKeeps DEF AccountingInv
<1>5. /\ id \notin Live /\ Live' = Live \cup {id}
      /\ \A x \in Live : sessions'[x] = sessions[x]
      /\ sessions'[id].tunerID = k /\ sessions'[id].service = svc
  BY DEF SetupAccepted, IsFresh, Live, NewSession
<1> DEFINE joined == JoinedTuner(old[k], mux, id)
<1>6. PICK fe : tuners' = [old EXCEPT ![k] = [joined EXCEPT !.frontend = fe]]
  BY <1>2, <1>3 DEF SetupAccepted, Recomputed
<1> HIDE DEF old
<1>7. /\ joined.sessions = tuners[k].sessions \cup {id} /\ joined.state = "tuned"
      /\ joined.mux = mux
      /\ tuners[k].state = "tuned" => joined.tuneStartedAt = tuners[k].tuneStartedAt
      /\ \A f : LET j == [joined EXCEPT !.frontend = f]
                IN  /\ j.sessions = joined.sessions /\ j.state = joined.state
                    /\ j.mux = joined.mux /\ j.tuneStartedAt = joined.tuneStartedAt
  <2>1. old[k] \in Tuner
    BY <1>2, <1>3
  <2>2. tuners[k].state = "tuned" => tuners[k].mux = mux
    BY <1>2 DEF TunedTo, IdleTuners
  <2> QED
    BY <1>2, <1>4, <2>1, <2>2 DEF JoinedTuner, Tuner
<1> HIDE DEF joined, k
<1>8. /\ tuners'[k].sessions = tuners[k].sessions \cup {id}
      /\ tuners'[k].state = "tuned" /\ tuners'[k].mux = mux
      /\ tuners[k].state = "tuned" => tuners'[k].tuneStartedAt = tuners[k].tuneStartedAt
      /\ \A i \in TunerIDs \ {k} : tuners'[i] = old[i]
  BY <1>2, <1>3, <1>6, <1>7
<1>9. \A x \in Live : sessions[x].tunerID \in TunerIDs
  BY DEF AccountingInv, TypeOK, SessionRecord
<1>10. /\ tuners[k].state = "tuned" => tuners[k].mux = mux
       /\ tuners[k].state # "tuned" => TunedTo(mux) = {} /\ tuners[k].sessions = {}
  BY <1>2 DEF TunedTo, IdleTuners, AccountingInv, TunerAccounting
<1> HIDE DEF mux
<1>11. \A i \in TunerIDs :
         /\ tuners'[i].sessions = {x \in Live' : sessions'[x].tunerID = i}
         /\ tuners'[i].state = "tuned" <=> tuners'[i].sessions # {}
         /\ tuners'[i].state = "idle" => tuners'[i] = IdleTuner
  <2> TAKE i \in TunerIDs
  <2>1. CASE i = k
    BY <1>5, <1>8, <2>1 DEF AccountingInv, TunerAccounting
  <2>2. CASE i # k
    BY <1>4, <1>5, <1>8, <2>2 DEF AccountingInv, TunerAccounting
  <2> QED
    BY <2>1, <2>2
<1>12. \A x \in Live' : tuners'[sessions'[x].tunerID].mux = MuxOf[sessions'[x].service]
  <2> TAKE x \in Live'
  <2>1. CASE x = id
    BY <1>5, <1>8, <2>1 DEF mux
  <2>2. CASE x # id
    <3>1. x \in Live /\ sessions'[x] = sessions[x] /\ sessions[x].tunerID \in TunerIDs
      BY <1>5, <1>9, <2>2
    <3>2. /\ x \in tuners[sessions[x].tunerID].sessions
          /\ tuners[sessions[x].tunerID].mux = MuxOf[sessions[x].service]
          /\ tuners[sessions[x].tunerID].state = "tuned"
      BY <3>1 DEF AccountingInv, TunerAccounting
    <3> QED
      BY <1>4, <1>8, <1>10, <3>1, <3>2
  <2> QED
    BY <2>1, <2>2
<1>13. TunerAccounting'
  BY <1>11, <1>12 DEF TunerAccounting
<1>14. MuxExclusive'
  BY <1>4, <1>8, <1>10 DEF AccountingInv, MuxExclusive, TunedTo
<1>15. KeepsTuning
  BY <1>4, <1>8, <1>10 DEF KeepsTuning
<1> QED
  BY <1>13, <1>14, <1>15

LEMMA AccountingInit == Init => AccountingInv
<1> SUFFICES ASSUME Init PROVE AccountingInv
  OBVIOUS
<1>1. TypeOK
  BY TypeInit
<1>2. TunerAccounting /\ MuxExclusive
  BY DEF Init, TunerAccounting, MuxExclusive, Live, IdleTuner
<1> QED
  BY <1>1, <1>2 DEF AccountingInv

LEMMA AccountingStep ==
  ASSUME AccountingInv, [Next]_vars
  PROVE  AccountingInv' /\ KeepsTuning
<1>1. TypeOK'
  BY TypeStep DEF AccountingInv
<1> DEFINE Goal == TunerAccounting' /\ MuxExclusive' /\ KeepsTuning
\* Calls that touch sessions only in fields the accounting does not read.
<1>2. ASSUME UNCHANGED tuners, NEW id \in Live, NEW r,
             r.tunerID = sessions[id].tunerID, r.service = sessions[id].service,
             sessions' = [sessions EXCEPT ![id] = r]
      PROVE  Goal
  BY <1>2, AccountingFrame DEF Live
<1>3. ASSUME UNCHANGED <<sessions, tuners>> PROVE Goal
  BY <1>3, AccountingFrame DEF Live
<1>4. ASSUME UNCHANGED sessions, NEW md, NEW t, tuners' = RecomputedAll(md, t) PROVE Goal
  BY <1>4, AccountingFrame, RecomputedAllKeeps DEF Live, AccountingInv
<1>5. ASSUME UNCHANGED sessions, NEW t, tuners' = TunersAt(t) PROVE Goal
  BY <1>5, AccountingFrame, TunersAtKeeps DEF Live, AccountingInv
<1>6. \A id \in Live : sessions[id] \in SessionRecord
  BY DEF AccountingInv, TypeOK
<1> HIDE DEF Goal
<1>7. ASSUME SetupUnmatched PROVE Goal
  BY <1>3, <1>7 DEF SetupUnmatched
<1>8. ASSUME NEW svc \in Services, NEW raw \in SetupQueries, SetupRejected(svc, raw)
      PROVE  Goal
  BY <1>5, <1>8 DEF SetupRejected
<1>9. ASSUME NEW svc \in Services, NEW raw \in SetupQueries, NEW id \in SessionIDs,
             SetupAccepted(id, svc, raw)
      PROVE  Goal
  BY <1>9, SetupAccounting DEF Goal
<1>10. ASSUME NEW id \in SessionIDs,
              \/ Play(id) \/ Pause(id) \/ RecordRTPSent(id)
              \/ \E transport \in Transports : SetRTPTransport(id, transport)
              \/ \E t \in Lagged : Touch(id, t)
              \/ \E q \in PIDQueries : UpdatePIDs(id, q)
       PROVE  Goal
  <2>1. CASE Play(id) \/ Pause(id)
    BY <1>2, <2>1, MovedSession DEF AccountingInv
  <2>3. CASE RecordRTPSent(id)
    BY <1>2, <1>6, <2>3 DEF RecordRTPSent, SessionRecord
  <2>4. ASSUME NEW transport \in Transports, SetRTPTransport(id, transport) PROVE Goal
    BY <1>2, <1>6, <2>4 DEF SetRTPTransport, SessionRecord
  <2>5. ASSUME NEW t \in Lagged, Touch(id, t) PROVE Goal
    BY <1>2, <1>6, <2>5 DEF Touch, SessionRecord
  <2>6. ASSUME NEW q \in PIDQueries, UpdatePIDs(id, q) PROVE Goal
    BY <1>2, <1>3, <1>6, <2>6 DEF UpdatePIDs, SessionRecord
  <2> QED
    BY <1>10, <2>1, <2>3, <2>4, <2>5, <2>6
<1>11. ASSUME NEW id \in SessionIDs, SessionNotFound(id) PROVE Goal
  BY <1>3, <1>11 DEF SessionNotFound
<1>12. ASSUME NEW id \in SessionIDs, Teardown(id) PROVE Goal
  BY <1>12, RemoveAccounting DEF Teardown, Goal
<1>13. ASSUME NEW t \in Lagged, ExpireSessions(t) PROVE Goal
  BY <1>13, RemoveAccounting DEF ExpireSessions, Goal
<1>14. ASSUME NEW t \in Lagged, StatusAt(t) PROVE Goal
  BY <1>4, <1>14 DEF StatusAt
<1>15. ASSUME NEW t \in Lagged, ScenarioAt(t) PROVE Goal
  BY <1>5, <1>15 DEF ScenarioAt
<1>16. ASSUME NEW t \in Lagged, NEW r \in ScenarioRequests, SetScenario(r, t) PROVE Goal
  BY <1>4, <1>16 DEF SetScenario
<1>17. ASSUME NEW t \in Lagged, NEW steps \in TimelineRequests, SetScenarioTimeline(steps, t)
       PROVE  Goal
  BY <1>4, <1>17 DEF SetScenarioTimeline
<1>18. ASSUME NEW err, ScenarioRefused(err) PROVE Goal
  BY <1>3, <1>18 DEF ScenarioRefused
<1>19. ASSUME Reset PROVE Goal
  BY <1>19 DEF Reset, Goal, TunerAccounting, MuxExclusive, KeepsTuning, Live, IdleTuner
<1>20. ASSUME Tick PROVE Goal
  BY <1>3, <1>20 DEF Tick
<1>21. ASSUME UNCHANGED vars PROVE Goal
  BY <1>3, <1>21 DEF vars
<1>22. Goal
  BY <1>7, <1>8, <1>9, <1>10, <1>11, <1>12, <1>13, <1>14, <1>15, <1>16, <1>17, <1>18,
     <1>19, <1>20, <1>21
  DEF Next, Setup, SessionCall, LabCall
<1> QED
  BY <1>1, <1>22 DEF Goal, AccountingInv

\* A tuner is tuned exactly while sessions are on it, its list and their tuner
\* ids agree, and an idle tuner is blank (allocateTunerLocked,
\* addSessionToTunerLocked, removeSessionFromTunerLocked).
THEOREM TunerAccountingHolds == Spec => []TunerAccounting
<1>1. Init => AccountingInv
  BY AccountingInit
<1>2. AccountingInv /\ [Next]_vars => AccountingInv'
  BY AccountingStep
<1>3. AccountingInv => TunerAccounting
  BY DEF AccountingInv
<1> QED
  BY <1>1, <1>2, <1>3, PTL DEF Spec

\* No two tuners are tuned to one mux: allocateTunerLocked shares first.
THEOREM MuxExclusiveHolds == Spec => []MuxExclusive
<1>1. Init => AccountingInv
  BY AccountingInit
<1>2. AccountingInv /\ [Next]_vars => AccountingInv'
  BY AccountingStep
<1>3. AccountingInv => MuxExclusive
  BY DEF AccountingInv
<1> QED
  BY <1>1, <1>2, <1>3, PTL DEF Spec

\* Sessions that come and go never retune a tuner another session stays on.
THEOREM NoRetuneHolds == Spec => NoRetuneUnderSession
<1>1. Init => AccountingInv
  BY AccountingInit
<1>2. AccountingInv /\ [Next]_vars => AccountingInv'
  BY AccountingStep
<1>3. AccountingInv /\ [Next]_vars => [KeepsTuning]_vars
  BY AccountingStep
<1>4. NoRetuneUnderSession <=> [][KeepsTuning]_vars
  BY DEF NoRetuneUnderSession, KeepsTuning
<1> QED
  BY <1>1, <1>2, <1>3, <1>4, PTL DEF Spec

----------------------------------------------------------------------------
(* Admission.                                                              *)

Tuned    == {i \in TunerIDs : tuners[i].state = "tuned"}
TunedMux == [i \in Tuned |-> tuners[i].mux]

\* The muxes of the live sessions are those of the tuned tuners.
LEMMA MuxesInUse ==
  ASSUME AccountingInv
  PROVE  Promise!InUse = {tuners[i].mux : i \in Tuned}
<1>1. Promise!InUse = {MuxOf[sessions[id].service] : id \in Live}
  BY DEF Promise!InUse
<1>2. \A id \in Live : /\ sessions[id].tunerID \in Tuned
                       /\ tuners[sessions[id].tunerID].mux = MuxOf[sessions[id].service]
  <2> TAKE id \in Live
  <2>1. sessions[id].tunerID \in TunerIDs
    BY DEF AccountingInv, TypeOK, SessionRecord
  <2>2. id \in tuners[sessions[id].tunerID].sessions
    BY <2>1 DEF AccountingInv, TunerAccounting
  <2> QED
    BY <2>1, <2>2 DEF AccountingInv, TunerAccounting, Tuned
<1>3. \A i \in Tuned : \E id \in Live : tuners[i].mux = MuxOf[sessions[id].service]
  <2> TAKE i \in Tuned
  <2>1. PICK id \in tuners[i].sessions : TRUE
    BY DEF AccountingInv, TunerAccounting, Tuned
  <2>2. id \in Live /\ sessions[id].tunerID = i
    BY <2>1 DEF AccountingInv, TunerAccounting, Tuned
  <2> QED
    BY <2>2 DEF AccountingInv, TunerAccounting
<1> QED
  BY <1>1, <1>2, <1>3

\* There are as many muxes in use as tuned tuners, and finitely many.
LEMMA OneTunerPerMux ==
  ASSUME AccountingInv
  PROVE  /\ IsFiniteSet(Tuned) /\ Cardinality(Tuned) \in Nat
         /\ Cardinality(Tuned) <= TunerCount
         /\ Cardinality(Tuned) = TunerCount => Tuned = TunerIDs
         /\ IsFiniteSet(Promise!InUse)
         /\ Cardinality(Promise!InUse) = Cardinality(Tuned)
<1>1. IsFiniteSet(TunerIDs) /\ Cardinality(TunerIDs) = TunerCount
  BY FS_Interval, CountAssumption DEF TunerIDs
<1>2. /\ IsFiniteSet(Tuned) /\ Cardinality(Tuned) <= Cardinality(TunerIDs)
      /\ Cardinality(TunerIDs) = Cardinality(Tuned) => TunerIDs = Tuned
  <2>1. Tuned \in SUBSET TunerIDs
    BY DEF Tuned
  <2> QED
    BY <1>1, <2>1, FS_Subset
<1>3. TunedMux \in Bijection(Tuned, Promise!InUse)
  <2>1. TunedMux \in [Tuned -> Promise!InUse]
    BY MuxesInUse DEF TunedMux
  <2>2. IsInjective(TunedMux)
    BY DEF IsInjective, TunedMux, Tuned, AccountingInv, MuxExclusive
  <2>3. \A mux \in Promise!InUse : \E i \in Tuned : TunedMux[i] = mux
    BY MuxesInUse DEF TunedMux
  <2> QED
    BY <2>1, <2>2, <2>3 DEF Bijection, Injection, Surjection
<1>4. IsFiniteSet(Promise!InUse) /\ Cardinality(Promise!InUse) = Cardinality(Tuned)
  <2>1. ExistsBijection(Tuned, Promise!InUse)
    BY <1>3 DEF ExistsBijection
  <2> QED
    BY <1>2, <2>1, FS_Bijection
<1>5. Cardinality(Tuned) \in Nat
  BY <1>2, FS_CardinalityType
<1> QED
  BY <1>1, <1>2, <1>4, <1>5

\* A mux is in use exactly when a tuner is tuned to it, and a tuner is idle exactly
\* when it is not tuned.
LEMMA AllocationState ==
  ASSUME AccountingInv, NEW mux
  PROVE  /\ TunedTo(mux) # {} <=> mux \in Promise!InUse
         /\ IdleTuners # {} <=> Tuned # TunerIDs
<1>1. \A i \in TunerIDs : tuners[i].state \in {"idle", "tuned"}
  BY DEF AccountingInv, TypeOK, Tuner
<1>2. IdleTuners # {} <=> Tuned # TunerIDs
  BY <1>1 DEF IdleTuners, Tuned
<1>3. TunedTo(mux) # {} <=> mux \in Promise!InUse
  BY MuxesInUse DEF TunedTo, Tuned
<1> QED
  BY <1>2, <1>3

LEMMA AdmissionFits ==
  ASSUME AccountingInv
  PROVE  AdmitsWhatFits
<1> SUFFICES ASSUME NEW svc \in Services
             PROVE  CanAllocate(MuxOf[svc]) <=> Promise!Fits(svc)
  BY DEF AdmitsWhatFits
<1> DEFINE mux == MuxOf[svc]
<1>1. Cardinality(Promise!InUse \cup {mux}) =
        IF mux \in Promise!InUse THEN Cardinality(Tuned) ELSE Cardinality(Tuned) + 1
  BY OneTunerPerMux, FS_AddElement
<1>2. Promise!Fits(svc) <=> Cardinality(Promise!InUse \cup {mux}) <= TunerCount
  <2>1. Promise!Cardinality(Promise!InUse \cup {mux}) = Cardinality(Promise!InUse \cup {mux})
    BY DEF Promise!Cardinality, Cardinality
  <2> QED
    BY <2>1 DEF Promise!Fits
<1>3. CanAllocate(mux) <=> mux \in Promise!InUse \/ Tuned # TunerIDs
  BY AllocationState DEF CanAllocate
<1>4. Tuned # TunerIDs <=> Cardinality(Tuned) + 1 <= TunerCount
  <2>1. Tuned = TunerIDs => Cardinality(Tuned) = TunerCount
    BY FS_Interval, CountAssumption DEF TunerIDs
  <2> QED
    BY <2>1, OneTunerPerMux, CountAssumption
<1> QED
  BY <1>1, <1>2, <1>3, <1>4, OneTunerPerMux, CountAssumption

\* allocateTunerLocked finds a tuner exactly for the services whose mux fits with
\* those in use, for any number of tuners, muxes and sessions.
THEOREM AdmitsWhatFitsHolds == Spec => []AdmitsWhatFits
<1>1. Init => AccountingInv
  BY AccountingInit
<1>2. AccountingInv /\ [Next]_vars => AccountingInv'
  BY AccountingStep
<1>3. AccountingInv => AdmitsWhatFits
  BY AdmissionFits
<1> QED
  BY <1>1, <1>2, <1>3, PTL DEF Spec

----------------------------------------------------------------------------
(* PID filters and timelines.                                              *)

\* The three stages of UpdatePIDs keep a filter canonical.
LEMMA CanonicalFilter ==
  ASSUME NEW f \in Filter, f.pidsAll => f.pids = {},
         NEW q \in PIDQuery, ~UpdateFails(f, q)
  PROVE  UpdatedFilter(f, q).pidsAll => UpdatedFilter(f, q).pids = {}
<1> DEFINE replaced == Replaced(f, q.pids)
           added    == Added(replaced, q.addpids)
<1>1. replaced \in Filter /\ (replaced.pidsAll => replaced.pids = {})
  BY DEF Replaced, ParsePIDList, Filter, PIDQuery, RawValue, IsBlank, ValueKinds
<1>2. added \in Filter /\ (added.pidsAll => added.pids = {})
  <2> HIDE DEF replaced
  <2> QED
    BY <1>1 DEF Added, Filter, PIDQuery, RawValue, IsBlank, ValueKinds
<1>3. UpdatedFilter(f, q) = Deleted(added, q.delpids)
  BY DEF UpdatedFilter
<1> HIDE DEF added
<1> QED
  BY <1>2, <1>3 DEF Deleted, Filter, PIDQuery, RawValue, IsBlank, ValueKinds

\* No sequence of calls leaves a session with both "all" and a list of PIDs,
\* whatever queries SETUP and PLAY carry (requestedPIDs, UpdatePIDs).
THEOREM FilterCanonicalHolds == Spec => []FilterCanonical
<1>1. Init => FilterCanonical
  BY DEF Init, FilterCanonical, Live
<1>2. TypeOK /\ FilterCanonical /\ [Next]_vars => FilterCanonical'
  <2> SUFFICES ASSUME TypeOK, FilterCanonical, [Next]_vars
               PROVE  FilterCanonical'
    OBVIOUS
  <2>1. \A id \in Live : sessions[id] \in SessionRecord
    BY DEF TypeOK
  <2>2. ASSUME UNCHANGED sessions PROVE FilterCanonical'
    BY <2>2 DEF FilterCanonical, Live
  <2>3. ASSUME NEW id \in Live, NEW r,
               r.filter.pidsAll => r.filter.pids = {},
               sessions' = [sessions EXCEPT ![id] = r]
        PROVE  FilterCanonical'
    BY <2>3 DEF FilterCanonical, Live
  <2>4. ASSUME NEW gone, Remove(gone) PROVE FilterCanonical'
    BY <2>4 DEF Remove, FilterCanonical, Live
  <2>5. ASSUME NEW svc \in Services, NEW raw \in SetupQueries, NEW id \in SessionIDs,
               SetupAccepted(id, svc, raw)
        PROVE  FilterCanonical'
    <3>1. /\ NewSession(svc, raw).filter.pidsAll => NewSession(svc, raw).filter.pids = {}
      <4>1. raw \in RawValue
        BY RequestAssumption
      <4> QED
        BY <4>1 DEF NewSession, RequestedPIDs, ParsePIDList, IsBlank, RawValue, ValueKinds
    <3> QED
      BY <2>5, <3>1 DEF SetupAccepted, FilterCanonical, Live
  <2>6. ASSUME NEW id \in SessionIDs, NEW q \in PIDQueries, UpdatePIDs(id, q)
        PROVE  FilterCanonical'
    <3>1. CASE UpdateFails(sessions[id].filter, q)
      BY <2>2, <2>6, <3>1 DEF UpdatePIDs
    <3>2. CASE ~UpdateFails(sessions[id].filter, q)
      <4> DEFINE f == UpdatedFilter(sessions[id].filter, q)
      <4>1. id \in Live /\ sessions[id] \in SessionRecord /\ q \in PIDQuery
        BY <2>1, <2>6, RequestAssumption DEF UpdatePIDs
      <4>2. f.pidsAll => f.pids = {}
        <5>1. sessions[id].filter \in Filter
          BY <4>1 DEF SessionRecord
        <5>2. sessions[id].filter.pidsAll => sessions[id].filter.pids = {}
          BY <4>1 DEF FilterCanonical
        <5> QED
          BY <3>2, <4>1, <5>1, <5>2, CanonicalFilter
      <4>3. sessions' = [sessions EXCEPT ![id] =
                           [sessions[id] EXCEPT !.filter = f, !.updatedAt = now]]
        BY <2>6, <3>2 DEF UpdatePIDs
      <4> HIDE DEF f
      <4>4. [sessions[id] EXCEPT !.filter = f, !.updatedAt = now].filter = f
        BY <4>1 DEF SessionRecord
      <4> QED
        BY <2>3, <4>1, <4>2, <4>3, <4>4
    <3> QED
      BY <3>1, <3>2
  <2>7. ASSUME NEW id \in SessionIDs,
               \/ Play(id) \/ Pause(id) \/ RecordRTPSent(id)
               \/ \E transport \in Transports : SetRTPTransport(id, transport)
               \/ \E t \in Lagged : Touch(id, t)
        PROVE  FilterCanonical'
    <3>1. ASSUME id \in Live, NEW r, r.filter = sessions[id].filter,
                 sessions' = [sessions EXCEPT ![id] = r]
          PROVE  FilterCanonical'
      BY <2>3, <3>1 DEF FilterCanonical
    <3>2. CASE Play(id) \/ Pause(id)
      BY <3>1, <3>2, MovedSession
    <3>4. CASE RecordRTPSent(id)
      BY <2>1, <3>1, <3>4 DEF RecordRTPSent, SessionRecord
    <3>5. ASSUME NEW transport \in Transports, SetRTPTransport(id, transport)
          PROVE  FilterCanonical'
      BY <2>1, <3>1, <3>5 DEF SetRTPTransport, SessionRecord
    <3>6. ASSUME NEW t \in Lagged, Touch(id, t) PROVE FilterCanonical'
      BY <2>1, <3>1, <3>6 DEF Touch, SessionRecord
    <3> QED
      BY <2>7, <3>2, <3>4, <3>5, <3>6
  <2>8. ASSUME Reset PROVE FilterCanonical'
    BY <2>8 DEF Reset, FilterCanonical, Live
  <2>9. CASE SetupUnmatched
    BY <2>2, <2>9 DEF SetupUnmatched
  <2>10. ASSUME NEW svc \in Services, NEW raw \in SetupQueries, SetupRejected(svc, raw)
         PROVE  FilterCanonical'
    BY <2>2, <2>10 DEF SetupRejected
  <2>11. ASSUME NEW id \in SessionIDs, SessionNotFound(id) \/ Teardown(id)
         PROVE  FilterCanonical'
    BY <2>2, <2>4, <2>11 DEF SessionNotFound, Teardown
  <2>12. CASE LabCall
    BY <2>2, <2>4, <2>8, <2>12
    DEF LabCall, ExpireSessions, StatusAt, ScenarioAt, SetScenario, SetScenarioTimeline,
        ScenarioRefused
  <2>13. CASE Tick \/ UNCHANGED vars
    BY <2>2, <2>13 DEF Tick, vars
  <2> QED
    BY <2>5, <2>6, <2>7, <2>9, <2>10, <2>11, <2>12, <2>13 DEF Next, Setup, SessionCall
<1> QED
  BY <1>1, <1>2, TypeCorrect, PTL DEF Spec

\* TimelineConsistent speaks of the mode and the clock only.
TimelineRight(md, t) ==
  md.timeline # NoTimeline =>
    /\ md.scenario = ScenarioOf(md.timeline.steps[md.timeline.stepIndex])
    /\ md.timeline.startedAt + md.timeline.steps[md.timeline.stepIndex].at <= t
    /\ md.changedAt <= t
    /\ \A i \in DOMAIN md.timeline.steps : md.timeline.steps[i].name # "tuner_wedged"

\* scenarioAtLocked keeps the timeline right for every clock reading that is not
\* ahead of the clock.
LEMMA ModeAtRight ==
  ASSUME TypeOK, TimelineRight(mode, now), NEW t \in Times, t <= now
  PROVE  TimelineRight(ModeAt(t), now)
<1>1. CASE ~StepMoves(t)
  BY <1>1 DEF ModeAt
<1>2. CASE StepMoves(t)
  <2> DEFINE tl == mode.timeline
             k  == DueStep(tl, t)
             next == [tl EXCEPT !.stepIndex = k]
  <2>1. tl \in Timeline(Times) /\ tl # NoTimeline /\ now \in Nat /\ t \in Nat
    BY <1>2 DEF TypeOK, ModeType, StepMoves, NoTimeline, Times
  <2>2. k \in DOMAIN tl.steps /\ tl.steps[k].at \in Nat /\ tl.steps[k].at <= Elapsed(tl, t)
    BY <2>1, DueStepIsStep
  <2>3. /\ tl.startedAt \in Nat /\ tl.stepIndex \in DOMAIN tl.steps
        /\ tl.steps[tl.stepIndex].at \in Nat
    <3>1. /\ tl.startedAt \in Times /\ tl.steps \in Seq(TimelineStep)
          /\ tl.stepIndex \in DOMAIN tl.steps
      BY <2>1 DEF Timeline
    <3>2. tl.steps[tl.stepIndex] \in TimelineStep
      BY <3>1, ElementOfSeq, LenProperties
    <3> QED
      BY <3>1, <3>2 DEF TimelineStep, Times
  <2>4. /\ tl.startedAt + tl.steps[tl.stepIndex].at <= now
        /\ \A i \in DOMAIN tl.steps : tl.steps[i].name # "tuner_wedged"
    BY <2>1 DEF TimelineRight
  <2>5. tl.startedAt + tl.steps[k].at <= now
    BY <2>1, <2>2, <2>3, <2>4 DEF Elapsed
  <2>6. next.stepIndex = k /\ next.steps = tl.steps /\ next.startedAt = tl.startedAt
    BY <2>1, Zenon DEF Timeline
  <2>7. ModeAt(t) = Mode(ScenarioOf(tl.steps[k]), t, next)
    BY <1>2 DEF ModeAt
  <2> HIDE DEF next, k
  <2>8. /\ ModeAt(t).scenario = ScenarioOf(tl.steps[k]) /\ ModeAt(t).changedAt = t
        /\ ModeAt(t).timeline = next
    BY <2>7 DEF Mode
  <2> HIDE DEF tl
  <2> QED
    BY <2>4, <2>5, <2>6, <2>8 DEF TimelineRight
<1> QED
  BY <1>1, <1>2

\* Every step keeps the timeline right.
LEMMA TimelineKept == TypeOK /\ TimelineConsistent /\ [Next]_vars => TimelineConsistent'
<1> SUFFICES ASSUME TypeOK, TimelineRight(mode, now), [Next]_vars
             PROVE  TimelineRight(mode', now')
  BY DEF TimelineConsistent, TimelineRight
<1>1. now \in Times /\ now \in Nat /\ \A t \in Lagged : t \in Times /\ t <= now
  BY DEF TypeOK, Lagged, Times
<1>2. ASSUME UNCHANGED <<mode, now>> PROVE TimelineRight(mode', now')
  BY <1>2
<1>3. ASSUME NEW t \in Times, t <= now, mode' = ModeAt(t), UNCHANGED now
      PROVE  TimelineRight(mode', now')
  BY <1>3, ModeAtRight
<1>4. ASSUME NEW scn, NEW t, mode' = Mode(scn, t, NoTimeline)
      PROVE  TimelineRight(mode', now')
  BY <1>4 DEF Mode, TimelineRight
<1>5. CASE Setup
  <2>1. CASE SetupUnmatched
    BY <1>2, <2>1 DEF SetupUnmatched
  <2>2. ASSUME NEW svc \in Services, NEW raw \in SetupQueries, SetupRejected(svc, raw)
        PROVE  mode' = ModeAt(now) /\ UNCHANGED now
    BY <2>2 DEF SetupRejected
  <2>3. ASSUME NEW svc \in Services, NEW raw \in SetupQueries, NEW id \in SessionIDs,
               SetupAccepted(id, svc, raw)
        PROVE  mode' = ModeAt(now) /\ UNCHANGED now
    BY <2>3 DEF SetupAccepted
  <2> QED
    BY <1>1, <1>3, <1>5, <2>1, <2>2, <2>3 DEF Setup
<1>6. CASE SessionCall
  BY <1>2, <1>6 DEF SessionCall, SessionNotFound, Play, Pause, UpdatePIDs, SetRTPTransport,
                    RecordRTPSent, Touch, Teardown
<1>7. ASSUME NEW t \in Lagged,
             \/ ExpireSessions(t) \/ StatusAt(t) \/ ScenarioAt(t)
             \/ \E r \in ScenarioRequests : SetScenario(r, t)
      PROVE  TimelineRight(mode', now')
  BY <1>1, <1>2, <1>3, <1>4, <1>7 DEF ExpireSessions, StatusAt, ScenarioAt, SetScenario
<1>8. ASSUME NEW t \in Lagged, NEW steps \in TimelineRequests, SetScenarioTimeline(steps, t)
      PROVE  TimelineRight(mode', now')
  <2>1. /\ steps \in Seq(TimelineStep) /\ 1 \in DOMAIN steps /\ steps[1].at = 0
        /\ \A i \in DOMAIN steps : steps[i].name # "tuner_wedged"
    BY <1>8, ValidTimeline DEF SetScenarioTimeline
  <2>2. mode' = Mode(ScenarioOf(steps[1]), t,
                     [startedAt |-> t, stepIndex |-> 1, steps |-> steps]) /\ now' = now
    BY <1>8 DEF SetScenarioTimeline
  <2> QED
    BY <1>1, <2>1, <2>2 DEF Mode, TimelineRight, Times
<1>9. CASE Reset
  <2>1. CASE mode.scenario.name = "tuner_wedged"
    BY <1>4, <1>9, <2>1 DEF Reset
  <2>2. CASE mode.scenario.name # "tuner_wedged"
    BY <1>2, <1>9, <2>2 DEF Reset
  <2> QED
    BY <2>1, <2>2
<1>10. ASSUME NEW err, ScenarioRefused(err) PROVE TimelineRight(mode', now')
  BY <1>2, <1>10 DEF ScenarioRefused
<1>11. CASE Tick
  <2>1. TimelineRight(mode, now + 1)
    <3>1. mode.timeline # NoTimeline =>
            mode.timeline.startedAt \in Nat /\ mode.changedAt \in Nat
            /\ mode.timeline.steps[mode.timeline.stepIndex].at \in Nat
      <4> SUFFICES ASSUME mode.timeline # NoTimeline
                   PROVE  /\ mode.timeline.startedAt \in Nat /\ mode.changedAt \in Nat
                          /\ mode.timeline.steps[mode.timeline.stepIndex].at \in Nat
        OBVIOUS
      <4>1. mode.timeline \in Timeline(Times) /\ mode.changedAt \in Times
        BY DEF TypeOK, ModeType
      <4>2. /\ mode.timeline.startedAt \in Times
            /\ mode.timeline.steps[mode.timeline.stepIndex] \in TimelineStep
        BY <4>1, ElementOfSeq, LenProperties DEF Timeline
      <4> QED
        BY <4>1, <4>2 DEF TimelineStep, Times
    <3> QED
      BY <1>1, <3>1 DEF TimelineRight
  <2> QED
    BY <1>11, <2>1 DEF Tick
<1>12. CASE UNCHANGED vars
  BY <1>2, <1>12 DEF vars
<1> QED
  BY <1>5, <1>6, <1>7, <1>8, <1>9, <1>10, <1>11, <1>12 DEF Next, LabCall

\* While a timeline runs the active scenario is that of its current step, the step
\* has begun and holds no fault that needs a reset, however late the clock readings
\* of its readers are (scenarioAtLocked, SetScenarioTimelineAt).
THEOREM TimelineConsistentHolds == Spec => []TimelineConsistent
<1>1. Init => TimelineConsistent
  BY DEF Init, TimelineConsistent, Mode
<1> QED
  BY <1>1, TimelineKept, TypeCorrect, PTL DEF Spec

----------------------------------------------------------------------------
(* LabManager implements LabSessions: every step of the lab model is a     *)
(* step of the promise, or leaves what the promise speaks of alone.        *)

\* What LabSessions sees of the lab.
View    == [id \in Live |-> [service |-> sessions[id].service, state |-> sessions[id].state]]
Blocked == mode.scenario.name \in {"tuner_busy", "tuner_wedged"}

PromiseStep == [Promise!Next]_(Promise!vars)

----------------------------------------------------------------------------
(* The kinds of step.                                                      *)

\* A call that changes no session's service or state, and is not refused for
\* want of a tuner.
LEMMA InertStep ==
  ASSUME UNCHANGED View, answer' \notin {"no_tuner", "tuner_wedged"}
  PROVE  PromiseStep
<1>1. AbstractAnswer' \in {"ok", "other"}
  BY DEF AbstractAnswer
<1>2. Blocked' \in BOOLEAN
  BY DEF Blocked
<1>3. Promise!Inert
  BY <1>1, <1>2 DEF Promise!Inert, View, Blocked
<1> QED
  BY <1>3 DEF PromiseStep, Promise!Next

\* The answers to refused scenario requests never say "no_tuner".
LEMMA ScenarioErrors ==
  /\ \A r : OptionsError(r) \notin {"no_tuner", "tuner_wedged"}
  /\ \A steps : TimelineError(steps) \notin {"no_tuner", "tuner_wedged"}
<1>1. \A r : TargetError(r) \notin {"no_tuner", "tuner_wedged"}
  BY DEF TargetError
<1>2. \A steps, i : StepError(steps, i) \notin {"no_tuner", "tuner_wedged"}
  BY <1>1 DEF StepError
<1> QED
  BY <1>1, <1>2 DEF OptionsError, TimelineError

\* The same sessions with the same services and states look the same.
LEMMA SameView ==
  ASSUME Live' = Live,
         \A id \in Live : /\ sessions'[id].service = sessions[id].service
                          /\ sessions'[id].state = sessions[id].state
  PROVE  UNCHANGED View
BY DEF View

\* Replacing one record without touching its service and state shows nothing.
LEMMA UpdateInert ==
  ASSUME NEW id \in Live, NEW r,
         r.service = sessions[id].service, r.state = sessions[id].state,
         sessions' = [sessions EXCEPT ![id] = r], answer' \notin {"no_tuner", "tuner_wedged"}
  PROVE  PromiseStep
<1>1. Live' = Live /\ \A x \in Live : /\ sessions'[x].service = sessions[x].service
                                      /\ sessions'[x].state = sessions[x].state
  BY DEF Live
<1> QED
  BY <1>1, SameView, InertStep

\* Teardown, expiry and reset end sessions and leave the others as they were.
LEMMA EndStep ==
  ASSUME NEW gone \in SUBSET Live,
         Live' = Live \ gone, \A id \in Live \ gone : sessions'[id] = sessions[id],
         Blocked' = Blocked \/ (Blocked' = FALSE /\ gone = Live), answer' = "ok"
  PROVE  PromiseStep
<1>1. View' = [id \in DOMAIN View \ gone |-> View[id]]
  BY DEF View
<1>2. DOMAIN View = Live
  BY DEF View
<1>3. Promise!End(gone)
  BY <1>1 DEF Promise!End, View
<1>4. AbstractAnswer' = "ok"
  BY DEF AbstractAnswer
<1>5. Promise!Ended
  BY <1>2, <1>3, <1>4 DEF Promise!Ended, View, Blocked
<1> QED
  BY <1>5 DEF PromiseStep, Promise!Next

\* A refused SETUP: the fault that refused it is the mode's now, or no tuner was
\* left for a mux that is not in use.
LEMMA RejectedStep ==
  ASSUME AccountingInv, NEW svc \in Services, NEW raw, SetupRejected(svc, raw)
  PROVE  PromiseStep
<1>1. View' = View
  BY SameView DEF SetupRejected, Live
<1>2. CASE answer' \notin {"no_tuner", "tuner_wedged"}
  BY <1>1, <1>2, InertStep
<1>3. CASE answer' \in {"no_tuner", "tuner_wedged"}
  <2>1. Blocked' \/ ~CanAllocate(MuxOf[svc])
    BY <1>3 DEF SetupRejected, SetupError, Blocked
  <2>2. Blocked' \/ \E s \in Services : ~Promise!Fits(s)
    BY <2>1, AdmissionFits DEF AdmitsWhatFits
  <2>3. AbstractAnswer' = "no_tuner" /\ Blocked' \in BOOLEAN
    BY <1>3 DEF AbstractAnswer, Blocked
  <2>4. Promise!SetupRefusedForTuner
    BY <1>1, <2>2, <2>3 DEF Promise!SetupRefusedForTuner, View, Blocked
  <2> QED
    BY <2>4 DEF PromiseStep, Promise!Next
<1> QED
  BY <1>2, <1>3

\* An accepted SETUP: its mux fits, because a tuner was found for it.
LEMMA AcceptedStep ==
  ASSUME AccountingInv, NEW id \in SessionIDs, NEW svc \in Services, NEW raw,
         SetupAccepted(id, svc, raw)
  PROVE  PromiseStep
<1>1. CanAllocate(MuxOf[svc]) /\ mode'.scenario.name \notin {"tuner_busy", "tuner_wedged"}
  BY DEF SetupAccepted, SetupError
<1>2. Promise!Fits(svc)
  BY <1>1, AdmissionFits DEF AdmitsWhatFits
<1>3. id \notin Live
  BY DEF SetupAccepted, IsFresh
<1>4. View' = [x \in DOMAIN View \cup {id} |->
                 IF x = id THEN [service |-> svc, state |-> "setup"] ELSE View[x]]
  <2>1. /\ sessions' = [x \in Live \cup {id} |->
                          IF x = id THEN NewSession(svc, raw) ELSE sessions[x]]
        /\ NewSession(svc, raw).service = svc /\ NewSession(svc, raw).state = "setup"
    BY DEF SetupAccepted, NewSession
  <2>2. Live' = Live \cup {id}
    BY <2>1 DEF Live
  <2> QED
    BY <1>3, <2>1, <2>2 DEF View
<1>5. DOMAIN View = Live
  BY DEF View
<1>6. Promise!Admit(id, svc)
  BY <1>2, <1>3, <1>4, <1>5 DEF Promise!Admit, View
<1>7. AbstractAnswer' = "ok" /\ Blocked' = FALSE
  BY <1>1 DEF SetupAccepted, AbstractAnswer, Blocked
<1>8. Promise!SetupAdmitted
  BY <1>6, <1>7 DEF Promise!SetupAdmitted, View, Blocked
<1> QED
  BY <1>8 DEF PromiseStep, Promise!Next

\* PLAY and PAUSE move one session and touch nothing else.
LEMMA MovedStep ==
  ASSUME TypeOK, NEW id \in SessionIDs, Play(id) \/ Pause(id)
  PROVE  PromiseStep
<1>1. PICK r \in SessionRecord :
        /\ sessions' = [sessions EXCEPT ![id] = r]
        /\ r.state \in {"playing", "paused"} /\ r.service = sessions[id].service
  BY MovedSession
<1>2. id \in Live /\ UNCHANGED mode /\ answer' = "ok"
  BY MovedSession
<1>3. View' = [View EXCEPT ![id].state = r.state]
  <2>1. Live' = Live /\ sessions'[id] = r /\ \A x \in Live \ {id} : sessions'[x] = sessions[x]
    BY <1>1, <1>2 DEF Live
  <2>2. View[id] = [service |-> sessions[id].service, state |-> sessions[id].state]
    BY <1>2 DEF View
  <2>3. [View[id] EXCEPT !.state = r.state] = [service |-> r.service, state |-> r.state]
    BY <1>1, <2>2
  <2>4. View' = [View EXCEPT ![id] = [service |-> r.service, state |-> r.state]]
    BY <1>2, <2>1 DEF View
  <2> QED
    BY <2>3, <2>4
<1>4. DOMAIN View = Live
  BY DEF View
<1>5. Promise!Move(id, r.state)
  BY <1>2, <1>3, <1>4 DEF Promise!Move, View
<1>6. AbstractAnswer' = "ok" /\ Blocked' = Blocked
  BY <1>2 DEF AbstractAnswer, Blocked
<1>7. Promise!Moved
  BY <1>1, <1>5, <1>6 DEF Promise!Moved, View, Blocked
<1> QED
  BY <1>7 DEF PromiseStep, Promise!Next

----------------------------------------------------------------------------
(* Every step.                                                             *)

LEMMA StepKeepsPromise ==
  ASSUME AccountingInv, [Next]_vars
  PROVE  PromiseStep
<1>1. \A id \in Live : sessions[id] \in SessionRecord
  BY DEF AccountingInv, TypeOK
<1>2. ASSUME UNCHANGED sessions, answer' \notin {"no_tuner", "tuner_wedged"} PROVE PromiseStep
  BY <1>2, SameView, InertStep DEF Live
<1>3. ASSUME NEW gone \in SUBSET Live, Remove(gone), UNCHANGED mode, answer' = "ok"
      PROVE  PromiseStep
  BY <1>3, EndStep DEF Remove, Live, Blocked
<1>4. CASE Setup
  <2>1. CASE SetupUnmatched
    BY <1>2, <2>1 DEF SetupUnmatched
  <2>2. ASSUME NEW svc \in Services, NEW raw \in SetupQueries, SetupRejected(svc, raw)
        PROVE  PromiseStep
    BY <2>2, RejectedStep
  <2>3. ASSUME NEW svc \in Services, NEW raw \in SetupQueries, NEW id \in SessionIDs,
               SetupAccepted(id, svc, raw)
        PROVE  PromiseStep
    BY <2>3, AcceptedStep
  <2> QED
    BY <1>4, <2>1, <2>2, <2>3 DEF Setup
<1>5. ASSUME NEW id \in SessionIDs,
             \/ SessionNotFound(id) \/ RecordRTPSent(id) \/ Teardown(id)
             \/ \E transport \in Transports : SetRTPTransport(id, transport)
             \/ \E t \in Lagged : Touch(id, t)
             \/ \E q \in PIDQueries : UpdatePIDs(id, q)
      PROVE  PromiseStep
  <2>1. CASE SessionNotFound(id)
    BY <1>2, <2>1 DEF SessionNotFound
  <2>2. CASE RecordRTPSent(id)
    BY <1>1, <2>2, UpdateInert DEF RecordRTPSent, SessionRecord
  <2>3. CASE Teardown(id)
    BY <1>3, <2>3 DEF Teardown
  <2>4. ASSUME NEW transport \in Transports, SetRTPTransport(id, transport) PROVE PromiseStep
    BY <1>1, <2>4, UpdateInert DEF SetRTPTransport, SessionRecord
  <2>5. ASSUME NEW t \in Lagged, Touch(id, t) PROVE PromiseStep
    BY <1>1, <2>5, UpdateInert DEF Touch, SessionRecord
  <2>6. ASSUME NEW q \in PIDQueries, UpdatePIDs(id, q) PROVE PromiseStep
    BY <1>1, <1>2, <2>6, UpdateInert DEF UpdatePIDs, SessionRecord
  <2> QED
    BY <1>5, <2>1, <2>2, <2>3, <2>4, <2>5, <2>6
<1>6. CASE SessionCall
  BY <1>5, <1>6, MovedStep DEF SessionCall, AccountingInv
<1>7. ASSUME NEW t \in Lagged, ExpireSessions(t) PROVE PromiseStep
  BY <1>3, <1>7 DEF ExpireSessions, Idle
<1>8. ASSUME NEW t \in Lagged,
             \/ StatusAt(t) \/ ScenarioAt(t)
             \/ \E r \in ScenarioRequests : SetScenario(r, t)
             \/ \E steps \in TimelineRequests : SetScenarioTimeline(steps, t)
      PROVE  PromiseStep
  BY <1>2, <1>8 DEF StatusAt, ScenarioAt, SetScenario, SetScenarioTimeline
<1>9. ASSUME NEW err, err \notin {"no_tuner", "tuner_wedged"}, ScenarioRefused(err)
      PROVE  PromiseStep
  BY <1>2, <1>9 DEF ScenarioRefused
<1>10. CASE Reset
  <2>1. Live' = Live \ Live /\ answer' = "ok"
    BY <1>10 DEF Reset, Live
  <2>2. Blocked' = Blocked \/ Blocked' = FALSE
    BY <1>10 DEF Reset, Blocked, Mode, NormalScenario
  <2> QED
    BY <2>1, <2>2, EndStep
<1>11. CASE Tick \/ UNCHANGED vars
  BY <1>11 DEF Tick, vars, PromiseStep, Promise!vars, Live, AbstractAnswer
<1> QED
  BY <1>4, <1>6, <1>7, <1>8, <1>9, <1>10, <1>11, ScenarioErrors DEF Next, LabCall

\* The lab model keeps the promise of LabSessions for every catalog, tuner count,
\* clock and set of requests: a SETUP is admitted only when its mux fits, refused for
\* want of a tuner only when some mux does not or a tuner fault is simulated, a
\* refused call leaves every session alone, and sessions end only by teardown,
\* expiry or reset (Setup, Teardown, ExpireSessions, Reset).
THEOREM LabKeepsPromise == Spec => ImplementsLabSessions
<1>1. Init => Promise!Init
  BY DEF Init, Promise!Init, Live, Mode, NormalScenario, AbstractAnswer
<1>2. Init => AccountingInv
  BY AccountingInit
<1>3. AccountingInv /\ [Next]_vars => AccountingInv'
  BY AccountingStep
<1>4. AccountingInv /\ [Next]_vars => [Promise!Next]_(Promise!vars)
  BY StepKeepsPromise DEF PromiseStep
<1> QED
  BY <1>1, <1>2, <1>3, <1>4, PTL DEF Spec, ImplementsLabSessions, Promise!Spec
=============================================================================

\* The event log: one tuner, two sessions, a log of four events.
SPECIFICATION Spec
CONSTANTS
  s1 = s1  s2 = s2  s3 = s3  s4 = s4
  SessionIDs = {s1, s2}
  TunerCount = 1
  Services <- OneService
  Muxes <- OneMux
  MuxOf <- OneMuxOf
  LockTime = 1
  PIDs = {}
  DefaultPIDs <- OneNoPIDs
  SetupQueries <- DefaultQuery
  PIDQueries = {}
  Transports = {}
  ScenarioRequests = {}
  TimelineRequests = {}
  EventCap = 4
  ProgressEvery = 2
  SessionTimeout = 1
  MaxTime = 2
  MaxLag = 0
  MaxPackets = 2
SYMMETRY SessionSymmetry
INVARIANTS TypeOK EventLifecycle LogMatchesState

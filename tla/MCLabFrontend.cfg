\* Frontends: two sessions that may share a mux and may expire, two tuners, faults set
\* directly and by a timeline whose steps are reached, skipped and passed, lagging
\* clock readings.
SPECIFICATION Spec
CONSTANTS
  s1 = s1  s2 = s2  s3 = s3  s4 = s4
  SessionIDs = {s1, s2}
  TunerCount = 2
  Services <- MCServices
  Muxes <- MCMuxes
  MuxOf <- MCMuxOf
  LockTime = 1
  PIDs = {}
  DefaultPIDs <- NoPIDs
  SetupQueries <- DefaultQuery
  PIDQueries = {}
  Transports = {}
  ScenarioRequests <- FrontendRequests
  TimelineRequests <- FrontendTimelines
  EventCap = 0
  ProgressEvery = 1
  SessionTimeout = 1
  MaxTime = 2
  MaxLag = 1
  MaxPackets = 0
SYMMETRY SessionSymmetry
INVARIANTS TimelineConsistent FrontendShowsFault LockNotEarly RtcpShowsFault
PROPERTIES NoRetuneUnderSession

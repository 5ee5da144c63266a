\* Admission and tuner accounting: three sessions that may expire, three muxes, two
\* tuners, every scenario that refuses a SETUP.
SPECIFICATION Spec
CONSTANTS
  s1 = s1  s2 = s2  s3 = s3  s4 = s4
  SessionIDs = {s1, s2, s3}
  TunerCount = 2
  Services <- WideServices
  Muxes <- WideMuxes
  MuxOf <- WideMuxOf
  LockTime = 1
  PIDs = {}
  DefaultPIDs <- NoPIDs
  SetupQueries <- DefaultQuery
  PIDQueries = {}
  Transports = {}
  ScenarioRequests <- AdmissionRequests
  TimelineRequests = {}
  EventCap = 0
  ProgressEvery = 1
  SessionTimeout = 0
  MaxTime = 1
  MaxLag = 0
  MaxPackets = 0
SYMMETRY SessionSymmetry
INVARIANTS TunerAccounting MuxExclusive AdmitsWhatFits
PROPERTIES ImplementsLabSessions

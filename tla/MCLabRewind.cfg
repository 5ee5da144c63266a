\* Concurrent readers of a running timeline.
SPECIFICATION Spec
CONSTANTS
  s1 = s1  s2 = s2  s3 = s3  s4 = s4
  SessionIDs = {s1}
  TunerCount = 1
  Services <- MCServices
  Muxes <- MCMuxes
  MuxOf <- MCMuxOf
  LockTime = 1
  PIDs = {}
  DefaultPIDs <- NoPIDs
  SetupQueries <- DefaultQuery
  PIDQueries = {}
  Transports = {}
  ScenarioRequests = {}
  TimelineRequests <- FrontendTimelines
  EventCap = 0
  ProgressEvery = 1
  SessionTimeout = 9
  MaxTime = 4
  MaxLag = 1
  MaxPackets = 0
PROPERTIES ReadsNeverRewind

\* Requests of several calls: one session on a mux of two services, a fault set
\* directly or by a timeline, lagging clock readings, every kind of PID query.
SPECIFICATION ReaderSpec
CONSTANTS
  s1 = s1  s2 = s2  s3 = s3  s4 = s4
  SessionIDs = {s1}
  TunerCount = 1
  Services <- PairServices
  Muxes <- OneMux
  MuxOf <- PairMuxOf
  LockTime = 1
  PIDs = {0}
  DefaultPIDs <- PairNoPIDs
  SetupQueries <- ReaderQuery
  PIDQueries <- ReaderPIDQueries
  Transports = {"udp"}
  ScenarioRequests <- ReaderRequests
  TimelineRequests <- ReaderTimelines
  EventCap = 0
  ProgressEvery = 1
  SessionTimeout = 9
  MaxTime = 2
  MaxLag = 1
  MaxPackets = 0
INVARIANTS FilterCanonical OneRequestNeverRewinds AnswerInForce

\* One stream of each kind of payload, under every scenario a stream reacts to.
\* DefaultStep is for payloads without clocks, where it changes nothing but the offset:
\* a whole turn keeps that from multiplying the states.
SPECIFICATION Spec
CONSTANTS
  PIDs <- MCPIDs
  ChunkPackets = 2
  CCRange = 4
  StampRange = 8
  DefaultStep = 8
  Bases <- MCBases
  Scenarios = {"normal", "rtp_stop", "rtp_loss", "rtp_blackhole", "delayed_psi", "cc_errors", "epg_gap"}
  Transports = {"udp", "tcp"}
  SeqRange = 4
  StartupTicks = 1
  MaxLost = 2
INVARIANTS TypeOK ImpairmentTakesHold EveryThirdDropped
PROPERTIES ErrorsAreLosses ClocksMoveForward Recovers

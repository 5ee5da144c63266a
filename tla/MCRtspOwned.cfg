\* One client with its sessions, restarting their senders; the reaper; no reset.
SPECIFICATION FairSpec
CONSTANTS
  c1 = c1  c2 = c2
  Conns = {c1}
  MaxID = 1
  MaxPlays = 3
  Services <- OneService
  MuxOf <- OneMuxOf
  TunerCount = 1
  Transports = {"udp", "tcp"}
  Methods = {"SETUP", "PLAY", "PAUSE", "TEARDOWN", "GET_PARAMETER"}
  SharedUse = FALSE
  Resets = 0
INVARIANTS TypeOK SilentUnlessPlaying
PROPERTIES NoOrphanSender Drained
CHECK_DEADLOCK FALSE

\* One client whose SETUP and PLAY fall around a reset, then leaves.
SPECIFICATION FairSpec
CONSTANTS
  c1 = c1  c2 = c2
  Conns = {c1}
  MaxID = 1
  MaxPlays = 1
  Services <- OneService
  MuxOf <- OneMuxOf
  TunerCount = 1
  Transports = {"udp"}
  Methods = {"SETUP", "PLAY"}
  SharedUse = FALSE
  Resets = 1
PROPERTIES Drained
CHECK_DEADLOCK FALSE

\* Two clients driving one session, and a reset, at the same time.
SPECIFICATION FairSpec
CONSTANTS
  c1 = c1  c2 = c2
  Conns = {c1, c2}
  MaxID = 1
  MaxPlays = 1
  Services <- OneService
  MuxOf <- OneMuxOf
  TunerCount = 1
  Transports = {"udp", "tcp"}
  Methods = {"SETUP", "PLAY", "PAUSE", "TEARDOWN"}
  SharedUse = TRUE
  Resets = 1
INVARIANTS StopChannelHeard NoTunerLeak MapMatchesLab ForgottenOnlyInPassing
PROPERTIES TunersFreed
CHECK_DEADLOCK FALSE

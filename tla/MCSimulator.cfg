\* One simulator from start to stop and one client, every way of starting it.
SPECIFICATION FairSpec
CONSTANTS
  Starts <- MCStarts
  DachChannels <- MCDachChannels
  Failures = {"nothing", "http", "rtsp", "ssdp", "group"}
INVARIANTS LinkTunesEntry GuideMatchesList StreamMatchesGuide
PROPERTIES AnnouncedIsServed LoopsLiveUntilStop
CHECK_DEADLOCK FALSE

\* One connection, three clients' scripts, every profile, any answer of the lab.
SPECIFICATION FairSpec
CONSTANTS
  Scripts <- MCScripts
  UpCap = 2
  WireCap = 2
  LabErrors = {"no_tuner", "no_signal", "tuner_wedged", "service_not_found", "invalid_tune"}
INVARIANTS AnswersInOrder FramesFollowPlay StatusesMakeSense
PROPERTIES EveryRequestAnswered FramesCease
CHECK_DEADLOCK FALSE

\* The program and an embedded simulator, started with a topology fixture.
SPECIFICATION Spec
CONSTANTS
  Starts <- FixtureStarts
  DachChannels <- MCDachChannels
  Failures = {"nothing"}
INVARIANTS FixtureServed
CHECK_DEADLOCK FALSE

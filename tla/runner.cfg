\* Five runs over four transports, one of them unknown; anything may crash at any
\* time.
SPECIFICATION FairSpec
CONSTANTS
  Combos <- MixedSweep
  Consumers = {c1, c2}
INVARIANTS
  TypeOK
  NoJobLeftRunning
  ResultsAreFresh
PROPERTIES
  NoFalseAlarm
  FailsFast
  SweepEnds
CHECK_DEADLOCK FALSE

\* Two consumers, two messages; the analysis is started at any time,
\* and after it, or when every process has ended, nothing happens.
SPECIFICATION Spec
CONSTANTS
  Cids = {0, 1}
  Latencies = {1, 3}
  N_MESSAGES = 2
CHECK_DEADLOCK FALSE
INVARIANTS
  
  EverybodyReported
  RadarIsHonest

\* Two clients that may be killed at any time or come late, a queue of two.
SPECIFICATION FairSpec
CONSTANTS
  Clients = {c1, c2}
  MAX_QUEUE_DEPTH = 2
  N_WARMUP = 1
  N_MESSAGES = 3
INVARIANTS
  TypeOK
  StreamUnbroken
  AsleepForAReason
PROPERTIES
  Completes
  ImplementsBroadcast
CHECK_DEADLOCK FALSE

\* Two consumers, a stream three times as long as the ring, stalls and a crash.
SPECIFICATION FairSpec
CONSTANTS
  Consumers = {c1, c2}
  RING_SIZE = 2
  N_MESSAGES = 6
INVARIANTS
  TypeOK
  Accounted
  LossOnlyBeyondRing
PROPERTIES
  ConsumersStop
  ImplementsBroadcast
CHECK_DEADLOCK FALSE

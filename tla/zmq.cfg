\* Two subscribers, pipes shorter than the stream, kills, errors and stalls.
SPECIFICATION FairSpec
CONSTANTS
  Consumers = {c1, c2}
  SNDHWM = 1
  RCVHWM = 1
  N_WARMUP = 1
  N_MESSAGES = 3
INVARIANTS
  TypeOK
  LossIsWhatWasDropped
PROPERTIES
  ConsumersStop
  ImplementsBroadcast
CHECK_DEADLOCK FALSE

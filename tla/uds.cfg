\* Three consumers, messages of two bytes, buffers of three; errors and kills.
SPECIFICATION FairSpec
CONSTANTS
  Consumers = {c1, c2, c3}
  MSG_BYTES = 2
  BUF_BYTES = 3
  UDS_N_WARMUP = 1
  N_MESSAGES = 2
INVARIANTS
  TypeOK
  StreamIntact
  InStep
PROPERTIES
  EverybodyEnds
  ImplementsBroadcast
CHECK_DEADLOCK FALSE

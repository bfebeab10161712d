\* What run_bench.sh says of the end of the server, when a client is killed.
SPECIFICATION KilledSpec
CONSTANTS
  Clients = {c1, c2}
  MAX_QUEUE_DEPTH = 1
  N_WARMUP = 1
  N_MESSAGES = 3
PROPERTY
  ServerStops
CHECK_DEADLOCK FALSE

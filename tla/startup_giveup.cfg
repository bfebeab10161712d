\* What the comment on the consumer's 45 seconds says, in one clean run.
SPECIFICATION Undisturbed
CONSTANTS
  Consumers = {c1, c2}
  N_WARMUP = 2
  MaxRetries = 2
  MaxRuns = 1
PROPERTY
  ConsumersGiveUp
CHECK_DEADLOCK FALSE

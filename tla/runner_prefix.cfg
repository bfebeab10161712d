\* What the comment on the rm commands says.
SPECIFICATION Spec
CONSTANTS
  Combos <- PrefixSweep
  Consumers = {c1, c2}
PROPERTY
  CleansThisComboOnly
CHECK_DEADLOCK FALSE

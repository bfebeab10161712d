\* Two runs, the second by hand or by the script; any producer may crash at
\* any step.
SPECIFICATION FairSpec
CONSTANTS
  Consumers = {c1, c2}
  N_WARMUP = 2
  MaxRetries = 2
  MaxRuns = 2
INVARIANTS
  TypeOK
  NobodyStartsAlone
  AttachedToThisRun
PROPERTY
  StartsUnlessTrouble
CHECK_DEADLOCK FALSE

\* Two calls in two slots.
CONSTANTS
  MaxCalls = 2
  Calls = 2
SPECIFICATION FairSpec
PROPERTY ParallelCalls
CHECK_DEADLOCK FALSE

\* The first provisional response of a callee that rings at once.
CONSTANTS
  MaxEvents = 2
  MaxInputs = 2
SPECIFICATION Spec
INVARIANT DialogKnownWhenRinging
CHECK_DEADLOCK FALSE

\* Two places in the pool, so that it overflows; six events beside the first:
\* enough for ring, answer, acknowledge or accept, hang up on both sides, and
\* for a damaged pool to make some up.
CONSTANTS
  MaxEvents = 2
  MaxInputs = 6
SPECIFICATION FairSpec
INVARIANTS TypeOK Orderly GuiLearnsEnd AcceptedOnlyIfAnswered NobodyStranded VerdictIsComing
PROPERTIES ImplementsLifecycle HangUpEndsCall RemoteHangUpEndsCall
CHECK_DEADLOCK FALSE

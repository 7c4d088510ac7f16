\* Two GUIs, one of which may die, one thread with callbacks, and two pollers,
\* so that one of an earlier registration meets that of the next.
CONSTANTS
  w = w
  q1 = q1
  q2 = q2
  Gui = {g1, g2}
  NULL = NULL
  Server = Server
  Worker = {w}
  Poller = {q1, q2}
  MaxDead = 1
SPECIFICATION FairSpec
CONSTRAINT Apart
INVARIANTS TypeOK
PROPERTIES LiveGuiStays DeadGuiIsDropped PollersEnd
CHECK_DEADLOCK FALSE

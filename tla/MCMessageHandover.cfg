\* Two senders and three messages through a ring of two slots, in both
\* variants: the ring fills up and its indices wrap.
CONSTANTS
  Sender = {s1, s2}
  Capacity = 2
  MaxMsg = 3
SPECIFICATION FairSpec
INVARIANTS TypeOK Accounted
PROPERTY HandledOrRaced
CHECK_DEADLOCK FALSE

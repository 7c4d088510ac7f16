\* One sender and one message are enough to lose the wake-up of a machine.
CONSTANTS
  Sender = {s1}
  Capacity = 2
  MaxMsg = 1
SPECIFICATION FairSpec
PROPERTY Delivered
CHECK_DEADLOCK FALSE

\* Two calls and one slot or two: both calls up at once, one after the other
\* in the same slot, and calls that are refused.
CONSTANTS
  MaxCalls = 2
  Calls = 2
SPECIFICATION FairSpec
INVARIANTS TypeOK OwnSlot UniqueIds
PROPERTIES NothingMissed FoundIsRight NotStuckUnlessLeaked
CHECK_DEADLOCK FALSE

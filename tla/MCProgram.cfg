\* All threads of the daemon and one call; a place less than there are threads.
CONSTANTS
  Dispatcher = Dispatcher
  Listener = Listener
  Worker = Worker
  Server = Server
  Calls = {call}
  Threads <- MCThreads
  MaxAmount = 4
  NoThread = NoThread
  Dead = Dead
  MaxFailures = 1
SPECIFICATION ProgramFairSpec
INVARIANTS TypeOK LateOnlyIfOvertaken NeededIsUp
PROPERTIES JoinIsABarrier DestroyEnds
CHECK_DEADLOCK FALSE

SPECIFICATION FairSpec
CONSTANTS
  Threads <- MCThreads
  Objects <- MCObjects
  MaxCalls = 2
  t1 = t1
  t2 = t2
  registry = registry
INVARIANT TypeOK
INVARIANT NoOrphan
INVARIANT OwnReplies
PROPERTY EndsLoseNothing
PROPERTY Woken
PROPERTY WorkerEnds
PROPERTY ServiceSpec
CHECK_DEADLOCK FALSE

SPECIFICATION FairSpec
CONSTANTS
  Threads <- TwoThreads
  MaxCalls = 1
  registry = registry
  fs = fs
  MaxRequests = 3
  MaxLen = 2
  ReadCap = 2
  PipeCap = 2
  StderrCap = 0
  NoMethod = NoMethod
  Answers <- MCAnswers
  Called <- MCCalled
  t1 = t1
  t2 = t2
INVARIANT TypeOK
INVARIANT AnswersOwnCall
INVARIANT NoUnknownCallback
PROPERTY EveryCallReturns
PROPERTY ChildEnds
CHECK_DEADLOCK FALSE

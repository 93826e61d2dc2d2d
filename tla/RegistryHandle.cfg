SPECIFICATION Spec
CONSTANTS
  Threads <- MCThreads
  Ids <- OnlyProject
  Disposable <- Nothing
  MaxWrappers = 2
  t1 = t1
  t2 = t2
  project = project
  symbol = symbol
INVARIANT HandleAlive
CHECK_DEADLOCK FALSE

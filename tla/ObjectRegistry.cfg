SPECIFICATION Spec
CONSTANTS
  Threads <- MCThreads
  Ids <- MCIds
  Disposable <- MCDisposable
  MaxWrappers = 3
  t1 = t1
  t2 = t2
  project = project
  symbol = symbol
SYMMETRY Sym
INVARIANT TypeOK
INVARIANT ReleasedOnce
INVARIANT NoLeak
INVARIANT UniqueUnlessRaced
CHECK_DEADLOCK FALSE

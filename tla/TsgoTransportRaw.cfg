SPECIFICATION FairSpec
CONSTANTS
  MaxRequests = 1
  MaxLen = 1
  ReadCap = 2
  PipeCap = 2
  StderrCap = 1
  Methods <- OneMethod
  NoMethod = NoMethod
  Answers <- AllAnswers
  Samples <- MCSamples
  m1 = m1
  m2 = m2
PROPERTY RetriesReturn
CHECK_DEADLOCK FALSE

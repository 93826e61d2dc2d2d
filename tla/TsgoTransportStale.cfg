SPECIFICATION Spec
CONSTANTS
  MaxRequests = 2
  MaxLen = 2
  ReadCap = 2
  PipeCap = 2
  StderrCap = 1
  Methods <- OneMethod
  NoMethod = NoMethod
  Answers <- Decodable
  Samples <- MCSamples
  m1 = m1
  m2 = m2
INVARIANT EveryAnswerOwn
CHECK_DEADLOCK FALSE

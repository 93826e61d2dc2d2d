SPECIFICATION Spec
CONSTANTS
  MaxRequests = 1
  MaxLen = 3
  ReadCap = 2
  PipeCap = 2
  StderrCap = 1
  Methods <- OneMethod
  NoMethod = NoMethod
  Answers <- Decodable
  Samples <- MCSamples
  m1 = m1
  m2 = m2
PROPERTY PartialOnlyOfTheDead
CHECK_DEADLOCK FALSE

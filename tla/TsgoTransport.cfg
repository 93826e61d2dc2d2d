SPECIFICATION FairSpec
CONSTANTS
  MaxRequests = 3
  MaxLen = 2
  ReadCap = 2
  PipeCap = 2
  StderrCap = 1
  Methods <- OneMethod
  NoMethod = NoMethod
  Answers <- AllAnswers
  Samples <- MCSamples
  m1 = m1
  m2 = m2
INVARIANT TypeOK
INVARIANT LockstepInv
INVARIANT OwnAnswer
INVARIANT AnswersInOrder
INVARIANT QuietWhenIdle
INVARIANT DecodeAsModelled
PROPERTY RetryNeverAnswers
PROPERTY CallsReturn
 
CHECK_DEADLOCK FALSE

SPECIFICATION Spec
CONSTANTS
  IndexSize = 16
  SyntaxKinds = {1, 2, 3, 4, 5}
  SourceFile = 1
  Template = 2
  VariableDeclarationList = 3
  ImportAttributes = 4
  NodeList = 4095
  TokenFlags = {0, 4}
  Trees <- MCTrees
  Values <- MCValues
INVARIANT TypeOK
INVARIANT RoundTrip
INVARIANT StringsInBounds
INVARIANT DamageStaysLocal
INVARIANT PanicOnlyReversed
CHECK_DEADLOCK FALSE

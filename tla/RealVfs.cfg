SPECIFICATION Spec
CONSTANTS
  Names <- MCNames
  Base <- MCBase
  Initial <- MCInitial
  Readable <- MCReadable
  Listed <- MCListed
  Writable <- MCWritable
  Targets <- MCTargets
  Writers <- MCWriters
  MaxWrites = 2
  MaxChanges = 1
  MaxBlocks = 2
  MaxLinks = 2
  a = a
  b = b
  w1 = w1
  w2 = w2
SYMMETRY Sym
INVARIANT TypeOK
INVARIANT WholeContents
INVARIANT ListedAsFound
PROPERTY FailsOnlyBlocked

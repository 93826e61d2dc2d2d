SPECIFICATION Spec
CONSTANTS
  Names <- MCNames
  RawPaths <- MCRawPaths
  Initial <- Fresh
  Writable <- Nested
  Listed <- MCListed
  Writers <- MCWriters
  MaxWrites = 1
  Shards = 1
  a = a
  b = b
  w1 = w1
  w2 = w2
INVARIANT ParentsExist

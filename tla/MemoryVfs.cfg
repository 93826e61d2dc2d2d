SPECIFICATION Spec
CONSTANTS
  Names <- MCNames
  RawPaths <- MCRawPaths
  Initial <- MCInitial
  Writable <- MCWritable
  Listed <- MCListed
  Writers <- MCWriters
  MaxWrites = 2
  Shards = 2
  a = a
  b = b
  w1 = w1
  w2 = w2
SYMMETRY Sym
INVARIANT TypeOK
INVARIANT NormalForm
INVARIANT FilesStay
INVARIANT Discoverable
INVARIANT ListedAsFound
INVARIANT ListingBetween

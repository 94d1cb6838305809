SPECIFICATION Spec
CONSTANTS
  MAX_INUM = 3
  MAX_DNUM = 4
  NPtr = 2
  PerBlk = 1
  Names = {a, b}
  MaxFaults = 2
  NULL = NULL
SYMMETRY Symmetry
INVARIANT TypeOK
INVARIANT BitmapsCover
INVARIANT BlocksExclusive
INVARIANT EntriesExclusive
INVARIANT FreshIsZero
INVARIANT KindsApart
INVARIANT NamesUnique
INVARIANT SizesCount
INVARIANT ListedIsFound
PROPERTY CreatedIsFound
PROPERTY RefinesNamespace

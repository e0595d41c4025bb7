SPECIFICATION Spec
CONSTANTS
  ClusterCount = 2
  ClusterSize = 2
  RootEntries = 3
  PoolSize = 1
  Names = {a, b}
  Zero = zero
  Writes <- SmallWrites
  MaxRefs = 1
INVARIANT
  NamesUnique

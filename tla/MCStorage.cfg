SPECIFICATION Spec
CONSTANTS
  Names = {a, b}
  Zero = zero
  Nodes = {n1, n2, n3}
SYMMETRY Symmetry
INVARIANTS
  ContentsExact
  DirectoryAtomic
  VolumeSound
  TreeSound
  PathsExact
  ListFits
PROPERTIES
  OpenStays

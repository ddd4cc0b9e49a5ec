SPECIFICATION Spec
CONSTANTS
  vmaList = vmaList
  Node <- MCNode
  VmaList = vmaList
  Nil = Nil
  NVma <- MCNVma
  PageSize <- MCPageSize
  Base <- MCBase
  Top <- MCTop
  Prot = {r, w}
  FlagSets <- MCFlagSets
  Hints <- MCHints
  Lens <- MCLens
INVARIANTS
  TypeOK
  ListIsSorted
  StructsAreListed
  NoMergeableNeighbours
PROPERTIES
  ImplementsRegions
VIEW MCView

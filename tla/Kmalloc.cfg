SPECIFICATION Spec
CONSTANTS
  Thread = {t1, t2}
  Nil = Nil
  NBlock <- MCNBlock
  PageSize <- MCPageSize
  PageCount <- MCPageCount
  MajHdr <- MCHdr
  MinHdr <- MCHdr
  AlignRoom <- MCAlignRoom
  Requests <- MCRequests
  MaxHeld <- MCMaxHeld
INVARIANTS
  TypeOK
  MinorsAreDisjoint
  UsageIsExact
  BestBetIsListed
  EveryMinorIsHeld
PROPERTIES
  NewBlockOnlyWhenNeeded
SYMMETRY MCSymmetry
VIEW MCView

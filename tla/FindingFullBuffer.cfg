CONSTANTS
  t1 = t1
  t2 = t2
  c1 = c1
  c2 = c2
  c3 = c3
  p1 = p1
  p2 = p2
  p3 = p3
  None = None
  Thread = {t1}
  Slot = {0}
  SlotOf <- MCSlotOf1
  Canon = {c1, c2, c3}
  ClassOf <- MCAllReused3
  PageOf <- MCThreePages
  NL1 = 1
  L1Len = 6
  ResvLen <- MCResvOne
  Windows <- MCNoPrefetch
  PrefetchMax = 2
  HashMax = 2
  TouchFirst = TRUE
  RaceFree = TRUE
  BufSize = 2
  MatchMax = 2
  WindowMax = 4
  DeferMax = 2
  NVersions = 2
  HelpersFail = FALSE
SPECIFICATION Spec
INVARIANTS EmptyMeansUnmapped

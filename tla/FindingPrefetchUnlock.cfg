CONSTANTS
  t1 = t1
  t2 = t2
  c1 = c1
  c2 = c2
  c3 = c3
  p1 = p1
  p2 = p2
  p3 = p3
  None = None
  Thread = {t1, t2}
  Slot = {0, 1}
  SlotOf <- MCSlotOf
  Canon = {c1, c2}
  ClassOf <- MCAllReused
  PageOf <- MCTwoPages
  NL1 = 2
  L1Len = 3
  ResvLen <- MCResvOne
  Windows <- MCPrefetch
  PrefetchMax = 2
  HashMax = 2
  TouchFirst = TRUE
  RaceFree = TRUE
  BufSize = 4
  MatchMax = 2
  WindowMax = 2
  DeferMax = 2
  NVersions = 2
  HelpersFail = FALSE
SPECIFICATION Spec
PROPERTIES StaysDead

CONSTANTS
  t1 = t1
  t2 = t2
  c1 = c1
  c2 = c2
  c3 = c3
  p1 = p1
  p2 = p2
  p3 = p3
  None = None
  Thread = {t1, t2}
  Slot = {0, 1}
  SlotOf <- MCSlotOf
  Canon = {c1, c2}
  ClassOf <- MCAllReused
  PageOf <- MCOnePage
  NL1 = 4
  L1Len = 1
  ResvLen <- MCResvOne
  Windows <- MCPrefetch
  PrefetchMax = 2
  HashMax = 2
  TouchFirst = TRUE
  RaceFree = FALSE
  BufSize = 4
  MatchMax = 2
  WindowMax = 2
  DeferMax = 2
  NVersions = 2
  HelpersFail = TRUE
SPECIFICATION Spec
INVARIANTS HandlerSeesEntry
CHECK_DEADLOCK FALSE

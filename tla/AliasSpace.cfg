CONSTANTS
  Thread = {t1, t2}
  HugeLen = 3
  NHuge = 3
  CacheSize = 1
  MinRemain = 2
  MaxReq = 4
SPECIFICATION Spec
SYMMETRY Symmetry
INVARIANTS TypeOK OneTime CountIsExact DestroyedIsUnused ConsumeEndsTable

SPECIFICATION FairSpec
CONSTANTS
  t1 = t1
  t2 = t2
  Thread = {t1, t2}
  Main = t1
  Forker = {t1}
  Ptr = {p1, p2}
  Sizes = {33000, 99999}
  Huge = 99999
  Aligns = {4096}
  MaxLeaks = 1
  PageSize = 4096
PROPERTIES ForkReturns
CHECK_DEADLOCK FALSE

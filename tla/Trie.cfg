CONSTANTS
  User = {u1, u2}
  Handler = {h1}
  NL3 = 2
  Fan3 = 2
  Fan2 = 2
  NL1 = 5
  Sizes = {2, 3}
  LastChoices = {FALSE}
  Dangling = TRUE
  None = None
  Foreign = Foreign
SPECIFICATION Spec
SYMMETRY Symmetry
INVARIANTS TypeOK TablesStayValid CountsAreExact ReclaimedIffDead CacheIsFresh ReadsOnlyTables

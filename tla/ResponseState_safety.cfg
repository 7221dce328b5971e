SPECIFICATION Spec
CONSTANTS
  a = a
  b = b
  c = c
  d = d
  None = None
  Ids <- FourIds
  MaxEntries = 2
  TTL = 3
  MaxNow = 5
  MaxUses = 7
SYMMETRY Sym
INVARIANTS
  TypeOK
  RecentlyUsedIsKept
  NeverServesExpired

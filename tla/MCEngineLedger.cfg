CONSTANTS
  s1 = s1
  s2 = s2
  a = a
  b = b
  NoCall = NoCall
  Sessions <- MCSessions
  CallIds <- MCCallIds
  old = old
  new = new
  NoShape = NoShape
  Typed <- MCTyped
  Releases <- MCReleases
  CodeOf <- MCCodeOf
  Reads <- MCReads
  MaxVersion = 1
  MaxCalls = 2

SPECIFICATION FairSpec

INVARIANTS
  TypeOK
  RowsExclusive
  EveryCallHasRow
  SettledIdsAgree

PROPERTIES
  WriteOnce
  CallsEnd

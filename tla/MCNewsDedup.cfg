CONSTANTS
  mfn1 = mfn1
  esap1 = esap1
  rss1 = rss1
  rss2 = rss2
  i1 = i1
  i2 = i2
  NoItem = NoItem
  RawRows <- MCRawRows
  SourceOf <- MCSourceOf
  GroupOf <- MCGroupOf
  RankOf <- MCRankOf
  Ingests <- MCIngests
  IngestTime = 1
  MaxTime = 3

SYMMETRY MCSymmetry

SPECIFICATION Spec

CHECK_DEADLOCK FALSE

INVARIANTS
  TypeOK
  EveryReleaseReported

PROPERTIES
  SecondItemOnly

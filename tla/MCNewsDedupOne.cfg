CONSTANTS
  mfn1 = mfn1
  esap1 = esap1
  rss1 = rss1
  rss2 = rss2
  i1 = i1
  i2 = i2
  NoItem = NoItem
  RawRows <- MCTwoRows
  SourceOf <- MCTwoSourceOf
  GroupOf <- MCTwoGroupOf
  RankOf <- MCRankOf
  Ingests <- MCOneIngest
  IngestTime = 1
  MaxTime = 3

SPECIFICATION Spec

CHECK_DEADLOCK FALSE

INVARIANT OneItemPerRelease

CONSTANTS
  c1 = c1
  c2 = c2
  i1 = i1
  i2 = i2
  Crawls <- MCCrawls
  Ingests <- MCIngests
  Dates <- MCDates
  CrawlDays = 1
  IngestDays = 1
  MaxDay = 3
  MaxVersion = 2

SYMMETRY MCSymmetry

SPECIFICATION Spec

CHECK_DEADLOCK FALSE

INVARIANTS
  TypeOK
  UpToDate

PROPERTIES
  PricesStay

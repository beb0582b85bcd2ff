CONSTANTS
  t1 = t1
  t2 = t2
  a = a
  NoAnswer = NoAnswer
  Turns <- MCTurns
  CallIds <- MCCallIds
  HistoryLimit = 2
  MaxRounds = 2

SPECIFICATION FairSpec

CHECK_DEADLOCK FALSE

INVARIANTS
  TypeOK
  AnswersInContext
  WarnedIffUncited
  SpansBacked
  TitleFromFirstExchange

PROPERTIES
  ThreadGrowsByExchanges
  TurnsEnd

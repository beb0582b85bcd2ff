CONSTANTS
  b1 = b1
  b2 = b2
  u1 = u1
  NoRow = NoRow
  Null = Null
  Briefs <- MCBriefs
  Chats <- MCChats
  HasHistory = FALSE
  MaxBars = 2
  MaxDeliveries <- MCDeliveries
  MaxAsks = 2

SPECIFICATION FairSpec

CHECK_DEADLOCK FALSE

INVARIANTS
  TypeOK
  CardIsLedger
  AttributionIsPriceMove
  CardAgreesWithItself

PROPERTIES
  CardNumbersStay
  TasksEnd

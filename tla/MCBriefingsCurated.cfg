CONSTANTS
  b1 = b1
  b2 = b2
  u1 = u1
  NoRow = NoRow
  Null = Null
  Briefs <- MCBriefs
  Chats <- MCChats
  HasHistory = TRUE
  MaxBars = 1
  MaxDeliveries <- MCDeliveries
  MaxAsks = 2

SPECIFICATION Spec

CHECK_DEADLOCK FALSE

INVARIANT AttributionFollowsCurated

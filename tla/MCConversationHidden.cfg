CONSTANTS
  s1 = s1
  s2 = s2
  t0 = t0
  t1 = t1
  t2 = t2
  NoSend = NoSend
  NoThread = NoThread
  NoCard = NoCard
  Sends <- MCSends
  Threads <- MCThreads
  OldThreads <- MCOldThreads

SPECIFICATION Spec

INVARIANTS
  AnswerHiddenElsewhere

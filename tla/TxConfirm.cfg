SPECIFICATION FairSpec
INVARIANTS
  TypeOK
  AnswerIsTrue
PROPERTIES
  WaitEnds
CHECK_DEADLOCK FALSE

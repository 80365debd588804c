\* Two wrap-arounds of a number space of ten, requests up to a cycle late.
SPECIFICATION FairSpec
CONSTANTS
  HalfSeq = 5
  kSendQueueSaveLen = 3
  BlpBits = 2
  MaxNackBlocks = 3
  StartPos = 8
  MaxPower = 17
  MaxGap = 1
  NackWindow = 4
  Reach = 9
  Paced = TRUE
INVARIANTS TypeOK QueueHoldsNewest AnswersWhatWasAsked BlocksExact CursorInQueue
PROPERTIES EveryLossRepaired
CHECK_DEADLOCK FALSE

CONSTANTS
  Calls = {1, 2, 3}
  LimitOf <- MCLimits
SPECIFICATION FairSpec
INVARIANTS TypeOK SlotsHold ChildInSlot AnswerIsRow
PROPERTIES EndsOnce IsSlotPool Served

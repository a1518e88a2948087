SPECIFICATION FairSpec
CHECK_DEADLOCK FALSE
CONSTANTS
  Files <- MCFiles
  AddressWords = {"EOF"}
INVARIANTS
  TypeOK
  AnswersLastCall
  OneCallAfterCancel
  EffortBounded
PROPERTIES
  PausesIncrease
  Returns

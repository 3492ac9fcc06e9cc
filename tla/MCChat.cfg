SPECIFICATION FairSpec
CONSTANTS
  None = None
  k1 = k1  k2 = k2
  Contacts = {k1,k2}
  Nickname = nickname
  Nicknamed = k1
  Stranger = stranger
  Capacity = 3
  HistoryLimit = 1
  MaxTyped = 3
  MaxReceived = 1
INVARIANTS ChatAgreement PromptTruthful ForeignFiltered ReadIsSeen
PROPERTIES PromptFollows
CHECK_DEADLOCK FALSE

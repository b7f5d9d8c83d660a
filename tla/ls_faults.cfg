CONSTANTS
  Servers = {s1, s2}
  NoServer = none
  Conversations = {c1, c2}
  PromptLength = 1
  CacheSize = 1
  ResponseLength = 2
  MaxVersion = 1
  MaxAnswer = 1
  PartialRollout = TRUE
  FaultsHappen = TRUE
SPECIFICATION FairSpec
CHECK_DEADLOCK FALSE
INVARIANTS InflightExact VersionsInOrder LabelsEnclose BudgetKept
PROPERTIES ConversationsEnd

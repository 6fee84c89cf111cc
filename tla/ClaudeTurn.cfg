SPECIFICATION SpecTurn
CONSTANTS
  Tools = {0, 1}
  Payloads <- SomePayloads
  MaxPayloads = 4
  RawId <- SomeRawId
  Cleaned <- SomeCleaned
  FreshId <- SomeFreshId
  Replies <- SomeReplies
  Earlier <- SomeEarlier
  Additions <- SomeAdditions
  ToolLists <- SomeToolLists
  ToolChoices <- SomeChoices
  Values <- SomeValues
  ResultItems <- SomeItems
CHECK_DEADLOCK FALSE
INVARIANTS BlocksAgree ContentComplete ToolCallsAreAnnounced DoneMeansEnded ToolsMeanTheSame RequestAccepted TurnComesBack FormsAgree
PROPERTY ImplementsClaudeProtocol

SPECIFICATION Spec
CONSTANTS
  Calls = {a1, a2}
  NoCall = NoCall
  TicksPerSecond = 2
  Opened <- OneOfEach
  Requests <- AllRequests
  Refusals <- AllRefusals
CHECK_DEADLOCK FALSE
INVARIANTS
  TypeOK
  CreatedAsAsked
  NoPullRequestShown
  DuplicatesOnlyAfterDoubt
  ErrorsFollowTable
PROPERTIES
  OnlyNamedFieldsChange
  RemoteSpec

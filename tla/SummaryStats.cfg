SPECIFICATION Spec
CONSTANTS
  None = None
  Ours = Ours
  Theirs = Theirs
  Shared = Shared
  MaxReports = 3
  Unit = 36
  Inputs <- AllInputs
  Sharing <- OneSharing
INVARIANTS
  EventIsMeanOfMatches
  SumsAddUp
  RobotInOwnPosition
  UnscoutedMatchesDoNotCount
  RowOrderIsFree
CHECK_DEADLOCK FALSE

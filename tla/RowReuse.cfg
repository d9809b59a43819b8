SPECIFICATION Spec

CONSTANTS
  todo = todo
  work = work
  review = review
  side = side
  main = main
  other = other
  Columns = {todo, work, review}
  Boards = {main}
  AutoColumns = {work, review}
  Configured = {}
  NoColumn = NoColumn
  NoCard = NoCard
  NoPane = NoPane
  MaxAutoHops = 1
  MaxCards = 2
  Spaces = {s1}
  BadColumns = {}
  TimedColumns = {}
  MaxConcurrent = 2
  Ops = {"move", "create", "delete", "cancel"}
  MaxRuns = 2
  MaxRows = 2
  MaxPanes = 2
  MaxPending = 1
  MaxCrashes = 0
  InitColumn <- MCOneCard
  BoardOf <- MCBoardOf
  OnSuccess <- MCOnSuccess
  OnFail <- MCOnFail

PROPERTIES
  RegistersClaimedRow

CHECK_DEADLOCK FALSE

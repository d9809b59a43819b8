SPECIFICATION Spec

CONSTANTS
  todo = todo
  work = work
  review = review
  side = side
  main = main
  other = other
  Columns = {todo, work, review}
  Boards = {main}
  AutoColumns = {work, review}
  Configured = {}
  NoColumn = NoColumn
  NoCard = NoCard
  NoPane = NoPane
  MaxAutoHops = 1
  MaxCards = 1
  Spaces = {s1}
  BadColumns = {}
  TimedColumns = {}
  MaxConcurrent = 2
  Ops = {"move", "done"}
  MaxRuns = 4
  MaxRows = 1
  MaxPanes = 5
  MaxPending = 1
  MaxCrashes = 1
  InitColumn <- MCOneCard
  BoardOf <- MCBoardOf
  OnSuccess <- MCOnSuccess
  OnFail <- MCOnFail

INVARIANTS
  HopsBounded

CHECK_DEADLOCK FALSE

SPECIFICATION Spec

CONSTANTS
  todo = todo
  work = work
  review = review
  side = side
  main = main
  other = other
  Columns = {todo, work, review}
  Boards = {main}
  AutoColumns = {work, review}
  Configured = {}
  NoColumn = NoColumn
  NoCard = NoCard
  NoPane = NoPane
  MaxAutoHops = 1
  MaxCards = 2
  Spaces = {s1}
  BadColumns = {}
  TimedColumns = {}
  MaxConcurrent = 2
  Ops = {"create", "board_archive"}
  MaxRuns = 2
  MaxRows = 1
  MaxPanes = 2
  MaxPending = 1
  MaxCrashes = 0
  InitColumn <- MCOneCard
  BoardOf <- MCBoardOf
  OnSuccess <- MCOnSuccess
  OnFail <- MCOnFail

INVARIANTS
  ArchivedBoardQuiet

CHECK_DEADLOCK FALSE

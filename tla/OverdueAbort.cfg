SPECIFICATION FairSpec

CONSTANTS
  todo = todo
  work = work
  review = review
  side = side
  main = main
  other = other
  Columns = {todo, work, review}
  Boards = {main}
  AutoColumns = {work, review}
  Configured = {}
  NoColumn = NoColumn
  NoCard = NoCard
  NoPane = NoPane
  MaxAutoHops = 1
  MaxCards = 1
  Spaces = {s1}
  BadColumns = {work}
  TimedColumns = {review}
  MaxConcurrent = 2
  Ops = {"move", "done"}
  MaxRuns = 2
  MaxRows = 1
  MaxPanes = 2
  MaxPending = 1
  MaxCrashes = 0
  InitColumn <- MCOneCard
  BoardOf <- MCBoardOf
  OnSuccess <- MCOnSuccess
  OnFail <- MCOnFail

PROPERTIES
  OverdueCloses

CHECK_DEADLOCK FALSE

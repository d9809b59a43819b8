SPECIFICATION FairSpec

CONSTANTS
  todo = todo
  work = work
  review = review
  side = side
  main = main
  other = other
  Columns = {work}
  Boards = {main}
  AutoColumns = {work}
  Configured = {}
  NoColumn = NoColumn
  NoCard = NoCard
  NoPane = NoPane
  MaxAutoHops = 1
  MaxCards = 1
  Spaces = {s1}
  BadColumns = {}
  TimedColumns = {work}
  MaxConcurrent = 1
  Ops = {"retry", "reconcile", "signal", "cancel"}
  MaxRuns = 2
  MaxRows = 1
  MaxPanes = 4
  MaxPending = 1
  MaxCrashes = 1
  InitColumn <- MCOneWorkCard
  BoardOf <- MCBoardOf
  OnSuccess <- MCOnSuccess
  OnFail <- MCOnFail

PROPERTIES
  OverdueCloses
  ActiveAgrees

CHECK_DEADLOCK FALSE

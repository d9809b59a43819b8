SPECIFICATION FairSpec

CONSTANTS
  todo = todo
  work = work
  review = review
  side = side
  main = main
  other = other
  Columns = {work}
  Boards = {main}
  AutoColumns = {work}
  Configured = {}
  NoColumn = NoColumn
  NoCard = NoCard
  NoPane = NoPane
  MaxAutoHops = 1
  MaxCards = 2
  Spaces = {s1}
  BadColumns = {}
  TimedColumns = {}
  MaxConcurrent = 1
  Ops = {"retry", "pane_dies", "reconcile"}
  MaxRuns = 2
  MaxRows = 1
  MaxPanes = 4
  MaxPending = 1
  MaxCrashes = 1
  InitColumn <- MCTwoWorkCards
  BoardOf <- MCBoardOf
  OnSuccess <- MCOnSuccess
  OnFail <- MCOnFail

PROPERTIES
  HeadIsServed
  DeadPaneCloses

CHECK_DEADLOCK FALSE

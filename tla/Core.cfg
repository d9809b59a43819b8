SPECIFICATION Spec

CONSTANTS
  todo = todo
  work = work
  review = review
  side = side
  main = main
  other = other
  Columns = {work, review}
  Boards = {main}
  AutoColumns = {work, review}
  Configured = {}
  NoColumn = NoColumn
  NoCard = NoCard
  NoPane = NoPane
  MaxAutoHops = 1
  MaxCards = 2
  Spaces = {s1}
  BadColumns = {}
  TimedColumns = {}
  MaxConcurrent = 2
  Ops = {"move", "done", "cancel", "spawn_fails"}
  MaxRuns = 3
  MaxRows = 1
  MaxPanes = 3
  MaxPending = 1
  MaxCrashes = 0
  InitColumn <- MCTwoWorkCards
  BoardOf <- MCBoardOf
  OnSuccess <- MCOnSuccess
  OnFail <- MCOnFail

INVARIANTS
  OneOpenRunPerCard
  StatusMatchesRun
  SpaceExclusive
  HopCounterCovers
  NoLostWake
  PanesAccounted

CHECK_DEADLOCK FALSE

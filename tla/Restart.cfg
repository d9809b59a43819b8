SPECIFICATION Spec

CONSTANTS
  todo = todo
  work = work
  review = review
  side = side
  main = main
  other = other
  Columns = {todo, work, review}
  Boards = {main}
  AutoColumns = {work, review}
  Configured = {}
  NoColumn = NoColumn
  NoCard = NoCard
  NoPane = NoPane
  MaxAutoHops = 1
  MaxCards = 2
  Spaces = {s1, s2}
  BadColumns = {review}
  TimedColumns = {}
  MaxConcurrent = 1
  Ops = {"create", "duplicate", "delete", "update", "reconcile", "pane_dies"}
  MaxRuns = 2
  MaxRows = 2
  MaxPanes = 2
  MaxPending = 1
  MaxCrashes = 1
  InitColumn <- MCOneCard
  BoardOf <- MCBoardOf
  OnSuccess <- MCOnSuccess
  OnFail <- MCOnFail

INVARIANTS
  TypeOK
  ConcurrencyCap

PROPERTIES
  ImplementsRunProtocol

CHECK_DEADLOCK FALSE

SPECIFICATION Spec

CONSTANTS
  todo = todo
  work = work
  review = review
  side = side
  main = main
  other = other
  Columns = {todo, work, side}
  Boards = {main, other}
  AutoColumns = {work, side}
  Configured = {work}
  NoColumn = NoColumn
  NoCard = NoCard
  NoPane = NoPane
  MaxAutoHops = 1
  MaxCards = 1
  Spaces = {s1}
  BadColumns = {}
  TimedColumns = {work}
  MaxConcurrent = 2
  Ops = {"move", "done", "pane_exited", "retry", "archive", "board_archive", "signal", "pane_dies", "pane_event"}
  MaxRuns = 2
  MaxRows = 1
  MaxPanes = 2
  MaxPending = 1
  MaxCrashes = 0
  InitColumn <- MCOneCard
  BoardOf <- MCBoardOf
  OnSuccess <- MCOnSuccess
  OnFail <- MCOnFail

INVARIANTS
  ArchivedCardQuiet
  ArchivedBoardQuiet

PROPERTIES
  TimeoutAgreesWithEngine

CHECK_DEADLOCK FALSE

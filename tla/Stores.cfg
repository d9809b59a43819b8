SPECIFICATION StoreSpec

SYMMETRY Symmetry

CONSTANTS
  Boards = {1, 2}
  MaxColumns = 3
  MaxCards = 2
  MaxRuns = 1
  MaxTargets = 1
  Folders = {1, 2}
  MaxBoards = 3
  RecentCap = 2
  Renamable = {1}
  Clients = {c1, c2}
  Starts = {0, 1, 2, 3, 4, 5, 6, 7, 8, 9, 10, 11, 12, 13, 14, 15, 16}
  MaxStops = 2
  Cases = {k1, k2}
  Shells = {s1, s2}
  MaxStints = 2
  MaxSnapshots = 3
  MaxErased = 1
  Issues = {i1, i2}
  NoIssue = ni
  Worktrees = {w1, w2}
  NoWorktree = nw
  Owners = {o1}
  Anonymous = an
  Listed = {i1}
  Keep = 1
  MaxMarks = 2
  MaxNotes = 1
  Askers = {o1}
  Wanted = {i1, i2}
  TTL = 1
  MaxTime = 3
  MaxRequests = 3
  Nil = nil
  Columns = {1, 2}
  Cards = {e1, e2, e3}
  Archivable = {e3}
  MaxChanges = 2
  MaxIssues = 3
  MaxEdits = 1
  Absent = nil
  Unset = nil
  Custom = custom
  Builtin <- BuiltinNames
  Own <- OwnNames
  Default <- DefaultCaps
  Unknown <- UnknownCaps
  Served <- ServedCaps
  Checked <- CheckedCaps
  Spaces <- Workspaces
  Running <- Sessions
  Texts <- Typed
  StoredCards <- SomeCards
  StoredColumns <- SomeColumns
  MaxKeys = 2

INVARIANTS
  TablesTypeOK
  BoardBoundary
  GuardedOpenRecovers
  HistoryEndsInComment
  OneHolder
  OnePendingPerOwner
  EscapesToBoard
  GroupsAsDefined

PROPERTIES
  SelectedResolves
  CommitKeepsOrder
  CursorKept
  OnlyTouchedChange

CHECK_DEADLOCK FALSE

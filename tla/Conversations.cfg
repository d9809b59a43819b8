SPECIFICATION TalkSpec

SYMMETRY Symmetry

CONSTANTS
  Readers = {r1}
  Worker = w
  Projects = {p1, p2}
  Unbound = u
  TTL = 1
  MaxNow = 1
  MaxChanges = 3
  CanUnbind = TRUE
  Modes = {"board", "linear"}
  RingSize = 1
  OutboxSize = 1
  MaxWrites = 2
  MaxCrashes = 1
  Issues = {i1, i2}
  NoIssue = ni
  StackMax = 1
  MaxIssueReads = 4
  Focusers = {f1, f2}
  MaxPanes = 5
  MaxRuns = 2
  MaxActs = 2
  Panes = {q1, q2}
  Tasks = {t1}
  SocketOf <- OneSession
  MaxBreaks = 1
  Commands = {c1, c2}
  MaxDaemons = 2
  StartRetries = 1
  PromptRetries = 1
  Nil = nil
  Agents = {a1, a2}
  Contexts = {"card"}
  Sessions = {1, 2}
  MaxBorn <- BornSizes
  MaxStops = 1

INVARIANTS
  NoStrandedWaiter
  ReadsSeeReports
  NoWriteUnseen
  NoStuckPage
  OneRescuePane
  NoMissedExit
  ToldOnce
  OneBoardPane

PROPERTIES
  RefetchFollowsReport
  NoOlderCopy
  ClosesOnlySpent
  ServedPathIsMine

CHECK_DEADLOCK FALSE

----------------------------- MODULE IssuePage -----------------------------
(***************************************************************************)
(* The issue page of the Linear board and of the session pane: which issue *)
(* is open, the document read for it, the walk through linked issues and   *)
(* back, and the reads that land in any order (board-tui/src/app/linear.rs *)
(* and session.rs). A document is known by the issue it describes and the  *)
(* read that brought it.                                                   *)
(***************************************************************************)
EXTENDS Integers, Sequences, FiniteSets, SequencesExt

CONSTANTS
  Issues, NoIssue,
  StackMax,     \* DETAIL_STACK_MAX: pages Esc can walk back
  MaxIssueReads \* bound: issue reads started

VARIABLES
  pane,       \* "board" or "session", fixed when the program starts
  listed,     \* the issues of the last snapshot
  screen,     \* "board", "page" or "error": the screen under any overlay
  page,       \* detail: the issue open, or NoIssue
  seeded,     \* detail_seed: the page was reached off the board
  doc,        \* detail_doc, or NoDoc
  failed,     \* detail_error: the issue whose read failed, or NoIssue
  retryable,  \* that failure can be asked again
  walk,       \* detail_stack, oldest first
  loading,    \* detail_in_flight, or NoDoc
  reads,    \* detail_reads
  running     \* reads sent and not landed

pageVars == <<pane, listed, screen, page, seeded, doc, failed, retryable, walk, loading,
              reads, running>>

Reading == [issue : Issues, read : 1..MaxIssueReads]
NoDoc == [issue |-> NoIssue, read |-> 0]

PageTypeOK ==
  /\ pane \in {"board", "session"} /\ listed \subseteq Issues
  /\ screen \in {"board", "page", "error"}
  /\ page \in Issues \cup {NoIssue} /\ seeded \in BOOLEAN
  /\ screen = "page" => page # NoIssue
  /\ screen = "board" => page = NoIssue
  /\ doc \in Reading \cup {NoDoc} /\ loading \in Reading \cup {NoDoc}
  /\ failed \in Issues \cup {NoIssue} /\ retryable \in BOOLEAN
  /\ walk \in Seq([issue : Issues, doc : Reading \cup {NoDoc}, seeded : BOOLEAN])
  /\ Len(walk) <= StackMax
  /\ reads \in 0..MaxIssueReads /\ running \subseteq Reading

PageInit ==
  /\ pane \in {"board", "session"}
  /\ listed = {} /\ screen = "board"
  /\ page = NoIssue /\ seeded = FALSE
  /\ doc = NoDoc /\ failed = NoIssue /\ retryable = FALSE
  /\ walk = <<>> /\ loading = NoDoc
  /\ reads = 0 /\ running = {}

-----------------------------------------------------------------------------
(* request_issue: a read of the issue, unless one is in flight for it. `d'  *)
(* is the document the page holds when the read is asked for.              *)

RequestIssue(i, d, error) ==
  IF loading.issue = i
    THEN /\ doc' = d /\ failed' = error
         /\ UNCHANGED <<loading, reads, running>>
    ELSE /\ reads < MaxIssueReads
         /\ reads' = reads + 1
         /\ loading' = [issue |-> i, read |-> reads']
         /\ running' = running \cup {loading'}
         /\ doc' = IF d.issue = i THEN d ELSE NoDoc
         /\ failed' = NoIssue

\* Enter on a card of the board.
OpenCard(i) ==
  /\ pane = "board" /\ screen = "board" /\ i \in listed
  /\ page' = i /\ screen' = "page"
  /\ walk' = <<>> /\ seeded' = FALSE
  /\ RequestIssue(i, doc, failed)
  /\ UNCHANGED <<pane, listed, retryable>>

\* show_target: an accepted request, or the landing of an agent's board, whose
\* issue no tab draws.
ShowTarget(i) ==
  /\ pane = "board" /\ screen = "board"
  /\ page' = i /\ screen' = "page"
  /\ walk' = <<>> /\ seeded' = TRUE
  /\ RequestIssue(i, NoDoc, NoIssue)
  /\ UNCHANGED <<pane, listed, retryable>>

\* Enter on a sub-issue, parent or relation of the open document.
OpenLinked(i) ==
  /\ pane = "board" /\ screen = "page"
  /\ doc.issue = page /\ i # page
  /\ LET step == [issue |-> page, doc |-> doc, seeded |-> seeded]
         steps == Append(walk, step)
     IN walk' = IF Len(steps) > StackMax THEN Tail(steps) ELSE steps
  /\ page' = i /\ seeded' = TRUE
  /\ RequestIssue(i, NoDoc, NoIssue)
  /\ UNCHANGED <<pane, listed, screen, retryable>>

\* Esc with a page behind this one: what it last showed, and a fresh read.
StepBack ==
  /\ pane = "board" /\ screen = "page" /\ walk # <<>>
  /\ LET step == Last(walk)
     IN /\ page' = step.issue /\ seeded' = step.seeded
        /\ RequestIssue(step.issue, step.doc, NoIssue)
  /\ walk' = Front(walk)
  /\ UNCHANGED <<pane, listed, screen, retryable>>

\* Esc on the first page.
LeavePage ==
  /\ pane = "board" /\ screen = "page" /\ walk = <<>>
  /\ page' = NoIssue /\ screen' = "board"
  /\ doc' = NoDoc /\ failed' = NoIssue /\ loading' = NoDoc /\ seeded' = FALSE
  /\ UNCHANGED <<pane, listed, retryable, walk, reads, running>>

\* `r' on a page whose read failed.
RetryRead ==
  /\ pane = "board" /\ screen = "page"
  /\ failed = page /\ page # NoIssue /\ retryable
  /\ RequestIssue(page, doc, failed)
  /\ UNCHANGED <<pane, listed, screen, page, seeded, retryable, walk>>

\* Esc on the error screen goes back to what was under it.
HomeScreen(p) == IF p = NoIssue THEN "board" ELSE "page"

CloseError ==
  /\ pane = "board" /\ screen = "error"
  /\ screen' = HomeScreen(page)
  /\ UNCHANGED <<pane, listed, page, seeded, doc, failed, retryable, walk, loading,
                 reads, running>>

\* A snapshot lands: `clamp' closes a page reached from the board whose issue
\* is no longer on it. A failed one shows its error.
SnapshotLands(issues) ==
  /\ pane = "board"
  /\ listed' = issues
  /\ page' = IF ~seeded /\ page \notin issues THEN NoIssue ELSE page
  /\ screen' = HomeScreen(page')
  /\ UNCHANGED <<pane, seeded, doc, failed, retryable, walk, loading, reads, running>>

SnapshotFails ==
  /\ pane = "board"
  /\ screen' = "error"
  /\ UNCHANGED <<pane, listed, page, seeded, doc, failed, retryable, walk, loading,
                 reads, running>>

\* follow_issue of the session pane, after its session read or a snapshot: the
\* page of the issue its worktree is bound to, read once unless its document
\* or its failure is on the page.
FollowIssue(bound, issues) ==
  /\ pane = "session" /\ listed' = issues
  /\ page' = bound /\ screen' = HomeScreen(bound)
  /\ LET error == IF bound # NoIssue /\ page # bound THEN NoIssue ELSE failed
         have == bound = NoIssue \/ doc.issue = bound \/ error = bound
     IN IF have
          THEN /\ failed' = error
               /\ UNCHANGED <<doc, loading, reads, running>>
          ELSE RequestIssue(bound, doc, error)
  /\ seeded' = (bound # NoIssue /\ bound \notin issues)
  /\ UNCHANGED <<pane, retryable, walk>>

-----------------------------------------------------------------------------
(* issue_arrived: a read lands. It is dropped when its issue is not on the  *)
(* page, or when a newer read of it was started since.                     *)

\* Mutant of IssueArrives: the issue alone decides whether a read is current.
IssueArrivesByName(r, ok, again) ==
  /\ r \in running
  /\ running' = running \ {r}
  /\ loading' = IF page = r.issue \/ loading = r THEN NoDoc ELSE loading
  /\ doc' = IF page = r.issue /\ ok THEN r ELSE doc
  /\ failed' = IF page # r.issue THEN failed ELSE IF ok THEN NoIssue ELSE page
  /\ retryable' = IF page = r.issue /\ ~ok THEN again ELSE retryable
  /\ UNCHANGED <<pane, listed, screen, page, seeded, walk, reads>>

\* Mutant of IssueArrives: a landed read that fails is forgotten.
IssueArrivesForgotten(r, ok, again) ==
  /\ r \in running /\ again \in BOOLEAN
  /\ running' = running \ {r}
  /\ loading' = IF loading = r THEN NoDoc ELSE loading
  /\ doc' = IF page = r.issue /\ loading = r /\ ok THEN r ELSE doc
  /\ UNCHANGED <<pane, listed, screen, page, seeded, walk, reads, failed, retryable>>

IssueArrives(r, ok, again) ==
  LET current == loading.read = r.read
      applies == page = r.issue /\ current
  IN /\ r \in running
     /\ running' = running \ {r}
     /\ loading' = IF current THEN NoDoc ELSE loading
     /\ doc' = IF applies /\ ok THEN r ELSE doc
     /\ failed' = IF ~applies THEN failed ELSE IF ok THEN NoIssue ELSE page
     /\ retryable' = IF applies /\ ~ok THEN again ELSE retryable
     /\ UNCHANGED <<pane, listed, screen, page, seeded, walk, reads>>

PageNext ==
  \/ \E i \in Issues : OpenCard(i) \/ ShowTarget(i) \/ OpenLinked(i)
  \/ StepBack \/ LeavePage \/ RetryRead \/ CloseError \/ SnapshotFails
  \/ \E issues \in SUBSET Issues : SnapshotLands(issues)
  \/ \E i \in Issues \cup {NoIssue}, issues \in SUBSET Issues : FollowIssue(i, issues)
  \/ \E r \in running, ok, again \in BOOLEAN : IssueArrives(r, ok, again)

PageSpec == PageInit /\ [][PageNext]_pageVars

-----------------------------------------------------------------------------
(* Properties.                                                             *)

\* An open page always has something to say: its issue's document, its
\* issue's failure, or a read of its issue that is still running. A read
\* dropped as stale never leaves a page loading for good.
NoStuckPage ==
  page # NoIssue =>
    \/ doc.issue = page
    \/ /\ doc.issue = NoIssue
       /\ failed = page \/ (loading.issue = page /\ loading \in running)

\* While a page stays open its document is replaced only by that of a read
\* started later, however many reads of the issue overlap.
NoOlderCopy ==
  [][(page' = page /\ page # NoIssue /\ Len(walk') = Len(walk) /\ doc.issue = page /\ doc' # doc)
       => doc'.issue = page /\ doc'.read > doc.read]_pageVars
=============================================================================

---------------------------- MODULE LinearLinks ----------------------------
(***************************************************************************)
(* Linear-mode local state of one space of one herdr session: which        *)
(* worktree is linked to which issue, and the marks, suggestions, notes    *)
(* and recorded activity on issues. Each action is one unit of work of     *)
(* db/linear_writes.rs, run under the store lock, and what ops/            *)
(* linear_state.rs announces of it; LinkImport is import.rs.                *)
(*                                                                         *)
(* Row ids are SQLite's: one more than the highest row id of the table, so *)
(* the id of a deleted newest row is given out again. `seen' is the list   *)
(* of marks a board drew from its last linear.state.get.                   *)
(***************************************************************************)
EXTENDS Integers, FiniteSets, Sequences, SequencesExt, TLC

CONSTANTS
  Issues, NoIssue,
  Worktrees, NoWorktree,
  Owners,        \* callers that name themselves
  Anonymous,     \* the owner of a caller that names nothing
  Listed,        \* the issues the space's cached Linear read lists
  Keep,          \* rows of activity kept per space
  MaxMarks,      \* bound: marks ever set
  MaxNotes       \* bound: notes at one time

VARIABLES
  spaceBound,   \* the space has a Linear project
  held,         \* the issue each worktree is bound to, or NoIssue
  marks,        \* rows of linear_marks
  notes,        \* rows of linear_notes, as <<issue, author>>
  activity,     \* issues (or NoIssue) of the kept activity rows, oldest first
  seen,         \* the marks a board last read
  written       \* history: marks ever set, which tells a reused id's rows apart

vars == <<spaceBound, held, marks, notes, activity, seen, written>>

Authors == Owners \cup {Anonymous}
Mark == [id : 1..MaxMarks, issue : Issues, kind : {"attention", "suggestion"},
         owner : Authors, names : Worktrees \cup {NoWorktree}, at : 1..MaxMarks]

TypeOK ==
  /\ spaceBound \in BOOLEAN
  /\ held \in [Worktrees -> Issues \cup {NoIssue}]
  /\ marks \subseteq Mark
  /\ notes \subseteq Issues \X Authors
  /\ activity \in Seq(Issues \cup {NoIssue}) /\ Len(activity) <= Keep
  /\ seen \subseteq Mark
  /\ written \in 0..MaxMarks

Init ==
  /\ spaceBound = FALSE
  /\ held = [w \in Worktrees |-> NoIssue]
  /\ marks = {}
  /\ notes = {}
  /\ activity = <<>>
  /\ seen = {}
  /\ written = 0

-----------------------------------------------------------------------------
(* Queries and helpers.                                                    *)

NextId(rows) == IF rows = {} THEN 1 ELSE Max({r.id : r \in rows}) + 1

\* issue_has_local_state, or listed by the cached read.
Known(i) ==
  \/ i \in Listed
  \/ \E w \in Worktrees : held[w] = i
  \/ Contains(activity, i)

HeldBy(w) == IF w = NoWorktree THEN NoIssue ELSE held[w]
HeldElsewhere(i, w) == \E x \in Worktrees \ {w} : held[x] = i

-----------------------------------------------------------------------------
(* Mutants: definitions a bug could have left in place of those below.     *)

\* Mutant of LinkImport: an import that looks at the worktree's row only.
LinkUnchecked(w, i) ==
  /\ held[w] = NoIssue
  /\ held' = [held EXCEPT ![w] = i]
  /\ UNCHANGED <<spaceBound, marks, notes, activity, seen, written>>

-----------------------------------------------------------------------------
(* Writes of rows.                                                         *)

set_space_binding == spaceBound' = TRUE
set_worktree_binding(w, i) == held' = [held EXCEPT ![w] = i]
add_mark(kept, mark) == marks' = kept \cup {[id |-> NextId(kept)] @@ mark}
add_note(i, author) == notes' = notes \cup {<<i, author>>}

\* The row is kept, the oldest beyond Keep goes.
record_activity(i) ==
  LET rows == Append(activity, i) IN activity' = IF Len(rows) > Keep THEN Tail(rows) ELSE rows

\* replace_mark: the owner's mark of that kind on the issue goes, then a row
\* is inserted.
ReplaceMark(i, kind, owner, names) ==
  LET kept == {m \in marks : ~(m.issue = i /\ m.kind = kind /\ m.owner = owner)}
  IN /\ written < MaxMarks
     /\ written' = written + 1
     /\ add_mark(kept, [issue |-> i, kind |-> kind, owner |-> owner, names |-> names,
                        at |-> written + 1])

\* clear_suggestions_naming: every suggestion on the issue goes when one of
\* them names the worktree.
AfterBind(i, w) ==
  LET suggestions == {m \in marks : m.issue = i /\ m.kind = "suggestion"}
  IN IF \E m \in suggestions : m.names = w THEN marks \ suggestions ELSE marks

-----------------------------------------------------------------------------
(* Requests.                                                               *)

SpaceBind ==
  /\ set_space_binding
  /\ UNCHANGED <<held, marks, notes, activity, seen, written>>

\* linear.bind, refused while another worktree holds the issue.
Bind(w, i) ==
  /\ ~HeldElsewhere(i, w)
  /\ set_worktree_binding(w, i)
  /\ marks' = AfterBind(i, w)
  /\ UNCHANGED <<spaceBound, notes, activity, seen, written>>

Unbind(w) ==
  /\ held[w] # NoIssue
  /\ held' = [held EXCEPT ![w] = NoIssue]
  /\ UNCHANGED <<spaceBound, marks, notes, activity, seen, written>>

\* linear.mark.set; a caller that names nothing owns with the other nameless.
MarkSet(i, owner) ==
  /\ Known(i)
  /\ ReplaceMark(i, "attention", owner, NoWorktree)
  /\ UNCHANGED <<spaceBound, held, notes, activity, seen>>

\* linear.mark.unmark needs an owner and takes only that owner's marks.
Unmark(i, owner) ==
  /\ owner # Anonymous
  /\ marks' = {m \in marks : ~(m.issue = i /\ m.owner = owner)}
  /\ marks' # marks
  /\ UNCHANGED <<spaceBound, held, notes, activity, seen, written>>

\* linear.state.get of a board.
ReadMarks ==
  /\ seen' = marks
  /\ UNCHANGED <<spaceBound, held, marks, notes, activity, written>>

\* linear.mark.clear {ids}: opening an issue's page clears the marks the board
\* shows on it, by id, suggestions excepted.
ClearShown(i) ==
  /\ LET ids == {m.id : m \in {n \in seen : n.issue = i /\ n.kind # "suggestion"}}
     IN /\ ids # {}
        /\ marks' = {m \in marks : m.id \notin ids}
  /\ UNCHANGED <<spaceBound, held, notes, activity, seen, written>>

\* linear.mark.clear {id}, which the board sends to dismiss a suggestion.
DismissSuggestion(m) ==
  /\ m \in seen
  /\ m.kind = "suggestion"
  /\ \E n \in marks : n.id = m.id
  /\ marks' = {n \in marks : n.id # m.id}
  /\ UNCHANGED <<spaceBound, held, notes, activity, seen, written>>

NoteSet(i, author) ==
  /\ Known(i)
  /\ Cardinality(notes \cup {<<i, author>>}) <= MaxNotes
  /\ add_note(i, author)
  /\ UNCHANGED <<spaceBound, held, marks, activity, seen, written>>

NoteClear(n) ==
  /\ n \in notes
  /\ notes' = notes \ {n}
  /\ UNCHANGED <<spaceBound, held, marks, activity, seen, written>>

\* linear.activity.record: a save_issue reported from a pane of a bound space links the session's
\* unbound worktree to an issue nobody holds; otherwise it leaves a
\* suggestion, unless the worktree is bound to the issue already.
Record(i, saves, pane, w) ==
  LET proposes == saves /\ i # NoIssue /\ HeldBy(w) # i
      links == /\ proposes /\ pane /\ spaceBound
               /\ w # NoWorktree /\ HeldBy(w) = NoIssue /\ ~HeldElsewhere(i, w)
  IN /\ record_activity(i)
     /\ IF links THEN set_worktree_binding(w, i) ELSE UNCHANGED held
     /\ IF proposes /\ ~links
          THEN ReplaceMark(i, "suggestion", Anonymous, w)
          ELSE /\ marks' = IF links THEN AfterBind(i, w) ELSE marks
               /\ UNCHANGED written
     /\ UNCHANGED <<spaceBound, notes, seen>>

\* linear.import of one binding record of the work store. A whole import is a
\* run of these: a record is skipped where the board has a row already, and
\* an import that fails part way leaves the records it has written.
LinkImport(w, i) ==
  /\ held[w] = NoIssue
  /\ ~HeldElsewhere(i, w)
  /\ set_worktree_binding(w, i)
  /\ UNCHANGED <<spaceBound, marks, notes, activity, seen, written>>

SpaceImport ==
  /\ ~spaceBound
  /\ set_space_binding
  /\ UNCHANGED <<held, marks, notes, activity, seen, written>>

Next ==
  \/ \E i \in Issues : ClearShown(i)
  \/ SpaceBind \/ SpaceImport \/ ReadMarks
  \/ \E w \in Worktrees : Unbind(w) \/ \E i \in Issues : Bind(w, i) \/ LinkImport(w, i)
  \/ \E i \in Issues, o \in Authors : MarkSet(i, o) \/ Unmark(i, o) \/ NoteSet(i, o)
  \/ \E m \in seen : DismissSuggestion(m)
  \/ \E n \in notes : NoteClear(n)
  \/ \E i \in Issues \cup {NoIssue}, saves, pane \in BOOLEAN, w \in Worktrees \cup {NoWorktree} :
       Record(i, saves, pane, w)

Spec == Init /\ [][Next]_vars

-----------------------------------------------------------------------------
(* Properties.                                                             *)

\* An issue is held by one worktree at most, whether it was bound by a person,
\* linked from a report, or imported.
OneHolder ==
  \A w, x \in Worktrees : held[w] = held[x] /\ held[w] # NoIssue => w = x
=============================================================================

----------------------------- MODULE Selection -----------------------------
(***************************************************************************)
(* The persistent context: which project and, per project, which board is  *)
(* selected, the recency lists the fallbacks read, and the archives that   *)
(* take projects and boards out of them.  A request that selects checks    *)
(* the archive flags under one acquisition of the store's lock and writes  *)
(* under the next: another client's request may come between.              *)
(*                                                                         *)
(* Projects are numbered in the order of the fallback, by path with Global *)
(* last.  Left out: names other than `main`; the open runs that refuse an  *)
(* archive, which RunLifecycle models.                                     *)
(***************************************************************************)
EXTENDS Naturals, SequencesExt

CONSTANTS
    Folders,     \* the projects, 1..n in fallback order; the last is Global
    MaxBoards,   \* board rows the instance reaches; boards are never deleted
    RecentCap,   \* entries a recency list keeps (3 in the code)
    Renamable,   \* the boards the instance renames
    Clients

VARIABLES
    proj,       \* project -> "absent", "active" or "archived"
    bds,        \* board id -> [proj, main, archived]
    selection,  \* the selected project
    chosen,     \* project -> its selected board
    recentP,    \* recently selected projects, latest first
    recentB,    \* project -> its recently selected boards, latest first
    asked       \* client -> the selecting request that passed its check

selVars == <<proj, bds, selection, chosen, recentP, recentB, asked>>

Nobody == 0
Global == Max(Folders)
NoAsk  == [op |-> "none", p |-> Nobody, b |-> Nobody]

SelInit ==
    /\ proj = [p \in Folders |-> IF p = Global THEN "active" ELSE "absent"]
    /\ bds = <<[proj |-> Global, main |-> TRUE, archived |-> FALSE]>>
    /\ selection = Nobody
    /\ chosen = [p \in Folders |-> Nobody]
    /\ recentP = << >>
    /\ recentB = [p \in Folders |-> << >>]
    /\ asked = [c \in Clients |-> NoAsk]

----------------------------------------------------------------------------
BoardsOf(p)     == {b \in DOMAIN bds : bds[b].proj = p}
ActiveOf(rows, p) == {b \in DOMAIN rows : rows[b].proj = p /\ ~rows[b].archived}
ActiveIn(p)     == ActiveOf(bds, p)
FirstOf(S)      == IF S = {} THEN Nobody ELSE Min(S)
FirstIn(seq, S) == LET hits == {i \in 1 .. Len(seq) : seq[i] \in S}
                   IN IF hits = {} THEN Nobody ELSE seq[Min(hits)]

touch_recency(seq, x) ==
    LET moved == <<x>> \o SelectSeq(seq, LAMBDA y : y # x)
    IN SubSeq(moved, 1, IF Len(moved) < RecentCap THEN Len(moved) ELSE RecentCap)

\* Every writer of the context writes both selections and both recencies.
write_selection_tx(was, p, b) ==
    /\ selection' = p
    /\ chosen' = [was EXCEPT ![p] = b]
    /\ recentP' = touch_recency(recentP, p)
    /\ recentB' = [recentB EXCEPT ![p] = touch_recency(@, b)]

main_board(p) ==
    LET main == {b \in ActiveIn(p) : bds[b].main}
    IN IF main # {} THEN FirstOf(main) ELSE FirstOf(ActiveIn(p))

\* The selected board, else the latest active one, else `main`, else the first.
project_context_board(p) ==
    LET recent == FirstIn(recentB[p], ActiveIn(p) \ {chosen[p]})
    IN IF chosen[p] \in ActiveIn(p) THEN chosen[p]
       ELSE IF chosen[p] # Nobody /\ recent # Nobody THEN recent
       ELSE main_board(p)

\* The latest active project that has an active board, else the first such.
find_active_project_fallback_tx(rows) ==
    LET usable == {p \in Folders : proj[p] = "active" /\ ActiveOf(rows, p) # {}}
        recent == FirstIn(recentP, usable)
    IN IF recent # Nobody THEN recent ELSE FirstOf(usable)

KeepContext == UNCHANGED <<selection, chosen, recentP, recentB>>

\* A request that takes the store's lock once: its client has no other.
SomeClientIdle == \E c \in Clients : asked[c] = NoAsk

----------------------------------------------------------------------------
NextBoard == Len(bds) + 1
WithBoard(p, main) == Append(bds, [proj |-> p, main |-> main, archived |-> FALSE])

\* project.create: the project is new; it and its board `main` are selected.
CreateProject(p) ==
    /\ SomeClientIdle
    /\ proj[p] = "absent" /\ NextBoard <= MaxBoards
    /\ proj' = [proj EXCEPT ![p] = "active"]
    /\ bds' = WithBoard(p, TRUE)
    /\ write_selection_tx(chosen, p, NextBoard)
    /\ UNCHANGED asked

\* board.open of a new scope: the project is created, nothing is selected.
OpenBoard(p) ==
    /\ SomeClientIdle
    /\ proj[p] = "absent" /\ NextBoard <= MaxBoards
    /\ proj' = [proj EXCEPT ![p] = "active"]
    /\ bds' = WithBoard(p, TRUE)
    /\ KeepContext /\ UNCHANGED asked

CreateBoard(p) ==
    /\ SomeClientIdle
    /\ proj[p] = "active" /\ NextBoard <= MaxBoards
    /\ bds' = WithBoard(p, FALSE)
    /\ write_selection_tx(chosen, p, NextBoard)
    /\ UNCHANGED <<proj, asked>>

\* A board loses the name `main`, or takes it when no sibling has it.
RenameBoard(b) ==
    /\ SomeClientIdle
    /\ bds[b].main \/ \A x \in BoardsOf(bds[b].proj) : ~bds[x].main
    /\ bds' = [bds EXCEPT ![b].main = ~@]
    /\ KeepContext /\ UNCHANGED <<proj, asked>>

----------------------------------------------------------------------------
\* A mutant: a project without an active board stays selected.
ReselectHere(rows, p) ==
    LET active == ActiveOf(rows, p)
        recent == FirstIn(recentB[p], active)
    IN IF active # {}
       THEN write_selection_tx(chosen, p, IF recent # Nobody THEN recent ELSE FirstOf(active))
       ELSE /\ chosen' = [chosen EXCEPT ![p] = Nobody]
            /\ UNCHANGED <<selection, recentP, recentB>>

\* The selected board of a project is archived: the project falls back to its
\* latest other active board, else to its first; without one the project loses
\* its selected board and, if it was selected, the context moves on.
Reselect(rows, p) ==
    LET active  == ActiveOf(rows, p)
        recent  == FirstIn(recentB[p], active)
        lost    == [chosen EXCEPT ![p] = Nobody]
        project == find_active_project_fallback_tx(rows)
        landing == FirstOf(ActiveOf(rows, project))
    IN \/ /\ active # {}
          /\ write_selection_tx(chosen, p, IF recent # Nobody THEN recent ELSE FirstOf(active))
       \/ /\ active = {} /\ selection # p
          /\ chosen' = lost
          /\ UNCHANGED <<selection, recentP, recentB>>
       \/ /\ active = {} /\ selection = p /\ landing # Nobody
          /\ write_selection_tx(lost, project, landing)
       \/ /\ active = {} /\ selection = p /\ landing = Nobody
          /\ chosen' = lost /\ selection' = Nobody
          /\ UNCHANGED <<recentP, recentB>>

ArchiveBoard(b) ==
    /\ SomeClientIdle
    /\ ~bds[b].archived
    /\ bds' = [bds EXCEPT ![b].archived = TRUE]
    /\ IF chosen[bds[b].proj] = b THEN Reselect(bds', bds[b].proj) ELSE KeepContext
    /\ UNCHANGED <<proj, asked>>

RestoreBoard(b) ==
    /\ SomeClientIdle
    /\ bds[b].archived
    /\ bds' = [bds EXCEPT ![b].archived = FALSE]
    /\ KeepContext /\ UNCHANGED <<proj, asked>>

\* Only a project other than Global and without an active board is archived.
ArchiveProject(p) ==
    LET project == find_active_project_fallback_tx(bds)
        landing == FirstOf(ActiveIn(project))
    IN /\ SomeClientIdle
       /\ p # Global /\ proj[p] = "active" /\ ActiveIn(p) = {}
       /\ proj' = [proj EXCEPT ![p] = "archived"]
       /\ IF selection # p THEN KeepContext
          ELSE IF landing # Nobody THEN write_selection_tx(chosen, project, landing)
          ELSE selection' = Nobody /\ UNCHANGED <<chosen, recentP, recentB>>
       /\ UNCHANGED <<bds, asked>>

RestoreProject(p) ==
    /\ SomeClientIdle
    /\ proj[p] = "archived"
    /\ proj' = [proj EXCEPT ![p] = "active"]
    /\ KeepContext /\ UNCHANGED <<bds, asked>>

----------------------------------------------------------------------------
\* The check of a selecting request, under the first acquisition of the lock.
Ask(c, request) ==
    /\ asked[c] = NoAsk
    /\ asked' = [asked EXCEPT ![c] = request]
    /\ KeepContext /\ UNCHANGED <<proj, bds>>

AskOpen(c, p) ==
    /\ proj[p] # "archived"
    /\ Ask(c, [op |-> "open", p |-> p, b |-> Nobody])

AskProject(c, p, b) ==
    /\ proj[p] = "active"
    /\ b = Nobody \/ (b \in DOMAIN bds /\ ~bds[b].archived)
    /\ Ask(c, [op |-> "project", p |-> p, b |-> b])

AskBoard(c, b) ==
    /\ ~bds[b].archived /\ proj[bds[b].proj] = "active"
    /\ Ask(c, [op |-> "board", p |-> bds[b].proj, b |-> b])

\* The write, under the next acquisition: project.open creates the project it
\* does not find; each refuses when there is no board to land on, and
\* project.select when the board is of another project.
Answered(c) == asked' = [asked EXCEPT ![c] = NoAsk]

open_project_context(c, p) ==
    /\ asked[c].op = "open" /\ asked[c].p = p
    /\ Answered(c)
    /\ \/ /\ proj[p] = "absent" /\ NextBoard <= MaxBoards
          /\ proj' = [proj EXCEPT ![p] = "active"]
          /\ bds' = WithBoard(p, TRUE)
          /\ write_selection_tx(chosen, p, NextBoard)
       \/ /\ proj[p] # "absent" /\ project_context_board(p) # Nobody
          /\ write_selection_tx(chosen, p, project_context_board(p))
          /\ UNCHANGED <<proj, bds>>
       \/ /\ proj[p] # "absent" /\ project_context_board(p) = Nobody
          /\ KeepContext /\ UNCHANGED <<proj, bds>>

select_project_by_scope(c, p, b) ==
    LET board == IF b # Nobody THEN b ELSE project_context_board(p)
    IN /\ asked[c] = [op |-> "project", p |-> p, b |-> b]
       /\ Answered(c)
       /\ IF board # Nobody /\ bds[board].proj = p
          THEN write_selection_tx(chosen, p, board)
          ELSE KeepContext
       /\ UNCHANGED <<proj, bds>>

select_board(c, b) ==
    /\ asked[c].op = "board" /\ asked[c].b = b
    /\ Answered(c)
    /\ write_selection_tx(chosen, bds[b].proj, b)
    /\ UNCHANGED <<proj, bds>>

SelNext ==
    \/ \E p \in Folders : CreateProject(p)
    \/ \E p \in Folders : OpenBoard(p)
    \/ \E p \in Folders : CreateBoard(p)
    \/ \E b \in DOMAIN bds \cap Renamable : RenameBoard(b)
    \/ \E b \in DOMAIN bds : ArchiveBoard(b)
    \/ \E b \in DOMAIN bds : RestoreBoard(b)
    \/ \E p \in Folders : ArchiveProject(p)
    \/ \E p \in Folders : RestoreProject(p)
    \/ \E c \in Clients, p \in Folders : AskOpen(c, p)
    \/ \E c \in Clients, p \in Folders, b \in {Nobody} \cup DOMAIN bds : AskProject(c, p, b)
    \/ \E c \in Clients, b \in DOMAIN bds : AskBoard(c, b)
    \/ \E c \in Clients, p \in Folders : open_project_context(c, p)
    \/ \E c \in Clients, p \in Folders, b \in {Nobody} \cup DOMAIN bds :
          select_project_by_scope(c, p, b)
    \/ \E c \in Clients, b \in DOMAIN bds : select_board(c, b)

SelSpec == SelInit /\ [][SelNext]_selVars

----------------------------------------------------------------------------
SelTypeOK ==
    /\ proj \in [Folders -> {"absent", "active", "archived"}]
    /\ Len(bds) <= MaxBoards
    /\ \A b \in DOMAIN bds :
          bds[b] \in [proj : Folders, main : BOOLEAN, archived : BOOLEAN]
    /\ selection \in Folders \cup {Nobody}
    /\ chosen \in [Folders -> 0..MaxBoards]
    /\ Len(recentP) <= RecentCap /\ ToSet(recentP) \subseteq Folders
    /\ \A p \in Folders : /\ Len(recentB[p]) <= RecentCap
                          /\ ToSet(recentB[p]) \subseteq DOMAIN bds
    /\ asked \in [Clients -> [op : {"none", "open", "project", "board"},
                             p : Folders \cup {Nobody}, b : 0..MaxBoards]]

\* The context project.selected answers with, now and after the archives that
\* make it fall back: the selected project has a selected board, and whatever
\* board a project has selected is an active one of its own, and the project
\* is not archived.
Resolves ==
    /\ selection # Nobody => chosen[selection] # Nobody
    /\ \A p \in Folders : chosen[p] # Nobody =>
          /\ proj[p] = "active" /\ chosen[p] \in ActiveIn(p)
          /\ project_context_board(p) \in ActiveIn(p)

\* An archive has come between the check of client c's request and its write.
Overtaken(c) ==
    \/ asked[c].op = "open" /\ proj[asked[c].p] = "archived"
    \/ asked[c].op = "project" /\ proj[asked[c].p] # "active"
    \/ asked[c].op = "project" /\ asked[c].b # Nobody /\ bds[asked[c].b].archived
    \/ asked[c].op = "board" /\ (bds[asked[c].b].archived \/ proj[asked[c].p] # "active")

\* Whatever any number of clients create, rename, archive, restore and select,
\* the context of a fresh store resolves and goes on doing so; the one exception
\* is the write of a request whose check an archive has overtaken, which the
\* code does not repeat; and no request is let through that is overtaken then.
SelectedResolves ==
    /\ Resolves
    /\ [][Resolves => Resolves' \/ \E c \in Clients : Overtaken(c) /\ asked'[c] = NoAsk]_selVars
    /\ [][\A c \in Clients : asked'[c] \in {asked[c], NoAsk} \/ ~Overtaken(c)']_selVars
=============================================================================

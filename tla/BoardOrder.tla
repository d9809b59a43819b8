----------------------------- MODULE BoardOrder -----------------------------
(***************************************************************************)
(* The board screen of the terminal interface, as far as order goes: the   *)
(* snapshot it draws, the selection, the filter, the modes that stage a    *)
(* new place for a column or a card, and the drag of either by the mouse,  *)
(* while other clients change the same board and any call may fail.        *)
(*                                                                         *)
(* The snapshot is never edited: what is staged is a permutation applied   *)
(* when the order is read, and the daemon is told a position at the end.   *)
(* The modals of the interface are in BoardScreens; wheel and geometry are *)
(* left out: the mouse names a column and a place that are drawn.          *)
(***************************************************************************)
EXTENDS Sublists

CONSTANTS
    Columns, Cards,
    Archivable,    \* cards that are archived and restored in the instance
    Nil,           \* None
    MaxChanges     \* changes of the daemon's board, by anybody

\* MoveColumnState and ReorderCardState
MovedColumns == [row : Columns, original : Nat, staged : Nat]
MovedCards   == [row : Cards, column : Columns, original : Nat, staged : Nat]

ASSUME BoardIsFinite == IsFiniteSet(Columns) /\ IsFiniteSet(Cards)
ASSUME NothingMoves  == Nil \notin MovedColumns \cup MovedCards

VARIABLES
    served,    \* the daemon's board: [cols, cards, archived]
    app,       \* struct App: [board, screen, selCol, selCard, filter, moving, reordering]
    changes

orderVars == <<served, app, changes>>

Bottom   == Cardinality(Cards)       \* no position given
Filters == {"active", "all", "archived"}
Least(i, j) == IF i <= j THEN i ELSE j

\* `remove` and `insert` of one element: the others keep their order.
Rotated(order, x, to) ==
    IF x \notin ToSet(order) THEN order
    ELSE LET rest == RemoveFirst(order, x)
         IN InsertAt(rest, 1 + Least(to, Len(rest)), x)

\* A mutant: the two places exchange their elements.
Swapped(order, x, to) ==
    IF x \notin ToSet(order) THEN order
    ELSE LET from == CHOOSE i \in DOMAIN order : order[i] = x
             at   == 1 + Least(to, Len(order) - 1)
         IN [order EXCEPT ![from] = order[at], ![at] = x]

----------------------------------------------------------------------------
(* What is drawn *)

Staged(order, s) == IF s = Nil THEN order ELSE Rotated(order, s.row, s.staged)

ShownColumns(a) == Staged(a.board.cols, a.moving)

Passing(a, c) ==
    LET is == ToSet(a.board.cards[c])
    IN CASE a.filter = "active"   -> is \ a.board.archived
         [] a.filter = "archived" -> is \cap a.board.archived
         [] OTHER                 -> is

\* A mutant of cards_of.
cards_of_swapped(a, c) ==
    LET kept == Kept(a.board.cards[c], Passing(a, c))
    IN IF a.reordering # Nil /\ a.reordering.column = c
       THEN Swapped(kept, a.reordering.row, a.reordering.staged)
       ELSE kept

cards_of(a, c) ==
    LET kept == Kept(a.board.cards[c], Passing(a, c))
    IN IF a.reordering # Nil /\ a.reordering.column = c THEN Staged(kept, a.reordering)
       ELSE kept

col_id_at(a, k) == IF k < Len(ShownColumns(a)) THEN ShownColumns(a)[k + 1] ELSE Nil

SelectedCards(a) == LET c == col_id_at(a, a.selCol)
                    IN IF c = Nil THEN << >> ELSE cards_of(a, c)

selected_card(a) ==
    IF a.selCard < Len(SelectedCards(a)) THEN SelectedCards(a)[a.selCard + 1] ELSE Nil

Pred(n) == IF n = 0 THEN 0 ELSE n - 1

clamp_card(a) == [a EXCEPT !.selCard = Least(@, Pred(Len(SelectedCards(a))))]

clamp_selection(a) ==
    clamp_card([a EXCEPT !.selCol = Least(@, Pred(Len(a.board.cols)))])

----------------------------------------------------------------------------
(* The daemon *)

Lies(s, i) == CHOOSE c \in Columns : i \in ToSet(s.cards[c])
Present(s) == UNION {ToSet(s.cards[c]) : c \in Columns}

card_move(s, i, c, at) ==
    [s EXCEPT !.cards = [x \in Columns |->
        LET rest == RemoveFirst(s.cards[x], i)
        IN IF x = c THEN InsertAt(rest, 1 + Least(at, Len(rest)), i) ELSE rest]]

MayMove(s, i, c) == i \in Present(s) \ s.archived /\ c \in ToSet(s.cols)

column_reorder(s, c, at) == [s EXCEPT !.cols = Rotated(s.cols, c, at)]

OrderInit ==
    /\ served \in
          {[cols |-> SetToSeq(cs),
            cards |-> [c \in Columns |-> IF c = SetToSeq(cs)[1] THEN SetToSeq(is) ELSE << >>],
            archived |-> ar] :
              cs \in {Columns}, is \in {Cards}, ar \in SUBSET Archivable}
    /\ app = [board |-> served, screen |-> "board", selCol |-> 0, selCard |-> 0,
              filter |-> "active", moving |-> Nil, reordering |-> Nil]
    /\ changes = 0

----------------------------------------------------------------------------
(* Driver *)

\* The reducer leaves `a` and asks for a call that turns the board into `new`.
\* The refetch that follows it may fail, and so may the call.
Call(a, possible, new) ==
    \/ /\ possible /\ changes < MaxChanges
       /\ served' = new /\ changes' = changes + 1
       /\ app' \in {clamp_selection([a EXCEPT !.board = new]), a}
    \/ app' = a /\ UNCHANGED <<served, changes>>

Keys(a) == app' = a /\ UNCHANGED <<served, changes>>

refetch ==
    /\ app' = clamp_selection([app EXCEPT !.board = served])
    /\ UNCHANGED <<served, changes>>

----------------------------------------------------------------------------
(* Keys on the board *)

OnBoard == app.screen = "board"

Wrapped(k, d, n) == (k + n + d - 1) % n        \* d = 0, 1, 2 for -1, 0, +1

move_col(d) ==
    LET n == Len(app.board.cols)
    IN /\ OnBoard /\ n > 0
       /\ Keys(clamp_card([app EXCEPT !.selCol = Wrapped(@, d, n)]))

move_card(d) ==
    LET n == Len(SelectedCards(app))
    IN /\ OnBoard /\ n > 0
       /\ Keys([app EXCEPT !.selCard = Wrapped(@, d, n)])

set_card_filter(f) ==
    OnBoard /\ Keys(clamp_card([app EXCEPT !.filter = f, !.selCard = 0]))

reject_archived_move == selected_card(app) \in app.board.archived

shove_card(d) ==
    LET n == Len(app.board.cols)
        i == selected_card(app)
        k == Wrapped(app.selCol, d, n)
    IN /\ OnBoard /\ n > 0 /\ i # Nil /\ ~reject_archived_move
       /\ k # app.selCol
       /\ LET c == col_id_at(app, k)
          IN /\ c # Nil
             /\ Call([app EXCEPT !.selCol = k, !.selCard = 0],
                     MayMove(served, i, c), card_move(served, i, c, Bottom))

archive_selected_card ==
    LET i == selected_card(app)
    IN /\ OnBoard /\ i \in Archivable
       /\ Call(app, i \in Present(served),
               [served EXCEPT !.archived = IF i \in app.board.archived THEN @ \ {i}
                                           ELSE @ \cup {i}])

----------------------------------------------------------------------------
(* The mode that moves a column *)

open_move_column_mode ==
    LET c == col_id_at(app, app.selCol)
    IN /\ OnBoard /\ c # Nil
       /\ Keys([app EXCEPT !.screen = "moveColumn",
                           !.moving = [row |-> c, original |-> app.selCol,
                                       staged |-> app.selCol]])

shift_column(d) ==
    LET to == app.moving.staged + d
    IN /\ app.screen = "moveColumn"
       /\ to > 0 /\ to - 1 < Len(app.board.cols)
       /\ Keys([app EXCEPT !.moving.staged = to - 1, !.selCol = to - 1])

commit_column ==
    /\ app.screen = "moveColumn"
    /\ Call([app EXCEPT !.screen = "board", !.moving = Nil],
            app.moving.row \in ToSet(served.cols),
            column_reorder(served, app.moving.row, app.moving.staged))

cancel_column ==
    /\ app.screen = "moveColumn"
    /\ Keys([app EXCEPT !.screen = "board", !.moving = Nil,
                        !.selCol = Least(app.moving.original, Pred(Len(app.board.cols)))])

----------------------------------------------------------------------------
(* The mode that reorders a card *)

open_reorder_card_mode ==
    LET i == selected_card(app)
    IN /\ OnBoard /\ i # Nil /\ ~reject_archived_move
       /\ Keys([app EXCEPT !.screen = "reorder",
                           !.reordering = [row |-> i, column |-> Lies(app.board, i),
                                           original |-> app.selCard,
                                           staged |-> app.selCard]])

shift_card(d) ==
    LET to == app.reordering.staged + d
    IN /\ app.screen = "reorder"
       /\ to > 0 /\ to - 1 < Len(cards_of(app, app.reordering.column))
       /\ Keys([app EXCEPT !.reordering.staged = to - 1, !.selCard = to - 1])

commit_card ==
    LET s    == app.reordering
        left == [app EXCEPT !.screen = "board", !.reordering = Nil]
    IN /\ app.screen = "reorder"
       /\ IF s.staged = s.original
          THEN Keys(left)
          ELSE Call([left EXCEPT !.selCard = s.staged],
                    MayMove(served, s.row, s.column),
                    card_move(served, s.row, s.column, s.staged))

cancel_card ==
    LET left == [app EXCEPT !.screen = "board", !.reordering = Nil]
    IN /\ app.screen = "reorder"
       /\ Keys([left EXCEPT !.selCard =
                    Least(app.reordering.original, Pred(Len(SelectedCards(left))))])

----------------------------------------------------------------------------
\* Press and release of the button, with nothing in between: a refresh in
\* between moves what is hit, and the release hits again.  `at` is the place of
\* the card the drop lands on, or one below the last.
drag_card(from, k, to, at) ==
    LET c == col_id_at(app, from)
        i == cards_of(app, c)[k + 1]
        d == col_id_at(app, to)
        a == [app EXCEPT !.selCol = from, !.selCard = k]
    IN /\ OnBoard
       /\ c # Nil /\ k < Len(cards_of(app, c)) /\ i \notin app.board.archived
       /\ d # Nil /\ at <= Len(cards_of(app, d))
       /\ to = from => at # k
       /\ Call(a, MayMove(served, i, d),
               card_move(served, i, d, IF to = from THEN at ELSE Bottom))

drag_column(from, to) ==
    LET c == col_id_at(app, from)
    IN /\ OnBoard
       /\ c # Nil /\ to # from /\ to < Len(app.board.cols)
       /\ Call(clamp_card([app EXCEPT !.selCol = from]),
               c \in ToSet(served.cols), column_reorder(served, c, to))

----------------------------------------------------------------------------
(* The other clients of the daemon *)

Elsewhere(new) ==
    /\ changes < MaxChanges /\ new # served
    /\ served' = new /\ changes' = changes + 1
    /\ UNCHANGED app

OtherMoves(i, c, at) == MayMove(served, i, c) /\ Elsewhere(card_move(served, i, c, at))

OtherArchives(i) ==
    /\ i \in Present(served)
    /\ \/ Elsewhere([served EXCEPT !.archived = @ \cup {i}])
       \/ Elsewhere([served EXCEPT !.archived = @ \ {i}])

OtherDeletes(i) ==
    /\ i \in Present(served)
    /\ Elsewhere([served EXCEPT !.archived = @ \ {i},
                                !.cards = [c \in Columns |-> RemoveFirst(served.cards[c], i)]])

OtherAdds(i, c) ==
    /\ i \notin Present(served) /\ c \in ToSet(served.cols)
    /\ Elsewhere([served EXCEPT !.cards[c] = Append(@, i)])

OtherReorders(c, at) == Elsewhere(column_reorder(served, c, at))

OtherDeletesColumn(c) ==
    /\ c \in ToSet(served.cols) /\ served.cards[c] = << >>
    /\ Elsewhere([served EXCEPT !.cols = RemoveFirst(@, c)])

OtherAddsColumn(c) ==
    /\ c \notin ToSet(served.cols)
    /\ Elsewhere([served EXCEPT !.cols = Append(@, c)])

ColumnPlaces == 0..(Cardinality(Columns) - 1)
CardPlaces   == 0..Cardinality(Cards)

OrderNext ==
    \/ refetch
    \/ \E d \in {0, 2} : \/ move_col(d) \/ move_card(d) \/ shove_card(d)
                         \/ shift_column(d) \/ shift_card(d)
    \/ \E f \in Filters : set_card_filter(f)
    \/ archive_selected_card
    \/ open_move_column_mode \/ commit_column \/ cancel_column
    \/ open_reorder_card_mode \/ commit_card \/ cancel_card
    \/ \E from, to \in ColumnPlaces :
          \/ drag_column(from, to)
          \/ \E k, at \in CardPlaces : drag_card(from, k, to, at)
    \/ \E i \in Cards, c \in Columns :
          \/ \E at \in CardPlaces : OtherMoves(i, c, at)
          \/ OtherAdds(i, c)
    \/ \E i \in Cards : OtherDeletes(i)
    \/ \E i \in Archivable : OtherArchives(i)
    \/ \E c \in Columns : \/ \E at \in ColumnPlaces : OtherReorders(c, at)
                          \/ OtherDeletesColumn(c) \/ OtherAddsColumn(c)

OrderSpec == OrderInit /\ [][OrderNext]_orderVars

----------------------------------------------------------------------------
\* A board: no column twice, and no card twice, in one column or in two.
OrderedBoards ==
    {b \in [cols : Seq(Columns), cards : [Columns -> Seq(Cards)], archived : SUBSET Archivable] :
        /\ IsInjective(b.cols)
        /\ \A c \in Columns : IsInjective(b.cards[c])
        /\ \A c, d \in Columns : c # d => ToSet(b.cards[c]) \cap ToSet(b.cards[d]) = {}}

OrderViews ==
    [board : OrderedBoards, screen : {"board", "moveColumn", "reorder"},
     selCol : Nat, selCard : Nat, filter : Filters,
     moving : MovedColumns \cup {Nil}, reordering : MovedCards \cup {Nil}]

\* The daemon's board and the snapshot are boards, and a mode has what it moves.
OrderTypeOK ==
    /\ served \in OrderedBoards
    /\ app \in OrderViews
    /\ app.screen = "moveColumn" <=> app.moving # Nil
    /\ app.screen = "reorder" <=> app.reordering # Nil

Drawn(a) == <<ShownColumns(a), [c \in Columns |-> cards_of(a, c)]>>

\* reorder_card.rs and move_column.rs: what the mode shows before Enter is what
\* the board shows after it, when the call is served, nobody has changed the
\* board meanwhile, the card is still in its column, and the filter hides no
\* card of that column (the place staged counts the cards shown, the daemon's
\* position counts them all).
Unhidden(s) ==
    /\ s.row \in ToSet(app.board.cards[s.column])
    /\ Len(cards_of(app, s.column)) = Len(app.board.cards[s.column])

CommitKeepsOrder ==
    [][(/\ app.screen # "board" /\ app'.screen = "board"
        /\ app.board = served /\ app'.board = served' /\ served' # served
        /\ app.reordering # Nil => Unhidden(app.reordering))
       => Drawn(app') = Drawn(app)]_orderVars
=============================================================================

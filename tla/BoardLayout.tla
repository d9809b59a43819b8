---------------------------- MODULE BoardLayout ----------------------------
(***************************************************************************)
(* The rows of a board that hold an order: its columns, the cards of each  *)
(* column, the transitions between columns and the history of runs that    *)
(* pins a column.  Every operation of the store is one transaction under   *)
(* the store's lock, except the deletion of a card, whose row and whose    *)
(* renumbering are two, and a column created or updated with a position,   *)
(* whose row and whose reorder are two: the daemon may stop between them.  *)
(*                                                                         *)
(* Left out: names, prompts and overrides; the archive of a card (an       *)
(* archived card keeps its position and is moved with its column); open    *)
(* runs, which RunLifecycle models: here a run is only the history row it  *)
(* leaves, pointing at the card and at the column it ran in.               *)
(***************************************************************************)
EXTENDS Naturals, SequencesExt

CONSTANTS
    Boards,       \* the boards, a finite set of naturals from 1
    MaxColumns,   \* the highest row id of a column the instance reaches
    MaxCards,     \* the highest row id of a card the instance reaches, and
                  \* the highest position (holes would let positions grow)
    MaxRuns,      \* history rows
    MaxTargets    \* columns with a transition at the same time

VARIABLES
    cols,     \* column id -> [board, pos, target]: target is on_success/on_fail
    stock,    \* card id -> [board, col, pos]
    ran       \* the history: <<card, column>> of every run that ended

layoutVars == <<cols, stock, ran>>

None  == 0         \* NULL: no target, no destination
AtEnd == MaxCards + MaxColumns   \* no position given: past every row

----------------------------------------------------------------------------
\* SQLite gives a new row the highest id plus one, so the id of a deleted
\* newest row is given again.
NewRow(rows) == 1 + (IF DOMAIN rows = {} THEN 0 ELSE Max(DOMAIN rows))

\* A mutant: the new row goes where the number of rows says.
EndPositionCounted(rows, group) == Cardinality(group)

\* COALESCE(MAX(position)+1, 0) over some rows
EndPosition(rows, group) ==
    IF group = {} THEN 0 ELSE 1 + Max({rows[i].pos : i \in group})

ColumnsOf(table, b) == {c \in DOMAIN table : table[c].board = b}
CardsIn(table, c)   == {i \in DOMAIN table : table[i].col = c}

\* ORDER BY position, id
InOrder(rows, group) ==
    SetToSortSeq(group, LAMBDA i, j : \/ rows[i].pos < rows[j].pos
                                      \/ rows[i].pos = rows[j].pos /\ i < j)

Renumbered(rows, order) ==
    [i \in DOMAIN rows |->
        IF i \in ToSet(order)
        THEN [rows[i] EXCEPT !.pos = (CHOOSE k \in DOMAIN order : order[k] = i) - 1]
        ELSE rows[i]]

\* The row goes to a clamped position among its group, which is compacted.
Placed(rows, group, i, at) ==
    LET others == InOrder(rows, group \ {i})
        index  == IF at > Len(others) THEN Len(others) ELSE at
    IN Renumbered(rows, InsertAt(others, index + 1, i))

place_card_in_column_tx(rows, i, at) == Placed(rows, CardsIn(rows, rows[i].col), i, at)

renumber_column_cards_tx(rows, c) == Renumbered(rows, InOrder(rows, CardsIn(rows, c)))

----------------------------------------------------------------------------
\* Two boards with their seed column each, as a fresh store has.
LayoutInit ==
    /\ cols = [c \in Boards |-> [board |-> c, pos |-> 0, target |-> None]]
    /\ stock = << >>
    /\ ran = {}

Positions == {0, AtEnd}

TargetsBounded(table) == Cardinality({c \in DOMAIN table : table[c].target # None}) <= MaxTargets

validate_column_targets(b, target) ==
    target = None \/ target \in ColumnsOf(cols, b)

\* The rows are written; a position that was given is a second transaction.
PlacedAfter(rows, c, at) ==
    \/ cols' = rows
    \/ at # AtEnd /\ cols' = Placed(rows, ColumnsOf(rows, rows[c].board), c, at)

CreateColumn(b, target, at) ==
    LET c    == NewRow(cols)
        rows == [x \in DOMAIN cols \cup {c} |->
                    IF x = c
                    THEN [board |-> b, target |-> target,
                          pos |-> EndPosition(cols, ColumnsOf(cols, b))]
                    ELSE cols[x]]
    IN /\ c <= MaxColumns
       /\ validate_column_targets(b, target)
       /\ PlacedAfter(rows, c, at)
       /\ TargetsBounded(cols')
       /\ UNCHANGED <<stock, ran>>

UpdateColumn(c, target, at) ==
    /\ c \in DOMAIN cols
    /\ validate_column_targets(cols[c].board, target)
    /\ PlacedAfter([cols EXCEPT ![c].target = target], c, at)
    /\ TargetsBounded(cols')
    /\ UNCHANGED <<stock, ran>>

ReorderColumn(c, at) ==
    /\ c \in DOMAIN cols
    /\ cols' = Placed(cols, ColumnsOf(cols, cols[c].board), c, at)
    /\ UNCHANGED <<stock, ran>>

\* The cards leave for the destination one by one, in order, each to its end;
\* the first of them closes the holes it finds there.
Emptied(c, dst) ==
    LET moving == InOrder(stock, CardsIn(stock, c))
        rows   == [i \in DOMAIN stock |->
                      IF i \in CardsIn(stock, c) THEN [stock[i] EXCEPT !.col = dst] ELSE stock[i]]
    IN IF moving = << >> THEN stock
       ELSE Renumbered(rows, InOrder(stock, CardsIn(stock, dst)) \o moving)

\* Refused, changing nothing, when cards have no destination or one of another
\* board.  A foreign key refuses it as well when a card or a run still names the
\* column, and the transaction takes the moves back: a column whose history is
\* kept stays.  A target that named the column becomes NULL.
DeleteColumn(c, dst) ==
    LET b    == cols[c].board
        rows == IF dst = None THEN stock ELSE Emptied(c, dst)
        left == [x \in DOMAIN cols \ {c} |->
                    [cols[x] EXCEPT !.target = IF @ = c THEN None ELSE @]]
    IN /\ c \in DOMAIN cols
       /\ dst \in {None} \cup ColumnsOf(cols, b)
       /\ CardsIn(rows, c) = {}
       /\ \A r \in ran : r[2] # c
       /\ stock' = rows
       /\ cols' = Renumbered(left, InOrder(left, ColumnsOf(left, b)))
       /\ UNCHANGED ran

----------------------------------------------------------------------------
\* A card enters column c of board b at the end, then takes its position.
Inserted(b, c, at) ==
    LET i    == NewRow(stock)
        rows == [x \in DOMAIN stock \cup {i} |->
                    IF x = i
                    THEN [board |-> b, col |-> c,
                          pos |-> EndPosition(stock, CardsIn(stock, c))]
                    ELSE stock[x]]
    IN IF at = AtEnd THEN rows ELSE place_card_in_column_tx(rows, i, at)

CreateCard(b, c, at) ==
    /\ NewRow(stock) <= MaxCards
    /\ EndPosition(stock, CardsIn(stock, c)) <= MaxCards
    /\ c \in ColumnsOf(cols, b)
    /\ stock' = Inserted(b, c, at)
    /\ UNCHANGED <<cols, ran>>

DuplicateCard(i) ==
    /\ i \in DOMAIN stock
    /\ NewRow(stock) <= MaxCards
    /\ EndPosition(stock, CardsIn(stock, stock[i].col)) <= MaxCards
    /\ stock' = Inserted(stock[i].board, stock[i].col, stock[i].pos + 1)
    /\ UNCHANGED <<cols, ran>>

\* Its runs leave with a card (ON DELETE CASCADE).  The daemon may stop after
\* the first of the two transactions: the column keeps the hole.
DeleteCard(i) ==
    LET left == [x \in DOMAIN stock \ {i} |-> stock[x]]
    IN /\ i \in DOMAIN stock
       /\ \/ stock' = renumber_column_cards_tx(left, stock[i].col)
          \/ stock' = left
       /\ ran' = {r \in ran : r[1] # i}
       /\ UNCHANGED cols

\* A mutant: the transfer writes the column and forgets the board.
RehomedSameBoard(i, b, c, at) ==
    LET placed == place_card_in_column_tx([stock EXCEPT ![i].col = c], i, at)
    IN renumber_column_cards_tx(placed, stock[i].col)

\* The board and the column change together; both columns are compacted.
Rehomed(i, b, c, at) ==
    LET placed == place_card_in_column_tx(
                      [stock EXCEPT ![i].board = b, ![i].col = c], i, at)
    IN renumber_column_cards_tx(placed, stock[i].col)

\* card.move without a board stays on the card's board.
MoveCard(i, c, at) ==
    /\ i \in DOMAIN stock
    /\ c \in ColumnsOf(cols, stock[i].board)
    /\ stock' = Rehomed(i, stock[i].board, c, at)
    /\ UNCHANGED <<cols, ran>>

\* card.move with another board: the column must be of the declared board.
TransferCard(i, b, c, at) ==
    /\ i \in DOMAIN stock
    /\ b # stock[i].board
    /\ c \in ColumnsOf(cols, b)
    /\ stock' = Rehomed(i, b, c, at)
    /\ UNCHANGED <<cols, ran>>

\* A run of the card was queued in its column, and ended.
RunCard(i) ==
    /\ i \in DOMAIN stock
    /\ ran' = ran \cup {<<i, stock[i].col>>}
    /\ Cardinality(ran') <= MaxRuns
    /\ UNCHANGED <<cols, stock>>

LayoutNext ==
    \/ \E b \in Boards, t \in {None} \cup DOMAIN cols, at \in Positions :
          CreateColumn(b, t, at)
    \/ \E c \in DOMAIN cols, t \in {None} \cup DOMAIN cols, at \in Positions :
          UpdateColumn(c, t, at)
    \/ \E c \in DOMAIN cols, at \in Positions : ReorderColumn(c, at)
    \/ \E c \in DOMAIN cols, dst \in {None} \cup DOMAIN cols : DeleteColumn(c, dst)
    \/ \E b \in Boards, c \in DOMAIN cols, at \in Positions : CreateCard(b, c, at)
    \/ \E i \in DOMAIN stock : DuplicateCard(i)
    \/ \E i \in DOMAIN stock : DeleteCard(i)
    \/ \E i \in DOMAIN stock, c \in DOMAIN cols, at \in Positions : MoveCard(i, c, at)
    \/ \E i \in DOMAIN stock, b \in Boards, c \in DOMAIN cols, at \in Positions :
          TransferCard(i, b, c, at)
    \/ \E i \in DOMAIN stock : RunCard(i)

LayoutSpec == LayoutInit /\ [][LayoutNext]_layoutVars

----------------------------------------------------------------------------
LayoutTypeOK ==
    /\ DOMAIN cols \subseteq 1..MaxColumns
    /\ \A c \in DOMAIN cols :
          cols[c] \in [board : Boards, pos : Nat, target : 0..MaxColumns]
    /\ DOMAIN stock \subseteq 1..MaxCards
    /\ \A i \in DOMAIN stock :
          stock[i] \in [board : Boards, col : 1..MaxColumns, pos : Nat]
    /\ ran \subseteq (1..MaxCards) \X (1..MaxColumns)

\* No row names a row of another board or a row that is gone: a card lies in a
\* column of its own board, and a transition leads to a column of its board.
BoardBoundary ==
    /\ \A i \in DOMAIN stock : stock[i].col \in ColumnsOf(cols, stock[i].board)
    /\ \A c \in DOMAIN cols :
          cols[c].target \in {None} \cup ColumnsOf(cols, cols[c].board)

\* No two columns of a board and no two cards of a column share a position,
\* whatever the holes a stopped deletion left: the order a user sees is the
\* order that was asked for.
PositionsDistinct ==
    /\ \A c, d \in DOMAIN cols :
          c # d /\ cols[c].board = cols[d].board => cols[c].pos # cols[d].pos
    /\ \A i, j \in DOMAIN stock :
          i # j /\ stock[i].col = stock[j].col => stock[i].pos # stock[j].pos
=============================================================================

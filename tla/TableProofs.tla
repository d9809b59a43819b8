----------------------------- MODULE TableProofs -----------------------------
(***************************************************************************)
(* Theorems about the tables of the store, for any number of rows: the     *)
(* boundary of a board, the history of a comment, the context that is      *)
(* selected, the open of a file that was interrupted, and the tables that  *)
(* tie Linear issues to worktrees and to the agents that ask for them.     *)
(***************************************************************************)
EXTENDS Integers, BoardLayout, Comments, Migrations, Selection, LinearLinks, ShowRequests,
        NaturalOrder, SequenceTheorems, TLAPS

-----------------------------------------------------------------------------
(* BoardLayout: no row names a row of another board.                       *)

TargetsFit(table) ==
  \A c \in DOMAIN table : table[c].target \in {None} \cup ColumnsOf(table, table[c].board)

CardsFit(rows, table) == \A i \in DOMAIN rows : rows[i].col \in ColumnsOf(table, rows[i].board)

HasFields(rows, fields) == \A i \in DOMAIN rows : fields \subseteq DOMAIN rows[i]

ColumnFields == {"board", "target", "pos"}
CardFields   == {"board", "col", "pos"}

LayoutInv ==
  /\ DOMAIN cols \subseteq 1 .. MaxColumns /\ HasFields(cols, ColumnFields)
  /\ DOMAIN stock \subseteq 1 .. MaxCards /\ HasFields(stock, CardFields)
  /\ TargetsFit(cols)
  /\ CardsFit(stock, cols)

(* Two tables that differ in positions only.                               *)
SameButPositions(rows, moved) ==
  /\ DOMAIN moved = DOMAIN rows
  /\ \A i \in DOMAIN rows :
       /\ DOMAIN moved[i] = DOMAIN rows[i]
       /\ \A f \in DOMAIN rows[i] : f # "pos" => moved[i][f] = rows[i][f]

LEMMA RenumberedKeeps ==
  ASSUME NEW rows, NEW order
  PROVE  SameButPositions(rows, Renumbered(rows, order))
BY DEF SameButPositions, Renumbered

LEMMA PlacedKeeps ==
  ASSUME NEW rows, NEW group, NEW i, NEW at
  PROVE  SameButPositions(rows, Placed(rows, group, i, at))
BY RenumberedKeeps DEF Placed

LEMMA PositionsDoNotMatter ==
  ASSUME NEW rows, NEW moved, SameButPositions(rows, moved)
  PROVE  /\ DOMAIN moved = DOMAIN rows
         /\ HasFields(rows, ColumnFields) => HasFields(moved, ColumnFields)
         /\ HasFields(rows, CardFields) => HasFields(moved, CardFields)
         /\ HasFields(rows, ColumnFields) =>
              /\ \A b : ColumnsOf(moved, b) = ColumnsOf(rows, b)
              /\ TargetsFit(rows) => TargetsFit(moved)
              /\ \A cards : CardsFit(cards, rows) => CardsFit(cards, moved)
         /\ HasFields(rows, CardFields) =>
              \A table : CardsFit(rows, table) => CardsFit(moved, table)
<1>1. DOMAIN moved = DOMAIN rows
  BY DEF SameButPositions
<1>2. /\ HasFields(rows, ColumnFields) => HasFields(moved, ColumnFields)
      /\ HasFields(rows, CardFields) => HasFields(moved, CardFields)
  BY <1>1 DEF SameButPositions, HasFields
<1>3. ASSUME HasFields(rows, ColumnFields)
      PROVE  /\ \A b : ColumnsOf(moved, b) = ColumnsOf(rows, b)
             /\ TargetsFit(rows) => TargetsFit(moved)
             /\ \A cards : CardsFit(cards, rows) => CardsFit(cards, moved)
  <2>1. \A c \in DOMAIN rows : moved[c].board = rows[c].board /\ moved[c].target = rows[c].target
    BY <1>3 DEF SameButPositions, HasFields, ColumnFields
  <2>2. \A b : ColumnsOf(moved, b) = ColumnsOf(rows, b)
    BY <1>1, <2>1 DEF ColumnsOf
  <2> QED
    BY <1>1, <2>1, <2>2 DEF TargetsFit, CardsFit
<1>4. ASSUME HasFields(rows, CardFields), NEW table, CardsFit(rows, table)
      PROVE  CardsFit(moved, table)
  <2>1. \A i \in DOMAIN rows : moved[i].board = rows[i].board /\ moved[i].col = rows[i].col
    BY <1>4 DEF SameButPositions, HasFields, CardFields
  <2> QED
    BY <1>1, <1>4, <2>1 DEF CardsFit
<1> QED
  BY <1>1, <1>2, <1>3, <1>4

LEMMA NewRowIsNew ==
  ASSUME NEW rows, NEW n \in Nat, DOMAIN rows \subseteq 1 .. n
  PROVE  NewRow(rows) \in Nat \ {0} /\ NewRow(rows) \notin DOMAIN rows
<1>1. CASE DOMAIN rows = {}
  BY <1>1 DEF NewRow
<1>2. CASE DOMAIN rows # {}
  <2>1. DOMAIN rows \in SUBSET Nat /\ \A i \in DOMAIN rows : i <= n
    OBVIOUS
  <2>2. Max(DOMAIN rows) \in DOMAIN rows /\ \A i \in DOMAIN rows : i <= Max(DOMAIN rows)
    BY <1>2, <2>1, MaxOf
  <2>3. Max(DOMAIN rows) \in Nat
    BY <2>1, <2>2
  <2> QED
    BY <1>2, <2>2, <2>3 DEF NewRow
<1> QED
  BY <1>1, <1>2

(* Columns are made, changed and reordered.                                *)
LEMMA ColumnsKeepBoundary ==
  ASSUME MaxColumns \in Nat, LayoutInv,
         \/ \E b \in Boards, t \in {None} \cup DOMAIN cols, at \in Positions : CreateColumn(b, t, at)
         \/ \E c \in DOMAIN cols, t \in {None} \cup DOMAIN cols, at \in Positions : UpdateColumn(c, t, at)
         \/ \E c \in DOMAIN cols, at \in Positions : ReorderColumn(c, at)
  PROVE  LayoutInv'
<1> USE DEF LayoutInv
<1>1. CASE \E b \in Boards, t \in {None} \cup DOMAIN cols, at \in Positions : CreateColumn(b, t, at)
  <2>1. PICK b \in Boards, t \in {None} \cup DOMAIN cols, at \in Positions : CreateColumn(b, t, at)
    BY <1>1
  <2> DEFINE new == NewRow(cols)
             row == [board |-> b, target |-> t, pos |-> EndPosition(cols, ColumnsOf(cols, b))]
             rows == [x \in DOMAIN cols \cup {new} |-> IF x = new THEN row ELSE cols[x]]
  <2>2. /\ new \in 1 .. MaxColumns /\ new \notin DOMAIN cols
        /\ t = None \/ t \in ColumnsOf(cols, b)
        /\ cols' = rows \/ \E group : cols' = Placed(rows, group, new, at)
        /\ stock' = stock
    BY <2>1, NewRowIsNew DEF CreateColumn, PlacedAfter, validate_column_targets
  <2>3. row.board = b /\ row.target = t /\ ColumnFields \subseteq DOMAIN row
    BY DEF ColumnFields
  <2> HIDE DEF new, row
  <2>4. /\ DOMAIN rows = DOMAIN cols \cup {new} /\ rows[new] = row
        /\ \A c \in DOMAIN cols : rows[c] = cols[c]
    BY <2>2
  <2> HIDE DEF rows
  <2>5. DOMAIN rows \subseteq 1 .. MaxColumns /\ HasFields(rows, ColumnFields)
    BY <2>2, <2>3, <2>4 DEF HasFields
  <2>6. \A x : ColumnsOf(cols, x) \subseteq ColumnsOf(rows, x)
    BY <2>4 DEF ColumnsOf
  <2>7. TargetsFit(rows)
    BY <2>2, <2>3, <2>4, <2>6 DEF TargetsFit
  <2>8. CardsFit(stock, rows)
    BY <2>6 DEF CardsFit
  <2>9. cols' = rows \/ SameButPositions(rows, cols')
    BY <2>2, PlacedKeeps
  <2> QED
    BY <2>2, <2>5, <2>7, <2>8, <2>9, PositionsDoNotMatter
<1>2. CASE \E c \in DOMAIN cols, t \in {None} \cup DOMAIN cols, at \in Positions : UpdateColumn(c, t, at)
  <2>1. PICK c \in DOMAIN cols, t \in {None} \cup DOMAIN cols, at \in Positions : UpdateColumn(c, t, at)
    BY <1>2
  <2>2. PICK rows : rows = [cols EXCEPT ![c].target = t]
    OBVIOUS
  <2>3. /\ cols' = rows \/ \E group : cols' = Placed(rows, group, c, at)
        /\ stock' = stock /\ t \in {None} \cup ColumnsOf(cols, cols[c].board)
    BY <2>1, <2>2 DEF UpdateColumn, PlacedAfter, validate_column_targets
  <2>4. /\ DOMAIN rows = DOMAIN cols /\ HasFields(rows, ColumnFields)
        /\ \A x \in DOMAIN cols : rows[x].board = cols[x].board
        /\ \A x \in DOMAIN cols : rows[x].target = IF x = c THEN t ELSE cols[x].target
    BY <2>2 DEF HasFields, ColumnFields
  <2>5. \A b : ColumnsOf(rows, b) = ColumnsOf(cols, b)
    BY <2>4 DEF ColumnsOf
  <2>6. TargetsFit(rows)
    <3> SUFFICES ASSUME NEW x \in DOMAIN cols
                 PROVE  rows[x].target \in {None} \cup ColumnsOf(cols, cols[x].board)
      BY <2>4, <2>5 DEF TargetsFit
    <3>1. CASE x = c
      BY <2>3, <2>4, <3>1
    <3>2. CASE x # c
      BY <2>4, <3>2 DEF TargetsFit
    <3> QED
      BY <3>1, <3>2
  <2>7. CardsFit(stock, rows)
    BY <2>5 DEF CardsFit
  <2>8. cols' = rows \/ SameButPositions(rows, cols')
    BY <2>3, PlacedKeeps
  <2> QED
    BY <2>3, <2>4, <2>6, <2>7, <2>8, PositionsDoNotMatter
<1>3. CASE \E c \in DOMAIN cols, at \in Positions : ReorderColumn(c, at)
  <2>1. SameButPositions(cols, cols') /\ stock' = stock
    BY <1>3, PlacedKeeps DEF ReorderColumn
  <2> QED
    BY <2>1, PositionsDoNotMatter
<1> QED
  BY <1>1, <1>2, <1>3

(* The cards of a deleted column stay on their board.                      *)
LEMMA DeletedColumnKeepsBoundary ==
  ASSUME LayoutInv, NEW c \in DOMAIN cols, NEW dst \in {None} \cup DOMAIN cols, DeleteColumn(c, dst)
  PROVE  LayoutInv'
<1> USE DEF LayoutInv
<1> DEFINE b == cols[c].board
           rows == IF dst = None THEN stock ELSE Emptied(c, dst)
           left == [x \in DOMAIN cols \ {c} |->
                      [cols[x] EXCEPT !.target = IF @ = c THEN None ELSE @]]
<1>1. /\ dst \in {None} \cup ColumnsOf(cols, b)
      /\ CardsIn(rows, c) = {} /\ stock' = rows
      /\ cols' = Renumbered(left, InOrder(left, ColumnsOf(left, b)))
  BY DEF DeleteColumn
<1>2. /\ DOMAIN rows \subseteq 1 .. MaxCards /\ HasFields(rows, CardFields) /\ CardsFit(rows, cols)
  <2>1. CASE rows = stock
    BY <2>1
  <2>2. CASE rows # stock
    <3> DEFINE moved == [i \in DOMAIN stock |->
                          IF i \in CardsIn(stock, c) THEN [stock[i] EXCEPT !.col = dst] ELSE stock[i]]
    <3>1. dst \in ColumnsOf(cols, b) /\ SameButPositions(moved, rows)
      BY <1>1, <2>2, RenumberedKeeps DEF Emptied
    <3>2. /\ DOMAIN moved = DOMAIN stock /\ HasFields(moved, CardFields)
          /\ \A i \in DOMAIN stock : moved[i].board = stock[i].board
          /\ \A i \in DOMAIN stock : moved[i].col = IF stock[i].col = c THEN dst ELSE stock[i].col
      BY DEF HasFields, CardFields, CardsIn
    <3> HIDE DEF moved, rows
    <3>3. \A i \in DOMAIN stock : stock[i].col = c => stock[i].board = b
      BY DEF CardsFit, ColumnsOf
    <3>4. CardsFit(moved, cols)
      BY <3>1, <3>2, <3>3 DEF CardsFit
    <3> QED
      BY <3>1, <3>2, <3>4, PositionsDoNotMatter
  <2> QED
    BY <2>1, <2>2
<1> HIDE DEF rows
<1>3. /\ DOMAIN left = DOMAIN cols \ {c} /\ HasFields(left, ColumnFields)
      /\ \A x \in DOMAIN left : left[x].board = cols[x].board
      /\ \A x \in DOMAIN left : left[x].target = IF cols[x].target = c THEN None ELSE cols[x].target
  BY DEF HasFields, ColumnFields
<1>4. SameButPositions(left, cols')
  BY <1>1, RenumberedKeeps
<1> HIDE DEF left
<1>5. \A x : ColumnsOf(left, x) = ColumnsOf(cols, x) \ {c}
  BY <1>3 DEF ColumnsOf
<1>6. TargetsFit(left)
  BY <1>3, <1>5 DEF TargetsFit
<1>7. CardsFit(rows, left)
  BY <1>1, <1>2, <1>5 DEF CardsFit, CardsIn
<1> QED
  BY <1>1, <1>2, <1>3, <1>4, <1>6, <1>7, PositionsDoNotMatter

(* A card that enters, leaves or changes its column.                       *)
LEMMA InsertedFits ==
  ASSUME MaxCards \in Nat, LayoutInv, NEW b, NEW c \in ColumnsOf(cols, b), NEW at,
         NewRow(stock) <= MaxCards, stock' = Inserted(b, c, at), cols' = cols
  PROVE  LayoutInv'
<1> USE DEF LayoutInv
<1> DEFINE new == NewRow(stock)
           row == [board |-> b, col |-> c, pos |-> EndPosition(stock, CardsIn(stock, c))]
           rows == [x \in DOMAIN stock \cup {new} |-> IF x = new THEN row ELSE stock[x]]
<1>1. /\ new \in 1 .. MaxCards /\ new \notin DOMAIN stock
  BY NewRowIsNew
<1>2. row.board = b /\ row.col = c /\ CardFields \subseteq DOMAIN row
  BY DEF CardFields
<1>3. stock' = rows \/ SameButPositions(rows, stock')
  BY PlacedKeeps DEF Inserted, place_card_in_column_tx
<1> HIDE DEF new, row
<1>4. /\ DOMAIN rows = DOMAIN stock \cup {new} /\ rows[new] = row
      /\ \A i \in DOMAIN stock : rows[i] = stock[i]
  BY <1>1
<1> HIDE DEF rows
<1>5. DOMAIN rows \subseteq 1 .. MaxCards /\ HasFields(rows, CardFields) /\ CardsFit(rows, cols)
  BY <1>1, <1>2, <1>4 DEF HasFields, CardsFit
<1> QED
  BY <1>3, <1>5, PositionsDoNotMatter

LEMMA RehomedFits ==
  ASSUME LayoutInv, NEW i \in DOMAIN stock, NEW b, NEW c \in ColumnsOf(cols, b), NEW at,
         stock' = Rehomed(i, b, c, at), cols' = cols
  PROVE  LayoutInv'
<1> USE DEF LayoutInv
<1> DEFINE rows == [stock EXCEPT ![i].board = b, ![i].col = c]
           placed == place_card_in_column_tx(rows, i, at)
<1>1. SameButPositions(rows, placed) /\ SameButPositions(placed, stock')
  BY PlacedKeeps, RenumberedKeeps DEF Rehomed, place_card_in_column_tx, renumber_column_cards_tx
<1>2. /\ DOMAIN rows = DOMAIN stock /\ HasFields(rows, CardFields)
      /\ rows[i].board = b /\ rows[i].col = c
      /\ \A x \in DOMAIN stock \ {i} : rows[x] = stock[x]
  BY DEF HasFields, CardFields
<1> HIDE DEF rows, placed
<1>3. CardsFit(rows, cols)
  BY <1>2 DEF CardsFit
<1> QED
  BY <1>1, <1>2, <1>3, PositionsDoNotMatter

LEMMA CardsKeepBoundary ==
  ASSUME MaxCards \in Nat, LayoutInv,
         \/ \E b \in Boards, c \in DOMAIN cols, at \in Positions : CreateCard(b, c, at)
         \/ \E i \in DOMAIN stock : DuplicateCard(i) \/ DeleteCard(i) \/ RunCard(i)
         \/ \E i \in DOMAIN stock, c \in DOMAIN cols, at \in Positions : MoveCard(i, c, at)
         \/ \E i \in DOMAIN stock, b \in Boards, c \in DOMAIN cols, at \in Positions :
               TransferCard(i, b, c, at)
  PROVE  LayoutInv'
<1>1. CASE \E b \in Boards, c \in DOMAIN cols, at \in Positions : CreateCard(b, c, at)
  BY <1>1, InsertedFits DEF CreateCard
<1>2. CASE \E i \in DOMAIN stock : DuplicateCard(i)
  <2>1. PICK i \in DOMAIN stock : DuplicateCard(i)
    BY <1>2
  <2>2. stock[i].col \in ColumnsOf(cols, stock[i].board)
    BY DEF LayoutInv, CardsFit
  <2> QED
    BY <2>1, <2>2, InsertedFits DEF DuplicateCard
<1>3. CASE \E i \in DOMAIN stock : DeleteCard(i)
  <2>1. PICK i \in DOMAIN stock : DeleteCard(i)
    BY <1>3
  <2> DEFINE left == [x \in DOMAIN stock \ {i} |-> stock[x]]
  <2>2. (stock' = left \/ SameButPositions(left, stock')) /\ cols' = cols
    BY <2>1, RenumberedKeeps DEF DeleteCard, renumber_column_cards_tx
  <2>3. DOMAIN left \subseteq DOMAIN stock /\ \A x \in DOMAIN left : left[x] = stock[x]
    OBVIOUS
  <2> HIDE DEF left
  <2>4. DOMAIN left \subseteq 1 .. MaxCards /\ HasFields(left, CardFields) /\ CardsFit(left, cols)
    BY <2>3 DEF LayoutInv, HasFields, CardsFit
  <2> QED
    BY <2>2, <2>4, PositionsDoNotMatter DEF LayoutInv
<1>4. CASE \E i \in DOMAIN stock, c \in DOMAIN cols, at \in Positions : MoveCard(i, c, at)
  BY <1>4, RehomedFits DEF MoveCard
<1>5. CASE \E i \in DOMAIN stock, b \in Boards, c \in DOMAIN cols, at \in Positions :
             TransferCard(i, b, c, at)
  BY <1>5, RehomedFits DEF TransferCard
<1>6. CASE \E i \in DOMAIN stock : RunCard(i)
  BY <1>6 DEF RunCard, LayoutInv
<1> QED
  BY <1>1, <1>2, <1>3, <1>4, <1>5, <1>6

(* Whatever columns and cards are made, moved, transferred and deleted,    *)
(* and wherever the daemon stops, a card lies in a column of its own board *)
(* and a transition leads to a column of its board, however many there are *)
(* and although the ids of deleted rows are given again.                   *)
THEOREM BoundaryKept ==
  ASSUME MaxColumns \in Nat, MaxCards \in Nat, Boards \subseteq 1 .. MaxColumns
  PROVE  LayoutSpec => []BoardBoundary
<1>1. LayoutInit => LayoutInv
  <2> SUFFICES ASSUME LayoutInit PROVE LayoutInv
    OBVIOUS
  <2>1. DOMAIN stock = {}
    BY DEF LayoutInit
  <2> QED
    BY <2>1 DEF LayoutInit, LayoutInv, HasFields, ColumnFields, TargetsFit, CardsFit
<1>2. LayoutInv /\ [LayoutNext]_layoutVars => LayoutInv'
  <2> SUFFICES ASSUME LayoutInv, [LayoutNext]_layoutVars PROVE LayoutInv'
    OBVIOUS
  <2>1. CASE UNCHANGED layoutVars
    BY <2>1 DEF layoutVars, LayoutInv
  <2> QED
    BY <2>1, ColumnsKeepBoundary, DeletedColumnKeepsBoundary, CardsKeepBoundary DEF LayoutNext
<1>3. LayoutInv => BoardBoundary
  BY DEF LayoutInv, BoardBoundary, TargetsFit, CardsFit
<1> QED
  BY <1>1, <1>2, <1>3, PTL DEF LayoutSpec

-----------------------------------------------------------------------------
(* Comments: the history of a comment ends in the comment.                 *)

History(m) == {h \in DOMAIN snapshots : snapshots[h].remark = m}

CommentsTyped ==
  /\ \E n \in Nat : DOMAIN remarks \subseteq 1 .. n
  /\ DOMAIN snapshots \subseteq 1 .. MaxSnapshots
  /\ \A m \in DOMAIN remarks :
       {"card", "text", "deleted"} \subseteq DOMAIN remarks[m] /\ remarks[m].deleted \in BOOLEAN
  /\ \A h \in DOMAIN snapshots :
       /\ {"remark", "text", "deleted"} \subseteq DOMAIN snapshots[h]
       /\ snapshots[h].deleted \in BOOLEAN
       /\ snapshots[h].remark \in DOMAIN remarks

(* Snapshot h is the last of comment m, and agrees with it.                *)
LastIs(m, h) ==
  /\ h \in History(m)
  /\ snapshots[h].text = remarks[m].text /\ snapshots[h].deleted = remarks[m].deleted
  /\ \A k \in History(m) \ {h} : k < h /\ snapshots[k].deleted = FALSE

CommentsInv ==
  /\ CommentsTyped
  /\ \A m \in DOMAIN remarks : \E h \in History(m) : LastIs(m, h)

LEMMA LastIsMax ==
  ASSUME CommentsTyped, NEW m, NEW h, LastIs(m, h)
  PROVE  Max(History(m)) = h
<1>1. /\ h \in History(m) /\ History(m) \subseteq Nat
      /\ \A k \in History(m) : h >= k
  BY DEF LastIs, History, CommentsTyped
<1>2. \A x \in History(m) : (\A k \in History(m) : x >= k) => x = h
  BY <1>1
<1> QED
  BY <1>1, <1>2 DEF Max

LEMMA NewIdIsNew ==
  ASSUME NEW rows, NEW n \in Nat, DOMAIN rows \subseteq 1 .. n
  PROVE  /\ NewId(rows) \in Nat \ {0} /\ NewId(rows) <= n + 1
         /\ \A i \in DOMAIN rows : i < NewId(rows)
<1>1. CASE DOMAIN rows = {}
  BY <1>1 DEF NewId
<1>2. CASE DOMAIN rows # {}
  <2>1. DOMAIN rows \in SUBSET Nat /\ \A i \in DOMAIN rows : i <= n
    OBVIOUS
  <2>2. Max(DOMAIN rows) \in DOMAIN rows /\ \A i \in DOMAIN rows : i <= Max(DOMAIN rows)
    BY <1>2, <2>1, MaxOf
  <2>3. Max(DOMAIN rows) \in Nat /\ Max(DOMAIN rows) <= n
    BY <2>1, <2>2
  <2> QED
    BY <1>2, <2>1, <2>2, <2>3 DEF NewId
<1> QED
  BY <1>1, <1>2

(* The row that a comment or a text adds to a table.                       *)
LEMMA RowAdded ==
  ASSUME NEW rows, NEW n \in Nat, DOMAIN rows \subseteq 1 .. n, NEW row
  PROVE  /\ NewId(rows) \notin DOMAIN rows
         /\ DOMAIN WithRow(rows, row) = DOMAIN rows \cup {NewId(rows)}
         /\ WithRow(rows, row)[NewId(rows)] = row
         /\ \A i \in DOMAIN rows : WithRow(rows, row)[i] = rows[i]
<1>1. NewId(rows) \notin DOMAIN rows
  BY NewIdIsNew
<1> QED
  BY <1>1 DEF WithRow

LEMMA SnapshotAdded ==
  ASSUME MaxSnapshots \in Nat, CommentsTyped, NewId(snapshots) <= MaxSnapshots, NEW row,
         snapshots' = WithRow(snapshots, row)
  PROVE  \E h \in 1 .. MaxSnapshots :
           /\ \A i \in DOMAIN snapshots : i < h
           /\ DOMAIN snapshots' = DOMAIN snapshots \cup {h}
           /\ \A i \in DOMAIN snapshots : snapshots'[i] = snapshots[i]
           /\ snapshots'[h] = row
<1>1. DOMAIN snapshots \subseteq 1 .. MaxSnapshots
  BY DEF CommentsTyped
<1>2. NewId(snapshots) \in 1 .. MaxSnapshots /\ \A i \in DOMAIN snapshots : i < NewId(snapshots)
  BY <1>1, NewIdIsNew
<1>3. /\ DOMAIN snapshots' = DOMAIN snapshots \cup {NewId(snapshots)}
      /\ snapshots'[NewId(snapshots)] = row
      /\ \A i \in DOMAIN snapshots : snapshots'[i] = snapshots[i]
  BY <1>1, RowAdded
<1> QED
  BY <1>2, <1>3

LEMMA AddKeepsHistory ==
  ASSUME MaxSnapshots \in Nat, CommentsInv, NEW c, NEW author, add_comment(c, author)
  PROVE  CommentsInv'
<1> USE DEF CommentsInv
<1>1. PICK n \in Nat : DOMAIN remarks \subseteq 1 .. n
  BY DEF CommentsTyped
<1> DEFINE new == NewId(remarks)
           row == [card |-> c, author |-> author, text |-> 0, deleted |-> FALSE]
           snap == [remark |-> new, text |-> 0, deleted |-> FALSE]
<1>2. new \in 1 .. n + 1 /\ new \notin DOMAIN remarks
  BY <1>1, NewIdIsNew
<1>3. /\ remarks' = WithRow(remarks, row)
      /\ NewId(snapshots) <= MaxSnapshots
      /\ snapshots' = WithRow(snapshots, snap)
  BY DEF add_comment
<1>4. /\ {"card", "text", "deleted"} \subseteq DOMAIN row
      /\ row.text = 0 /\ row.deleted = FALSE
      /\ {"remark", "text", "deleted"} \subseteq DOMAIN snap
      /\ snap.remark = new /\ snap.text = 0 /\ snap.deleted = FALSE
  OBVIOUS
<1> HIDE DEF row, snap
<1>7. DOMAIN remarks' = DOMAIN remarks \cup {new} /\ remarks'[new] = row
      /\ \A i \in DOMAIN remarks : remarks'[i] = remarks[i]
  BY <1>1, <1>3, RowAdded
<1> HIDE DEF new
<1>5. PICK h \in 1 .. MaxSnapshots :
        /\ \A i \in DOMAIN snapshots : i < h
        /\ DOMAIN snapshots' = DOMAIN snapshots \cup {h}
        /\ \A i \in DOMAIN snapshots : snapshots'[i] = snapshots[i]
        /\ snapshots'[h] = snap
  BY <1>3, SnapshotAdded
<1>6. h \notin DOMAIN snapshots
  BY <1>5 DEF CommentsTyped
<1>8. CommentsTyped'
  <2>1. DOMAIN remarks' \subseteq 1 .. n + 1 /\ n + 1 \in Nat
    BY <1>1, <1>2, <1>7
  <2>2. \A m \in DOMAIN remarks' :
          {"card", "text", "deleted"} \subseteq DOMAIN remarks'[m] /\ remarks'[m].deleted \in BOOLEAN
    BY <1>4, <1>7 DEF CommentsTyped
  <2>3. \A i \in DOMAIN snapshots' :
          /\ {"remark", "text", "deleted"} \subseteq DOMAIN snapshots'[i]
          /\ snapshots'[i].deleted \in BOOLEAN
          /\ snapshots'[i].remark \in DOMAIN remarks'
    BY <1>4, <1>5, <1>7 DEF CommentsTyped
  <2>4. DOMAIN snapshots' \subseteq 1 .. MaxSnapshots
    BY <1>5 DEF CommentsTyped
  <2> QED
    BY <2>1, <2>2, <2>3, <2>4 DEF CommentsTyped
<1>9. ASSUME NEW m \in DOMAIN remarks' PROVE \E k \in History(m)' : LastIs(m, k)'
  <2>1. CASE m = new
    <3>1. History(m)' = {h}
      BY <1>2, <1>4, <1>5, <2>1 DEF History, CommentsTyped
    <3> QED
      BY <1>4, <1>5, <1>7, <2>1, <3>1 DEF LastIs
  <2>2. CASE m # new
    <3>1. History(m)' = History(m)
      BY <1>4, <1>5, <1>6, <2>2 DEF History
    <3>2. PICK k \in History(m) : LastIs(m, k)
      BY <1>7, <1>9, <2>2
    <3> QED
      BY <1>5, <1>7, <1>9, <2>2, <3>1, <3>2 DEF LastIs, History
  <2> QED
    BY <2>1, <2>2
<1> QED
  BY <1>8, <1>9

LEMMA UpdateKeepsHistory ==
  ASSUME MaxSnapshots \in Nat, CommentsInv, NEW m \in DOMAIN remarks, NEW a, UpdateComment(m, a)
  PROVE  CommentsInv'
<1> USE DEF CommentsInv
<1> DEFINE snap == [remark |-> m, text |-> remarks[m].text + 1, deleted |-> FALSE]
<1>6. /\ {"remark", "text", "deleted"} \subseteq DOMAIN snap
      /\ snap.remark = m /\ snap.text = remarks[m].text + 1 /\ snap.deleted = FALSE
  OBVIOUS
<1>7. NewId(snapshots) <= MaxSnapshots /\ snapshots' = WithRow(snapshots, snap)
  BY DEF UpdateComment
<1> HIDE DEF snap
<1>8. PICK h \in 1 .. MaxSnapshots :
        /\ \A i \in DOMAIN snapshots : i < h
        /\ DOMAIN snapshots' = DOMAIN snapshots \cup {h}
        /\ \A i \in DOMAIN snapshots : snapshots'[i] = snapshots[i]
        /\ snapshots'[h] = snap
  BY <1>7, SnapshotAdded
<1>1. /\ \A i \in DOMAIN snapshots : i < h
      /\ DOMAIN snapshots' = DOMAIN snapshots \cup {h}
      /\ \A i \in DOMAIN snapshots : snapshots'[i] = snapshots[i]
      /\ {"remark", "text", "deleted"} \subseteq DOMAIN snapshots'[h]
      /\ snapshots'[h].remark = m /\ snapshots'[h].text = remarks[m].text + 1
      /\ snapshots'[h].deleted = FALSE
  BY <1>6, <1>8
<1>2. h \notin DOMAIN snapshots
  BY <1>1 DEF CommentsTyped
<1>3. /\ DOMAIN remarks' = DOMAIN remarks /\ DOMAIN remarks'[m] = DOMAIN remarks[m]
      /\ \A i \in DOMAIN remarks \ {m} : remarks'[i] = remarks[i]
      /\ remarks'[m].text = remarks[m].text + 1 /\ remarks'[m].deleted = remarks[m].deleted
      /\ remarks[m].deleted = FALSE
  BY DEF UpdateComment, CommentsTyped
<1>4. CommentsTyped'
  BY <1>1, <1>3 DEF CommentsTyped
<1>5. ASSUME NEW x \in DOMAIN remarks' PROVE \E k \in History(x)' : LastIs(x, k)'
  <2>1. PICK k \in History(x) : LastIs(x, k)
    BY <1>3, <1>5
  <2>2. CASE x = m
    <3>1. History(x)' = History(x) \cup {h}
      BY <1>1, <1>2, <2>2 DEF History
    <3>2. \A i \in History(x) : i < h /\ snapshots'[i].deleted = FALSE
      BY <1>1, <1>3, <2>1, <2>2 DEF LastIs, History
    <3> QED
      BY <1>1, <1>3, <2>2, <3>1, <3>2 DEF LastIs
  <2>3. CASE x # m
    <3>1. History(x)' = History(x)
      BY <1>1, <1>2, <2>3 DEF History
    <3> QED
      BY <1>1, <1>3, <1>5, <2>1, <2>3, <3>1 DEF LastIs, History
  <2> QED
    BY <2>2, <2>3
<1> QED
  BY <1>4, <1>5

LEMMA DeletionKeepsHistory ==
  ASSUME CommentsInv, NEW m \in DOMAIN remarks, NEW a, SoftDeleteComment(m, a)
  PROVE  CommentsInv'
<1> USE DEF CommentsInv
<1>1. PICK h \in History(m) : LastIs(m, h)
  OBVIOUS
<1>2. LastSnapshot(m) = h
  BY <1>1, LastIsMax DEF LastSnapshot, History
<1>3. /\ DOMAIN remarks' = DOMAIN remarks /\ DOMAIN remarks'[m] = DOMAIN remarks[m]
      /\ \A i \in DOMAIN remarks \ {m} : remarks'[i] = remarks[i]
      /\ remarks'[m].text = remarks[m].text /\ remarks'[m].deleted = TRUE
  BY DEF SoftDeleteComment, CommentsTyped
<1>4. /\ DOMAIN snapshots' = DOMAIN snapshots /\ DOMAIN snapshots'[h] = DOMAIN snapshots[h]
      /\ \A i \in DOMAIN snapshots \ {h} : snapshots'[i] = snapshots[i]
      /\ snapshots'[h].text = snapshots[h].text /\ snapshots'[h].remark = snapshots[h].remark
      /\ snapshots'[h].deleted = TRUE
  BY <1>1, <1>2 DEF SoftDeleteComment, CommentsTyped, History
<1>5. CommentsTyped'
  <2>1. \A x \in DOMAIN remarks' :
          {"card", "text", "deleted"} \subseteq DOMAIN remarks'[x] /\ remarks'[x].deleted \in BOOLEAN
    BY <1>3 DEF CommentsTyped
  <2>2. \A i \in DOMAIN snapshots' :
          /\ {"remark", "text", "deleted"} \subseteq DOMAIN snapshots'[i]
          /\ snapshots'[i].deleted \in BOOLEAN
          /\ snapshots'[i].remark \in DOMAIN remarks'
    <3>1. \A i \in DOMAIN snapshots : /\ {"remark", "text", "deleted"} \subseteq DOMAIN snapshots[i]
                                     /\ snapshots[i].deleted \in BOOLEAN
                                     /\ snapshots[i].remark \in DOMAIN remarks
      BY DEF CommentsTyped
    <3>2. h \in DOMAIN snapshots
      BY <1>1 DEF History
    <3>3. /\ {"remark", "text", "deleted"} \subseteq DOMAIN snapshots'[h]
          /\ snapshots'[h].deleted \in BOOLEAN /\ snapshots'[h].remark \in DOMAIN remarks'
      BY <1>3, <1>4, <3>1, <3>2
    <3>4. ASSUME NEW i \in DOMAIN snapshots \ {h}
          PROVE  /\ {"remark", "text", "deleted"} \subseteq DOMAIN snapshots'[i]
                 /\ snapshots'[i].deleted \in BOOLEAN /\ snapshots'[i].remark \in DOMAIN remarks'
      BY <1>3, <1>4, <3>1
    <3> QED
      BY <1>4, <3>3, <3>4
  <2> QED
    BY <1>3, <1>4, <2>1, <2>2 DEF CommentsTyped
<1>6. ASSUME NEW x PROVE History(x)' = History(x)
  BY <1>4 DEF History
<1>7. ASSUME NEW x \in DOMAIN remarks' PROVE \E k \in History(x)' : LastIs(x, k)'
  <2>1. CASE x = m
    <3>1. LastIs(m, h)'
      BY <1>1, <1>3, <1>4, <1>6 DEF LastIs, History
    <3> QED
      BY <1>1, <1>6, <2>1, <3>1
  <2>2. CASE x # m
    <3>1. PICK k \in History(x) : LastIs(x, k)
      BY <1>3, <1>7
    <3>2. h \notin History(x)
      BY <1>1, <2>2 DEF History
    <3>3. LastIs(x, k)'
      BY <1>3, <1>4, <1>6, <1>7, <2>2, <3>1, <3>2 DEF LastIs, History
    <3> QED
      BY <1>6, <3>1, <3>3
  <2> QED
    BY <2>1, <2>2
<1> QED
  BY <1>5, <1>7

LEMMA CaseDeletionKeepsHistory ==
  ASSUME CommentsInv, NEW c, DeleteCase(c)
  PROVE  CommentsInv'
<1> USE DEF CommentsInv
<1> DEFINE kept == {m \in DOMAIN remarks : remarks[m].card # c}
<1>1. /\ DOMAIN remarks' = kept /\ \A m \in kept : remarks'[m] = remarks[m]
      /\ DOMAIN snapshots' = {h \in DOMAIN snapshots : snapshots[h].remark \in kept}
      /\ \A h \in DOMAIN snapshots' : snapshots'[h] = snapshots[h]
  BY DEF DeleteCase, OnlyRows
<1>2. CommentsTyped'
  BY <1>1 DEF CommentsTyped
<1>3. ASSUME NEW m \in kept PROVE History(m)' = History(m)
  BY <1>1 DEF History
<1>4. ASSUME NEW m \in DOMAIN remarks' PROVE \E k \in History(m)' : LastIs(m, k)'
  <2>1. m \in kept /\ History(m)' = History(m)
    BY <1>1, <1>3, <1>4
  <2>2. PICK k \in History(m) : LastIs(m, k)
    BY <2>1
  <2>3. LastIs(m, k)'
    BY <1>1, <2>1, <2>2 DEF LastIs, History
  <2> QED
    BY <2>1, <2>2, <2>3
<1> QED
  BY <1>2, <1>4

(* Whatever users and agents comment, edit and delete, with ids given      *)
(* again after a card is deleted, the triggers on the table keep the       *)
(* history of each comment ending in its text and its deletion.            *)
THEOREM HistoryKept ==
  ASSUME MaxSnapshots \in Nat
  PROVE  ComSpec => []HistoryEndsInComment
<1>1. ComInit => CommentsInv
  <2> SUFFICES ASSUME ComInit PROVE CommentsInv
    OBVIOUS
  <2>1. DOMAIN remarks = {} /\ DOMAIN snapshots = {}
    BY DEF ComInit
  <2>2. DOMAIN remarks \subseteq 1 .. 0
    BY <2>1
  <2> QED
    BY <2>1, <2>2 DEF CommentsInv, CommentsTyped
<1>2. CommentsInv /\ [ComNext]_comVars => CommentsInv'
  <2> SUFFICES ASSUME CommentsInv, [ComNext]_comVars PROVE CommentsInv'
    OBVIOUS
  <2>1. CASE UNCHANGED <<remarks, snapshots>>
    BY <2>1 DEF CommentsInv, CommentsTyped, History, LastIs
  <2>2. CASE UNCHANGED comVars
    BY <2>1, <2>2 DEF comVars
  <2>3. ASSUME NEW c \in Cases, NEW s \in Shells, StartStint(c, s) PROVE CommentsInv'
    BY <2>1, <2>3 DEF StartStint
  <2>4. ASSUME NEW r \in DOMAIN stint, EndStint(r) PROVE CommentsInv'
    BY <2>1, <2>4 DEF EndStint
  <2>5. ASSUME NEW c \in Cases, UserComments(c) \/ \E s \in Shells : AgentComments(c, s)
        PROVE  CommentsInv'
    BY <2>5, AddKeepsHistory DEF UserComments, AgentComments
  <2> QED
    BY <2>2, <2>3, <2>4, <2>5, UpdateKeepsHistory, DeletionKeepsHistory, CaseDeletionKeepsHistory
    DEF ComNext
<1>3. CommentsInv => HistoryEndsInComment
  <2> SUFFICES ASSUME CommentsInv, NEW m \in DOMAIN remarks
               PROVE  /\ History(m) # {}
                      /\ \A h \in History(m) :
                           IF h = Max(History(m))
                           THEN /\ snapshots[h].text = remarks[m].text
                                /\ snapshots[h].deleted = remarks[m].deleted
                           ELSE ~snapshots[h].deleted
    BY DEF HistoryEndsInComment, History
  <2>1. PICK h \in History(m) : LastIs(m, h)
    BY DEF CommentsInv
  <2>2. Max(History(m)) = h
    BY <2>1, LastIsMax DEF CommentsInv
  <2> QED
    BY <2>1, <2>2 DEF LastIs
<1> QED
  BY <1>1, <1>2, <1>3, PTL DEF ComSpec

-----------------------------------------------------------------------------
(* Selection: what the persistent context leads to.                        *)

BoardsTyped(rows) ==
  /\ \E S : rows \in Seq(S)
  /\ \A b \in DOMAIN rows : {"proj", "main", "archived"} \subseteq DOMAIN rows[b]
                            /\ rows[b].proj \in Folders

SelTyped ==
  /\ DOMAIN proj = Folders /\ BoardsTyped(bds)
  /\ DOMAIN chosen = Folders /\ DOMAIN asked = Clients
  /\ selection \in Folders \cup {Nobody}
  /\ \A p \in Folders : proj[p] \in {"absent", "active", "archived"}

(* A project's selected board is active, and only an active project has one. *)
ChosenActive ==
  \A p \in Folders : chosen[p] # Nobody => proj[p] = "active" /\ chosen[p] \in ActiveIn(p)

SelectedChosen == selection # Nobody => chosen[selection] # Nobody

ContextInv == ChosenActive /\ SelectedChosen

(* What a request names is there: boards are never deleted nor moved.      *)
RequestTyped(r) ==
  /\ r.op = "open" => r.p \in Folders
  /\ r.op = "project" => r.p \in Folders /\ r.b \in {Nobody} \cup DOMAIN bds
  /\ r.op = "board" => r.b \in DOMAIN bds /\ r.p = bds[r.b].proj

SelInv == SelTyped /\ \A c \in Clients : asked[c] # NoAsk => RequestTyped(asked[c])

-----------------------------------------------------------------------------
(* The choices of a board and of a project.                                *)

LEMMA FirstOfIn ==
  ASSUME NEW S \in SUBSET Nat
  PROVE  FirstOf(S) = Nobody \/ FirstOf(S) \in S
BY MinOf DEF FirstOf

LEMMA FirstInIn ==
  ASSUME NEW seq, NEW S
  PROVE  FirstIn(seq, S) = Nobody \/ FirstIn(seq, S) \in S
<1> DEFINE hits == {i \in 1 .. Len(seq) : seq[i] \in S}
<1>1. hits \in SUBSET Nat
  OBVIOUS
<1>2. hits # {} => Min(hits) \in hits
  BY <1>1, MinOf
<1> QED
  BY <1>2 DEF FirstIn

LEMMA BoardIds ==
  ASSUME NEW rows, BoardsTyped(rows)
  PROVE  /\ DOMAIN rows \in SUBSET (Nat \ {Nobody})
         /\ \A p : ActiveOf(rows, p) \in SUBSET Nat /\ Nobody \notin ActiveOf(rows, p)
         /\ \A p : p \notin Folders => ActiveOf(rows, p) = {}
<1>1. PICK S : rows \in Seq(S)
  BY DEF BoardsTyped
<1>2. DOMAIN rows = 1 .. Len(rows) /\ Len(rows) \in Nat
  BY <1>1
<1>3. DOMAIN rows \in SUBSET (Nat \ {Nobody})
  BY <1>2 DEF Nobody
<1> QED
  BY <1>3 DEF ActiveOf, BoardsTyped

LEMMA ContextBoard ==
  ASSUME BoardsTyped(bds), NEW p
  PROVE  project_context_board(p) = Nobody \/ project_context_board(p) \in ActiveIn(p)
<1>1. ActiveIn(p) \in SUBSET Nat
  BY BoardIds DEF ActiveIn
<1>2. FirstOf(ActiveIn(p)) = Nobody \/ FirstOf(ActiveIn(p)) \in ActiveIn(p)
  BY <1>1, FirstOfIn
<1>3. main_board(p) = Nobody \/ main_board(p) \in ActiveIn(p)
  <2> DEFINE main == {b \in ActiveIn(p) : bds[b].main}
  <2>1. main \in SUBSET Nat /\ main \subseteq ActiveIn(p)
    BY <1>1
  <2>2. FirstOf(main) = Nobody \/ FirstOf(main) \in main
    BY <2>1, FirstOfIn
  <2> QED
    BY <1>2, <2>1, <2>2 DEF main_board
<1>4. FirstIn(recentB[p], ActiveIn(p) \ {chosen[p]}) = Nobody
      \/ FirstIn(recentB[p], ActiveIn(p) \ {chosen[p]}) \in ActiveIn(p) \ {chosen[p]}
  BY FirstInIn
<1> QED
  BY <1>3, <1>4 DEF project_context_board

(* A board that the fallback lands on is an active one of an active project. *)
LEMMA Landing ==
  ASSUME Folders \in SUBSET (Nat \ {Nobody}), NEW rows, BoardsTyped(rows),
         FirstOf(ActiveOf(rows, find_active_project_fallback_tx(rows))) # Nobody
  PROVE  LET project == find_active_project_fallback_tx(rows)
         IN /\ project \in Folders /\ proj[project] = "active"
            /\ FirstOf(ActiveOf(rows, project)) \in ActiveOf(rows, project)
<1> DEFINE project == find_active_project_fallback_tx(rows)
           usable == {p \in Folders : proj[p] = "active" /\ ActiveOf(rows, p) # {}}
<1>1. project = Nobody \/ project \in usable
  <2>1. usable \in SUBSET Nat
    OBVIOUS
  <2>2. FirstIn(recentP, usable) = Nobody \/ FirstIn(recentP, usable) \in usable
    BY FirstInIn
  <2>3. FirstOf(usable) = Nobody \/ FirstOf(usable) \in usable
    BY <2>1, FirstOfIn
  <2> QED
    BY <2>2, <2>3 DEF find_active_project_fallback_tx
<1>2. ActiveOf(rows, project) \in SUBSET Nat
  BY BoardIds
<1>3. FirstOf(ActiveOf(rows, project)) \in ActiveOf(rows, project)
  BY <1>2, FirstOfIn
<1>4. ActiveOf(rows, Nobody) = {}
  BY BoardIds
<1>5. project # Nobody
  BY <1>3, <1>4
<1> QED
  BY <1>1, <1>3, <1>5

-----------------------------------------------------------------------------
(* The two ways a step leaves the context.                                 *)

LEMMA SelectionWritten ==
  ASSUME NEW was, DOMAIN was = Folders, NEW p \in Folders, NEW b,
         write_selection_tx(was, p, b), proj'[p] = "active", b \in ActiveIn(p)',
         \A q \in Folders \ {p} : was[q] # Nobody => proj'[q] = "active" /\ was[q] \in ActiveIn(q)',
         BoardsTyped(bds')
  PROVE  ContextInv'
<1>1. /\ selection' = p /\ DOMAIN chosen' = Folders /\ chosen'[p] = b
      /\ \A q \in Folders \ {p} : chosen'[q] = was[q]
  BY DEF write_selection_tx
<1>2. b # Nobody
  BY BoardIds DEF ActiveIn
<1>3. ChosenActive'
  BY <1>1 DEF ChosenActive
<1> QED
  BY <1>1, <1>2, <1>3 DEF ContextInv, SelectedChosen

LEMMA ContextKept ==
  ASSUME SelInv, ContextInv, UNCHANGED <<selection, chosen>>,
         \A p \in Folders : chosen[p] # Nobody => proj'[p] = "active" /\ chosen[p] \in ActiveIn(p)'
  PROVE  ContextInv'
BY DEF SelInv, ContextInv, ChosenActive, SelectedChosen

(* A board is added: the others stay where they were.                      *)
LEMMA BoardAdded ==
  ASSUME BoardsTyped(bds), NEW p \in Folders, NEW main, bds' = WithBoard(p, main)
  PROVE  /\ BoardsTyped(bds') /\ DOMAIN bds \subseteq DOMAIN bds'
         /\ \A b \in DOMAIN bds : bds'[b] = bds[b]
         /\ \A q : ActiveIn(q) \subseteq ActiveIn(q)'
         /\ NextBoard \in ActiveIn(p)'
<1> DEFINE row == [proj |-> p, main |-> main, archived |-> FALSE]
<1>1. row.proj = p /\ row.archived = FALSE /\ {"proj", "main", "archived"} \subseteq DOMAIN row
  OBVIOUS
<1>2. bds' = Append(bds, row)
  BY DEF WithBoard
<1> HIDE DEF row
<1>3. PICK S : bds \in Seq(S)
  BY DEF BoardsTyped
<1>4. bds \in Seq(S \cup {row})
  BY <1>3, SeqMonotonic
<1>5. /\ bds' \in Seq(S \cup {row}) /\ Len(bds') = Len(bds) + 1
      /\ \A b \in 1 .. Len(bds) : bds'[b] = bds[b]
      /\ bds'[Len(bds) + 1] = row
  BY <1>2, <1>4, AppendProperties
<1>6. DOMAIN bds = 1 .. Len(bds) /\ DOMAIN bds' = 1 .. Len(bds) + 1 /\ Len(bds) \in Nat
  BY <1>4, <1>5
<1>7. NextBoard = Len(bds) + 1 /\ DOMAIN bds' = DOMAIN bds \cup {NextBoard}
  BY <1>6 DEF NextBoard
<1>8. \A b \in DOMAIN bds : bds'[b] = bds[b]
  BY <1>5, <1>6
<1>9. \E T : bds' \in Seq(T)
  BY <1>5
<1>10. \A b \in DOMAIN bds' : {"proj", "main", "archived"} \subseteq DOMAIN bds'[b]
                              /\ bds'[b].proj \in Folders
  BY <1>1, <1>5, <1>7, <1>8 DEF BoardsTyped
<1> QED
  BY <1>1, <1>5, <1>7, <1>8, <1>9, <1>10 DEF BoardsTyped, ActiveIn, ActiveOf

(* A field of one board is written.                                        *)
LEMMA BoardChanged ==
  ASSUME BoardsTyped(bds), NEW b \in DOMAIN bds, NEW v,
         \/ bds' = [bds EXCEPT ![b].main = v]
         \/ bds' = [bds EXCEPT ![b].archived = v]
  PROVE  /\ BoardsTyped(bds') /\ DOMAIN bds' = DOMAIN bds
         /\ \A x \in DOMAIN bds : bds'[x].proj = bds[x].proj
         /\ \A x \in DOMAIN bds \ {b} : bds'[x] = bds[x]
         /\ bds' = [bds EXCEPT ![b].main = v] => bds'[b].archived = bds[b].archived
         /\ bds' = [bds EXCEPT ![b].archived = v] => bds'[b].archived = v
<1>1. PICK r : /\ bds' = [bds EXCEPT ![b] = r]
               /\ DOMAIN r = DOMAIN bds[b] /\ r.proj = bds[b].proj
  <2>1. CASE bds' = [bds EXCEPT ![b].main = v]
    BY <2>1 DEF BoardsTyped
  <2>2. CASE bds' = [bds EXCEPT ![b].archived = v]
    BY <2>2 DEF BoardsTyped
  <2> QED
    BY <2>1, <2>2
<1>2. PICK S : bds \in Seq(S)
  BY DEF BoardsTyped
<1>3. bds \in Seq(S \cup {r}) /\ b \in 1 .. Len(bds)
  BY <1>2, SeqMonotonic
<1>4. bds' \in Seq(S \cup {r})
  BY <1>1, <1>3, ExceptSeq
<1>5. \E T : bds' \in Seq(T)
  BY <1>4
<1>6. DOMAIN bds' = DOMAIN bds /\ bds'[b] = r /\ \A x \in DOMAIN bds \ {b} : bds'[x] = bds[x]
  BY <1>1
<1>7. BoardsTyped(bds')
  BY <1>1, <1>5, <1>6 DEF BoardsTyped
<1>8. \A x \in DOMAIN bds : bds'[x].proj = bds[x].proj
  BY <1>1, <1>6
<1>9. /\ bds' = [bds EXCEPT ![b].main = v] => bds'[b].archived = bds[b].archived
      /\ bds' = [bds EXCEPT ![b].archived = v] => bds'[b].archived = v
  BY DEF BoardsTyped
<1> QED
  BY <1>6, <1>7, <1>8, <1>9

(* What a step may do to the tables, to the context and to the requests    *)
(* without breaking their types.                                           *)
BoardsGrow ==
  /\ BoardsTyped(bds') /\ DOMAIN bds \subseteq DOMAIN bds'
  /\ \A b \in DOMAIN bds : bds'[b].proj = bds[b].proj

ContextTyped == selection' \in Folders \cup {Nobody} /\ DOMAIN chosen' = Folders

LEMMA WriteTyped ==
  ASSUME NEW was, DOMAIN was = Folders, NEW p \in Folders, NEW b, write_selection_tx(was, p, b)
  PROVE  ContextTyped
BY DEF write_selection_tx, ContextTyped

LEMMA RequestStaysTyped ==
  ASSUME NEW r, RequestTyped(r), BoardsGrow
  PROVE  RequestTyped(r)'
BY DEF RequestTyped, BoardsGrow

LEMMA TypesKept ==
  ASSUME SelInv, BoardsGrow, ContextTyped, DOMAIN asked' = Clients,
         \/ proj' = proj
         \/ \E p \in Folders, x \in {"active", "archived"} : proj' = [proj EXCEPT ![p] = x],
         \A c \in Clients : \/ asked'[c] \in {asked[c], NoAsk}
                            \/ \E r : asked'[c] = r /\ RequestTyped(r)
  PROVE  SelInv'
<1>1. DOMAIN proj' = Folders /\ \A p \in Folders : proj'[p] \in {"absent", "active", "archived"}
  BY DEF SelInv, SelTyped
<1>2. SelTyped'
  BY <1>1 DEF BoardsGrow, ContextTyped, SelTyped
<1>3. ASSUME NEW c \in Clients, asked'[c] # NoAsk PROVE RequestTyped(asked[c])'
  <2>1. PICK r : asked'[c] = r /\ RequestTyped(r)
    BY <1>3 DEF SelInv
  <2>2. RequestTyped(r)'
    BY <2>1, RequestStaysTyped
  <2> QED
    BY <2>1, <2>2 DEF RequestTyped
<1> QED
  BY <1>2, <1>3 DEF SelInv

LEMMA KeptTyped ==
  ASSUME SelInv
  PROVE  /\ bds' = bds => BoardsGrow
         /\ KeepContext => ContextTyped
         /\ asked' = asked => DOMAIN asked' = Clients /\ \A c \in Clients : asked'[c] = asked[c]
         /\ \A c \in Clients : Answered(c) =>
              DOMAIN asked' = Clients /\ \A d \in Clients : asked'[d] \in {asked[d], NoAsk}
BY DEF SelInv, SelTyped, BoardsGrow, BoardsTyped, KeepContext, ContextTyped, Answered

(* Every step keeps the types.                                             *)
LEMMA SelTypesInductive ==
  ASSUME Folders \in SUBSET (Nat \ {Nobody}), SelInv, SelNext
  PROVE  SelInv'
<1> USE DEF SelInv, SelTyped
<1>1. ASSUME NEW p \in Folders, CreateProject(p) \/ CreateBoard(p) \/ OpenBoard(p) PROVE SelInv'
  <2>1. /\ proj' = proj \/ proj' = [proj EXCEPT ![p] = "active"]
        /\ bds' = WithBoard(p, TRUE) \/ bds' = WithBoard(p, FALSE)
        /\ write_selection_tx(chosen, p, NextBoard) \/ KeepContext
        /\ asked' = asked
    BY <1>1 DEF CreateProject, CreateBoard, OpenBoard
  <2>2. BoardsGrow
    BY <2>1, BoardAdded DEF BoardsGrow
  <2>3. ContextTyped
    BY <2>1, WriteTyped, KeptTyped
  <2> QED
    BY <2>1, <2>2, <2>3, TypesKept
<1>2. ASSUME NEW b \in DOMAIN bds, RenameBoard(b) \/ RestoreBoard(b) PROVE SelInv'
  <2>1. /\ \/ bds' = [bds EXCEPT ![b].main = ~bds[b].main]
           \/ bds' = [bds EXCEPT ![b].archived = FALSE]
        /\ proj' = proj /\ KeepContext /\ asked' = asked
    BY <1>2 DEF RenameBoard, RestoreBoard
  <2>2. BoardsGrow
    BY <2>1, BoardChanged DEF BoardsGrow
  <2>3. ContextTyped
    BY <2>1, KeptTyped
  <2> QED
    BY <2>1, <2>2, <2>3, TypesKept
<1>3. ASSUME NEW p \in Folders, RestoreProject(p) PROVE SelInv'
  <2>1. /\ proj' = [proj EXCEPT ![p] = "active"] /\ KeepContext /\ bds' = bds /\ asked' = asked
    BY <1>3 DEF RestoreProject
  <2>2. BoardsGrow /\ ContextTyped
    BY <2>1, KeptTyped
  <2> QED
    BY <2>1, <2>2, TypesKept
<1>4. ASSUME NEW b \in DOMAIN bds, ArchiveBoard(b) PROVE SelInv'
  <2> DEFINE p       == bds[b].proj
             project == find_active_project_fallback_tx(bds')
             landing == FirstOf(ActiveOf(bds', project))
             lost    == [chosen EXCEPT ![p] = Nobody]
  <2>1. /\ bds' = [bds EXCEPT ![b].archived = TRUE] /\ proj' = proj /\ asked' = asked
        /\ KeepContext \/ Reselect(bds', p)
    BY <1>4 DEF ArchiveBoard
  <2>2. BoardsGrow
    BY <2>1, BoardChanged DEF BoardsGrow
  <2>3. DOMAIN lost = Folders /\ p \in Folders
    BY DEF BoardsTyped
  <2>4. landing # Nobody => project \in Folders
    BY <2>2, Landing DEF BoardsGrow
  <2>5. ASSUME Reselect(bds', p) PROVE ContextTyped
    <3>1. \/ \E x : write_selection_tx(chosen, p, x)
          \/ chosen' = lost /\ selection' \in {selection, Nobody}
          \/ landing # Nobody /\ write_selection_tx(lost, project, landing)
      BY <2>5 DEF Reselect
    <3> HIDE DEF p, lost, project, landing
    <3>2. CASE \E x : write_selection_tx(chosen, p, x)
      BY <2>3, <3>2, WriteTyped
    <3>3. CASE chosen' = lost /\ selection' \in {selection, Nobody}
      BY <2>3, <3>3 DEF ContextTyped
    <3>4. CASE landing # Nobody /\ write_selection_tx(lost, project, landing)
      BY <2>3, <2>4, <3>4, WriteTyped
    <3> QED
      BY <3>1, <3>2, <3>3, <3>4
  <2> HIDE DEF p, lost, project, landing
  <2>6. ContextTyped
    BY <2>1, <2>5, KeptTyped
  <2> QED
    BY <2>1, <2>2, <2>6, TypesKept
<1>5. ASSUME NEW p \in Folders, ArchiveProject(p) PROVE SelInv'
  <2> DEFINE project == find_active_project_fallback_tx(bds)
             landing == FirstOf(ActiveIn(project))
  <2>1. /\ proj' = [proj EXCEPT ![p] = "archived"] /\ bds' = bds /\ asked' = asked
        /\ \/ KeepContext
           \/ landing # Nobody /\ write_selection_tx(chosen, project, landing)
           \/ selection' = Nobody /\ chosen' = chosen
    BY <1>5 DEF ArchiveProject
  <2>2. landing # Nobody => project \in Folders
    BY Landing DEF ActiveIn
  <2>3. BoardsGrow
    BY <2>1, KeptTyped
  <2> HIDE DEF project, landing
  <2>4. ContextTyped
    BY <2>1, <2>2, WriteTyped, KeptTyped DEF ContextTyped
  <2> QED
    BY <2>1, <2>3, <2>4, TypesKept
<1>6. ASSUME NEW c \in Clients, NEW r, RequestTyped(r), Ask(c, r) PROVE SelInv'
  <2>1. /\ proj' = proj /\ bds' = bds /\ KeepContext /\ asked' = [asked EXCEPT ![c] = r]
    BY <1>6 DEF Ask
  <2>2. BoardsGrow /\ ContextTyped
    BY <2>1, KeptTyped
  <2>3. DOMAIN asked' = Clients /\ asked'[c] = r /\ \A d \in Clients \ {c} : asked'[d] = asked[d]
    BY <2>1
  <2> QED
    BY <1>6, <2>1, <2>2, <2>3, TypesKept
<1>7. ASSUME NEW c \in Clients,
             \/ \E p \in Folders : AskOpen(c, p)
             \/ \E p \in Folders, b \in {Nobody} \cup DOMAIN bds : AskProject(c, p, b)
             \/ \E b \in DOMAIN bds : AskBoard(c, b)
      PROVE  SelInv'
  <2>1. CASE \E p \in Folders : AskOpen(c, p)
    BY <1>6, <2>1 DEF AskOpen, RequestTyped
  <2>2. CASE \E p \in Folders, b \in {Nobody} \cup DOMAIN bds : AskProject(c, p, b)
    BY <1>6, <2>2 DEF AskProject, RequestTyped
  <2>3. CASE \E b \in DOMAIN bds : AskBoard(c, b)
    BY <1>6, <2>3 DEF AskBoard, RequestTyped
  <2> QED
    BY <1>7, <2>1, <2>2, <2>3
<1>8. ASSUME NEW c \in Clients, NEW p \in Folders, Answered(c),
             \/ bds' = bds /\ proj' = proj
             \/ bds' = WithBoard(p, TRUE) /\ proj' = [proj EXCEPT ![p] = "active"],
             KeepContext \/ \E b : write_selection_tx(chosen, p, b)
      PROVE  SelInv'
  <2>1. BoardsGrow
    BY <1>8, KeptTyped, BoardAdded DEF BoardsGrow
  <2>2. ContextTyped
    BY <1>8, KeptTyped, WriteTyped
  <2> QED
    BY <1>8, <2>1, <2>2, KeptTyped, TypesKept
<1>9. ASSUME NEW c \in Clients, NEW p \in Folders,
             \/ open_project_context(c, p)
             \/ \E b \in {Nobody} \cup DOMAIN bds : select_project_by_scope(c, p, b)
      PROVE  SelInv'
  <2>1. CASE open_project_context(c, p)
    BY <1>8, <2>1 DEF open_project_context
  <2>2. CASE \E b \in {Nobody} \cup DOMAIN bds : select_project_by_scope(c, p, b)
    BY <1>8, <2>2 DEF select_project_by_scope
  <2> QED
    BY <1>9, <2>1, <2>2
<1>10. ASSUME NEW c \in Clients, NEW b \in DOMAIN bds, select_board(c, b) PROVE SelInv'
  <2>1. bds[b].proj \in Folders
    BY DEF BoardsTyped
  <2> QED
    BY <1>8, <1>10, <2>1 DEF select_board
<1> QED
  BY <1>1, <1>2, <1>3, <1>4, <1>5, <1>7, <1>9, <1>10 DEF SelNext

(* Projects and boards are created, renamed and restored.                  *)
LEMMA TablesKeepContext ==
  ASSUME SelInv, ContextInv,
         \/ \E p \in Folders : CreateProject(p) \/ OpenBoard(p) \/ CreateBoard(p) \/ RestoreProject(p)
         \/ \E b \in DOMAIN bds : RenameBoard(b) \/ RestoreBoard(b)
  PROVE  ContextInv'
<1> USE DEF SelInv, SelTyped
<1>2. ASSUME NEW p \in Folders, CreateProject(p) \/ CreateBoard(p) PROVE ContextInv'
  <2>1. /\ DOMAIN proj' = Folders /\ proj'[p] = "active"
        /\ \A q \in Folders \ {p} : proj'[q] = proj[q]
        /\ write_selection_tx(chosen, p, NextBoard)
        /\ bds' = WithBoard(p, TRUE) \/ bds' = WithBoard(p, FALSE)
    BY <1>2 DEF CreateProject, CreateBoard
  <2>2. /\ BoardsTyped(bds') /\ \A q : ActiveIn(q) \subseteq ActiveIn(q)'
        /\ NextBoard \in ActiveIn(p)'
    BY <2>1, BoardAdded
  <2>3. \A q \in Folders \ {p} :
          chosen[q] # Nobody => proj'[q] = "active" /\ chosen[q] \in ActiveIn(q)'
    BY <2>1, <2>2 DEF ContextInv, ChosenActive
  <2> QED
    BY <2>1, <2>2, <2>3, SelectionWritten
<1>3. ASSUME NEW p \in Folders, OpenBoard(p) \/ RestoreProject(p) PROVE ContextInv'
  <2>1. /\ DOMAIN proj' = Folders /\ proj'[p] = "active"
        /\ \A q \in Folders \ {p} : proj'[q] = proj[q]
        /\ UNCHANGED <<selection, chosen>>
        /\ bds' = bds \/ bds' = WithBoard(p, TRUE)
    BY <1>3 DEF OpenBoard, RestoreProject, KeepContext
  <2>2. BoardsTyped(bds') /\ \A q : ActiveIn(q) \subseteq ActiveIn(q)'
    <3>1. CASE bds' = bds
      BY <3>1 DEF ActiveIn
    <3>2. CASE bds' = WithBoard(p, TRUE)
      BY <3>2, BoardAdded
    <3> QED
      BY <2>1, <3>1, <3>2
  <2>3. \A q \in Folders : chosen[q] # Nobody => proj'[q] = "active" /\ chosen[q] \in ActiveIn(q)'
    BY <2>1, <2>2 DEF ContextInv, ChosenActive
  <2> QED
    BY <2>1, <2>3, ContextKept
<1>4. ASSUME NEW b \in DOMAIN bds, RenameBoard(b) \/ RestoreBoard(b) PROVE ContextInv'
  <2>1. /\ UNCHANGED <<proj, selection, chosen>>
        /\ \/ bds' = [bds EXCEPT ![b].main = ~bds[b].main]
           \/ bds' = [bds EXCEPT ![b].archived = FALSE]
    BY <1>4 DEF RenameBoard, RestoreBoard, KeepContext
  <2>2. /\ BoardsTyped(bds') /\ DOMAIN bds' = DOMAIN bds
        /\ \A x \in DOMAIN bds : bds'[x].proj = bds[x].proj
        /\ \A x \in DOMAIN bds \ {b} : bds'[x] = bds[x]
        /\ bds'[b].archived = bds[b].archived \/ bds'[b].archived = FALSE
    BY <2>1, BoardChanged
  <2>3. \A q : ActiveIn(q) \subseteq ActiveIn(q)'
    BY <2>2 DEF ActiveIn, ActiveOf
  <2> QED
    BY <2>1, <2>3, ContextKept DEF ContextInv, ChosenActive
<1> QED
  BY <1>2, <1>3, <1>4

(* A board is archived: its project selects another, or the context moves. *)
LEMMA BoardArchiveKeepsContext ==
  ASSUME Folders \in SUBSET (Nat \ {Nobody}), SelInv, ContextInv,
         NEW b \in DOMAIN bds, NEW p, p = bds[b].proj, ArchiveBoard(b)
  PROVE  ContextInv'
<1> USE DEF SelInv, SelTyped
<1>2. proj' = proj /\ bds' = [bds EXCEPT ![b].archived = TRUE] /\ p \in Folders
  BY DEF ArchiveBoard, BoardsTyped
<1>3. /\ BoardsTyped(bds') /\ DOMAIN bds' = DOMAIN bds
      /\ \A x \in DOMAIN bds : bds'[x].proj = bds[x].proj
      /\ \A x \in DOMAIN bds \ {b} : bds'[x] = bds[x]
      /\ bds'[b].archived = TRUE
  BY <1>2, BoardChanged
<1>4. \A q : ActiveIn(q)' = ActiveIn(q) \ {b}
  BY <1>3 DEF ActiveIn, ActiveOf
<1>5. \A q \in Folders \ {p} : b \notin ActiveIn(q)
  BY DEF ActiveIn, ActiveOf
<1>6. \A q \in Folders \ {p} :
        chosen[q] # Nobody => proj'[q] = "active" /\ chosen[q] \in ActiveIn(q)'
  BY <1>2, <1>4, <1>5 DEF ContextInv, ChosenActive
<1>7. CASE chosen[p] # b
  <2>1. UNCHANGED <<selection, chosen>>
    BY <1>7 DEF ArchiveBoard, KeepContext
  <2>2. \A q \in Folders : chosen[q] # Nobody => proj'[q] = "active" /\ chosen[q] \in ActiveIn(q)'
    BY <1>2, <1>4, <1>6, <1>7 DEF ContextInv, ChosenActive
  <2> QED
    BY <2>1, <2>2, ContextKept
<1>8. CASE chosen[p] = b
  <2> DEFINE active  == ActiveOf(bds', p)
             recent  == FirstIn(recentB[p], active)
             lost    == [chosen EXCEPT ![p] = Nobody]
             project == find_active_project_fallback_tx(bds')
             landing == FirstOf(ActiveOf(bds', project))
  <2>1. Reselect(bds', p)
    BY <1>8 DEF ArchiveBoard
  <2>2. proj[p] = "active"
    <3>1. b # Nobody
      BY BoardIds
    <3> QED
      BY <1>2, <1>8, <3>1 DEF ContextInv, ChosenActive
  <2>3. /\ DOMAIN lost = Folders /\ lost[p] = Nobody
        /\ \A q \in Folders \ {p} : lost[q] = chosen[q]
    BY <1>2
  <2>4. CASE active # {} /\ write_selection_tx(chosen, p, IF recent # Nobody THEN recent ELSE FirstOf(active))
    <3>1. FirstOf(active) \in active
      <4>1. active \in SUBSET Nat
        BY <1>3, BoardIds
      <4> QED
        BY <2>4, <4>1, MinOf DEF FirstOf
    <3>2. (IF recent # Nobody THEN recent ELSE FirstOf(active)) \in active
      BY <3>1, FirstInIn
    <3>3. PICK x \in active : write_selection_tx(chosen, p, x)
      BY <2>4, <3>2
    <3>5. x \in ActiveIn(p)'
      BY <3>3 DEF ActiveIn
    <3> HIDE DEF active, recent
    <3> QED
      BY <1>2, <1>3, <1>6, <2>2, <3>3, <3>5, SelectionWritten
  <2>5. CASE selection # p /\ chosen' = lost /\ selection' = selection
    <3>1. ChosenActive'
      BY <1>6, <2>3, <2>5 DEF ChosenActive
    <3>2. SelectedChosen'
      BY <2>3, <2>5 DEF ContextInv, SelectedChosen
    <3> QED
      BY <3>1, <3>2 DEF ContextInv
  <2>6. CASE active = {} /\ landing # Nobody /\ write_selection_tx(lost, project, landing)
    <3>1. project \in Folders /\ proj[project] = "active" /\ landing \in ActiveOf(bds', project)
      BY <1>3, <2>6, Landing
    <3>2. PICK q, l :
            q \in Folders /\ proj[q] = "active" /\ l \in ActiveOf(bds', q) /\ write_selection_tx(lost, q, l)
      BY <2>6, <3>1
    <3>3. l \in ActiveIn(q)'
      BY <3>2 DEF ActiveIn
    <3> HIDE DEF lost, project, landing
    <3>5. \A x \in Folders \ {q} :
            lost[x] # Nobody => proj'[x] = "active" /\ lost[x] \in ActiveIn(x)'
      BY <1>6, <2>3
    <3> QED
      BY <1>2, <1>3, <2>3, <3>2, <3>3, <3>5, SelectionWritten
  <2>7. CASE chosen' = lost /\ selection' = Nobody
    <3>1. ChosenActive' /\ SelectedChosen'
      BY <1>6, <2>3, <2>7 DEF ChosenActive, SelectedChosen
    <3> QED
      BY <3>1 DEF ContextInv
  <2> QED
    BY <2>1, <2>4, <2>5, <2>6, <2>7 DEF Reselect
<1> QED
  BY <1>7, <1>8

(* A project is archived: it had no active board, so none was selected.    *)
LEMMA ProjectArchiveKeepsContext ==
  ASSUME Folders \in SUBSET (Nat \ {Nobody}), SelInv, ContextInv,
         NEW p \in Folders, ArchiveProject(p)
  PROVE  ContextInv'
<1> USE DEF SelInv, SelTyped
<1> DEFINE project == find_active_project_fallback_tx(bds)
           landing == FirstOf(ActiveIn(project))
<1>2. /\ bds' = bds /\ DOMAIN proj' = Folders
      /\ \A q \in Folders \ {p} : proj'[q] = proj[q]
      /\ ActiveIn(p) = {} /\ proj'[p] = "archived"
  BY DEF ArchiveProject
<1>3. chosen[p] = Nobody
  BY <1>2 DEF ContextInv, ChosenActive
<1>4. \A q : ActiveIn(q)' = ActiveIn(q)
  BY <1>2 DEF ActiveIn
<1>5. \A q \in Folders : chosen[q] # Nobody => proj'[q] = "active" /\ chosen[q] \in ActiveIn(q)'
  BY <1>2, <1>3, <1>4 DEF ContextInv, ChosenActive
<1>6. CASE UNCHANGED <<selection, chosen>>
  BY <1>5, <1>6, ContextKept
<1>7. CASE landing # Nobody /\ write_selection_tx(chosen, project, landing)
  <2>1. project \in Folders /\ proj[project] = "active" /\ landing \in ActiveIn(project)
    BY <1>7, Landing DEF ActiveIn
  <2>4. PICK q, l :
          q \in Folders /\ proj[q] = "active" /\ l \in ActiveIn(q) /\ write_selection_tx(chosen, q, l)
    BY <1>7, <2>1
  <2>2. q # p
    BY <1>2, <2>4
  <2> HIDE DEF project, landing
  <2> QED
    BY <1>2, <1>4, <1>5, <2>2, <2>4, SelectionWritten
<1>8. CASE selection' = Nobody /\ chosen' = chosen
  <2>1. ChosenActive' /\ SelectedChosen'
    BY <1>5, <1>8 DEF ChosenActive, SelectedChosen
  <2> QED
    BY <2>1 DEF ContextInv
<1> QED
  BY <1>6, <1>7, <1>8 DEF ArchiveProject, KeepContext

(* A selecting request is checked, and then writes: while what its check   *)
(* found still holds, the context it writes resolves.                      *)
LEMMA ChecksKeepContext ==
  ASSUME SelInv, ContextInv, NEW c \in Clients,
         \/ \E p \in Folders : AskOpen(c, p)
         \/ \E p \in Folders, b \in {Nobody} \cup DOMAIN bds : AskProject(c, p, b)
         \/ \E b \in DOMAIN bds : AskBoard(c, b)
  PROVE  ContextInv'
<1>1. UNCHANGED <<selection, chosen, proj, bds>>
  BY DEF AskOpen, AskProject, AskBoard, Ask, KeepContext
<1> QED
  BY <1>1 DEF ContextInv, ChosenActive, SelectedChosen, ActiveIn

LEMMA SelectionsKeepContext ==
  ASSUME SelInv, ContextInv, NEW c \in Clients, ~Overtaken(c),
         \/ \E p \in Folders : open_project_context(c, p)
         \/ \E p \in Folders, b \in {Nobody} \cup DOMAIN bds : select_project_by_scope(c, p, b)
         \/ \E b \in DOMAIN bds : select_board(c, b)
  PROVE  ContextInv'
<1> USE DEF SelInv, SelTyped
<1>3. ASSUME KeepContext, UNCHANGED <<proj, bds>> PROVE ContextInv'
  BY <1>3 DEF KeepContext, ContextInv, ChosenActive, SelectedChosen, ActiveIn
<1>4. ASSUME NEW p \in Folders, NEW b \in ActiveIn(p), proj[p] = "active",
             write_selection_tx(chosen, p, b), UNCHANGED <<proj, bds>>
      PROVE  ContextInv'
  <2>1. \A q : ActiveIn(q)' = ActiveIn(q)
    BY <1>4 DEF ActiveIn
  <2>2. \A q \in Folders \ {p} :
          chosen[q] # Nobody => proj'[q] = "active" /\ chosen[q] \in ActiveIn(q)'
    BY <1>4, <2>1 DEF ContextInv, ChosenActive
  <2> QED
    BY <1>4, <2>1, <2>2, SelectionWritten
<1>5. ASSUME NEW p \in Folders, open_project_context(c, p) PROVE ContextInv'
  <2>1. asked[c].op = "open" /\ asked[c].p = p
    BY <1>5 DEF open_project_context
  <2>2. proj[p] # "archived"
    BY <2>1 DEF Overtaken
  <2>3. CASE proj[p] = "absent" /\ proj' = [proj EXCEPT ![p] = "active"]
             /\ bds' = WithBoard(p, TRUE) /\ write_selection_tx(chosen, p, NextBoard)
    <3>1. /\ BoardsTyped(bds') /\ \A q : ActiveIn(q) \subseteq ActiveIn(q)'
          /\ NextBoard \in ActiveIn(p)'
      BY <2>3, BoardAdded
    <3>2. \A q \in Folders \ {p} :
            chosen[q] # Nobody => proj'[q] = "active" /\ chosen[q] \in ActiveIn(q)'
      BY <2>3, <3>1 DEF ContextInv, ChosenActive
    <3> QED
      BY <2>3, <3>1, <3>2, SelectionWritten
  <2>4. CASE proj[p] # "absent" /\ project_context_board(p) # Nobody
             /\ write_selection_tx(chosen, p, project_context_board(p)) /\ UNCHANGED <<proj, bds>>
    <3>1. project_context_board(p) \in ActiveIn(p)
      BY <2>4, ContextBoard
    <3>2. proj[p] = "active"
      BY <2>2, <2>4
    <3> QED
      BY <1>4, <2>4, <3>1, <3>2
  <2>5. CASE KeepContext /\ UNCHANGED <<proj, bds>>
    BY <1>3, <2>5
  <2> QED
    BY <1>5, <2>3, <2>4, <2>5 DEF open_project_context
<1>6. ASSUME NEW p \in Folders, NEW b \in {Nobody} \cup DOMAIN bds, select_project_by_scope(c, p, b)
      PROVE  ContextInv'
  <2> DEFINE board == IF b # Nobody THEN b ELSE project_context_board(p)
  <2>1. UNCHANGED <<proj, bds>> /\ asked[c] = [op |-> "project", p |-> p, b |-> b]
    BY <1>6 DEF select_project_by_scope
  <2>2. proj[p] = "active" /\ (b # Nobody => b \in DOMAIN bds /\ ~bds[b].archived)
    BY <2>1 DEF Overtaken, SelInv, RequestTyped, NoAsk
  <2>3. CASE board # Nobody /\ bds[board].proj = p /\ write_selection_tx(chosen, p, board)
    <3>1. board \in ActiveIn(p)
      BY <2>2, <2>3, ContextBoard DEF ActiveIn, ActiveOf
    <3> QED
      BY <1>4, <2>1, <2>2, <2>3, <3>1
  <2>4. CASE KeepContext
    BY <1>3, <2>1, <2>4
  <2> QED
    BY <1>6, <2>3, <2>4 DEF select_project_by_scope
<1>7. ASSUME NEW b \in DOMAIN bds, select_board(c, b) PROVE ContextInv'
  <2>1. /\ asked[c].op = "board" /\ asked[c].b = b /\ UNCHANGED <<proj, bds>>
        /\ write_selection_tx(chosen, bds[b].proj, b)
    BY <1>7 DEF select_board
  <2>2. proj[bds[b].proj] = "active" /\ b \in ActiveIn(bds[b].proj) /\ bds[b].proj \in Folders
    BY <2>1 DEF Overtaken, SelInv, RequestTyped, NoAsk, ActiveIn, ActiveOf, BoardsTyped
  <2> QED
    BY <1>4, <2>1, <2>2
<1> QED
  BY <1>5, <1>6, <1>7

(* A request is let through only while it holds.                           *)
LEMMA LetThrough ==
  ASSUME SelInv, [SelNext]_selVars, NEW c \in Clients, asked'[c] \notin {asked[c], NoAsk}
  PROVE  ~Overtaken(c)'
<1> USE DEF SelInv, SelTyped
<1>1. PICK d \in Clients : \/ \E p \in Folders : AskOpen(d, p)
                           \/ \E p \in Folders, b \in {Nobody} \cup DOMAIN bds : AskProject(d, p, b)
                           \/ \E b \in DOMAIN bds : AskBoard(d, b)
  BY DEF SelNext, selVars, CreateProject, OpenBoard, CreateBoard, RenameBoard, ArchiveBoard,
         RestoreBoard, ArchiveProject, RestoreProject, open_project_context,
         select_project_by_scope, select_board, Answered
<1>2. UNCHANGED <<proj, bds>>
  BY <1>1 DEF AskOpen, AskProject, AskBoard, Ask
<1>3. d = c
  BY <1>1 DEF AskOpen, AskProject, AskBoard, Ask
<1>4. CASE \E p \in Folders : AskOpen(c, p)
  BY <1>2, <1>4 DEF AskOpen, Ask, Overtaken
<1>5. CASE \E p \in Folders, b \in {Nobody} \cup DOMAIN bds : AskProject(c, p, b)
  BY <1>2, <1>5 DEF AskProject, Ask, Overtaken
<1>6. CASE \E b \in DOMAIN bds : AskBoard(c, b)
  BY <1>2, <1>6 DEF AskBoard, Ask, Overtaken
<1> QED
  BY <1>1, <1>3, <1>4, <1>5, <1>6

LEMMA ContextSteps ==
  ASSUME Folders \in SUBSET (Nat \ {Nobody}), SelInv, ContextInv, SelNext
  PROVE  ContextInv' \/ \E c \in Clients : Overtaken(c) /\ asked'[c] = NoAsk
<1>1. ASSUME NEW p \in Folders,
             CreateProject(p) \/ OpenBoard(p) \/ CreateBoard(p) \/ RestoreProject(p)
      PROVE  ContextInv'
  BY <1>1, TablesKeepContext
<1>2. ASSUME NEW b \in DOMAIN bds, RenameBoard(b) \/ RestoreBoard(b) PROVE ContextInv'
  BY <1>2, TablesKeepContext
<1>3. ASSUME NEW c \in Clients,
             \/ \E p \in Folders : AskOpen(c, p)
             \/ \E p \in Folders, b \in {Nobody} \cup DOMAIN bds : AskProject(c, p, b)
             \/ \E b \in DOMAIN bds : AskBoard(c, b)
      PROVE  ContextInv'
  BY <1>3, ChecksKeepContext
<1>4. ASSUME NEW c \in Clients,
             \/ \E p \in Folders : open_project_context(c, p)
             \/ \E p \in Folders, b \in {Nobody} \cup DOMAIN bds : select_project_by_scope(c, p, b)
             \/ \E b \in DOMAIN bds : select_board(c, b)
      PROVE  ContextInv' \/ (Overtaken(c) /\ asked'[c] = NoAsk)
  <2>1. asked'[c] = NoAsk
    BY <1>4 DEF open_project_context, select_project_by_scope, select_board, Answered, SelInv, SelTyped
  <2>2. ~Overtaken(c) => ContextInv'
    BY <1>4, SelectionsKeepContext
  <2> QED
    BY <2>1, <2>2
<1>5. ASSUME NEW b \in DOMAIN bds, ArchiveBoard(b) PROVE ContextInv'
  <2>1. PICK p : p = bds[b].proj
    OBVIOUS
  <2> QED
    BY <1>5, <2>1, BoardArchiveKeepsContext
<1>6. ASSUME NEW p \in Folders, ArchiveProject(p) PROVE ContextInv'
  BY <1>6, ProjectArchiveKeepsContext
<1>7. ASSUME NEW c \in Clients,
             \/ \E p \in Folders : open_project_context(c, p)
             \/ \E p \in Folders, b \in {Nobody} \cup DOMAIN bds : select_project_by_scope(c, p, b)
             \/ \E b \in DOMAIN bds : select_board(c, b)
      PROVE  ContextInv' \/ \E d \in Clients : Overtaken(d) /\ asked'[d] = NoAsk
  BY <1>4, <1>7
<1> QED
  BY <1>1, <1>2, <1>3, <1>5, <1>6, <1>7 DEF SelNext

LEMMA ResolvesMeans ==
  ASSUME SelInv
  PROVE  Resolves <=> ContextInv
BY DEF SelInv, Resolves, ContextInv, ChosenActive, SelectedChosen, project_context_board

(* Whatever any number of clients create, rename, archive, restore and     *)
(* select, the context leads to an active board of an active project, save *)
(* after the write of a request whose check an archive has overtaken; for  *)
(* any number of clients, projects and boards.                             *)
THEOREM ContextResolves ==
  ASSUME Folders \in SUBSET (Nat \ {Nobody}), Global \in Folders
  PROVE  SelSpec => SelectedResolves
<1>1. SelInit => SelInv /\ Resolves
  <2> SUFFICES ASSUME SelInit PROVE SelInv /\ Resolves
    OBVIOUS
  <2> DEFINE row == [proj |-> Global, main |-> TRUE, archived |-> FALSE]
  <2>1. bds \in Seq({row}) /\ DOMAIN bds = {1} /\ bds[1] = row
    BY DEF SelInit
  <2>2. BoardsTyped(bds)
    BY <2>1 DEF BoardsTyped
  <2>3. SelInv
    BY <2>2 DEF SelInit, SelInv, SelTyped
  <2> QED
    BY <2>3 DEF SelInit, Resolves
<1>2. SelInv /\ [SelNext]_selVars => SelInv'
  <2> SUFFICES ASSUME SelInv, UNCHANGED selVars PROVE SelInv'
    BY SelTypesInductive
  <2> QED
    BY DEF selVars, SelInv, SelTyped, RequestTyped
<1>3. SelInv /\ SelInv' /\ [SelNext]_selVars =>
        [Resolves => Resolves' \/ \E c \in Clients : Overtaken(c) /\ asked'[c] = NoAsk]_selVars
  <2> SUFFICES ASSUME SelInv, SelInv', SelNext, Resolves
               PROVE  Resolves' \/ \E c \in Clients : Overtaken(c) /\ asked'[c] = NoAsk
    OBVIOUS
  <2>1. ContextInv
    BY ResolvesMeans
  <2>2. ContextInv' => Resolves'
    BY ResolvesMeans, PTL
  <2> QED
    BY <2>1, <2>2, ContextSteps
<1>4. SelInv /\ [SelNext]_selVars =>
        [\A c \in Clients : asked'[c] \in {asked[c], NoAsk} \/ ~Overtaken(c)']_selVars
  BY LetThrough
<1> QED
  BY <1>1, <1>2, <1>3, <1>4, PTL DEF SelSpec, SelectedResolves

-----------------------------------------------------------------------------
(* Migrations: what an interrupted open leaves.                            *)

ChainSteps == {"closed", "stamp", "amend", "ready"}

(* A file stamped 6 or more is only ever before steps it has the stamp for. *)
OpenInv ==
  /\ stamp \in 0 .. SCHEMA_VERSION
  /\ stamp >= 6 => \/ step \in ChainSteps
                   \/ step \in ReplaySteps /\ VersionOf[step] > stamp

LEMMA ChainGoesOn ==
  ASSUME stamp \in 1 .. SCHEMA_VERSION, NEW s
  PROVE  After(s) = "stamp" \/ (After(s) \in ReplaySteps /\ VersionOf[After(s)] > stamp)
<1> DEFINE later == {i \in DOMAIN Replay : /\ \A k \in DOMAIN Replay : Replay[k] = s => i > k
                                           /\ stamp = 0 \/ VersionOf[Replay[i]] > stamp}
           first == CHOOSE i \in later : \A k \in later : i <= k
<1>1. DOMAIN Replay \subseteq Nat
  BY DEF Replay
<1>2. After(s) = IF later = {} THEN "stamp" ELSE Replay[first]
  BY DEF After, SCHEMA_VERSION
<1>3. ASSUME later # {} PROVE first \in later
  <2>1. later \in SUBSET Nat
    BY <1>1
  <2> HIDE DEF later
  <2>2. \E i \in later : \A k \in later : i <= k
    BY <1>3, <2>1, LeastNatural
  <2> QED
    BY <2>2
<1>4. DOMAIN VersionOf = {Replay[i] : i \in DOMAIN Replay}
  BY DEF VersionOf
<1>5. \A i \in later : Replay[i] \in ReplaySteps /\ VersionOf[Replay[i]] > stamp
  BY <1>4 DEF ReplaySteps, SCHEMA_VERSION
<1> HIDE DEF later, first
<1> QED
  BY <1>2, <1>3, <1>5

(* The steps of a version after 6 look at the shape first.                 *)
LEMMA LateStepsGuarded ==
  ASSUME NEW s \in ReplaySteps
  PROVE  VersionOf[s] \in Nat /\ (VersionOf[s] > 6 => s \in Guarded)
<1>1. s \in {"v2", "v3", "v4", "v5", "v6", "v7to13", "v14", "v15projects", "v15boards", "v16"}
  BY DEF ReplaySteps, VersionOf, Replay
<1>2. ReplaySteps = {Replay[i] : i \in DOMAIN Replay}
  BY DEF ReplaySteps, VersionOf
<1>3. /\ s = "v2" => VersionOf[s] = 2
      /\ s = "v3" => VersionOf[s] = 3
      /\ s = "v4" => VersionOf[s] = 4
      /\ s = "v5" => VersionOf[s] = 5
      /\ s = "v6" => VersionOf[s] = 6
  BY <1>2 DEF VersionOf
<1>4. /\ s = "v7to13" => VersionOf[s] = 13
      /\ s = "v14" => VersionOf[s] = 14
      /\ s \in {"v15projects", "v15boards"} => VersionOf[s] = 15
      /\ s = "v16" => VersionOf[s] = 16
  BY <1>2 DEF VersionOf
<1> QED
  BY <1>1, <1>3, <1>4 DEF Guarded

(* A file stamped 6 or more is never refused, however often the daemon     *)
(* stops while it opens it and at whatever step.                           *)
THEOREM GuardedOpensRecover ==
  ASSUME Starts \subseteq 0 .. SCHEMA_VERSION
  PROVE  MigSpec => []GuardedOpenRecovers
<1>1. MigInit => OpenInv
  BY DEF MigInit, OpenInv, ChainSteps
<1>2. OpenInv /\ [MigNext]_migVars => OpenInv'
  <2> SUFFICES ASSUME OpenInv, [MigNext]_migVars PROVE OpenInv'
    OBVIOUS
  <2>1. \A s : stamp >= 6 =>
          After(s) = "stamp" \/ (After(s) \in ReplaySteps /\ VersionOf[After(s)] > stamp)
    BY ChainGoesOn DEF OpenInv, SCHEMA_VERSION
  <2>2. CASE UNCHANGED migVars
    BY <2>2 DEF OpenInv, migVars
  <2>3. CASE OpenFile
    BY <2>1, <2>3 DEF OpenFile, OpenInv, ChainSteps
  <2>4. ASSUME NEW s \in FreshSteps \cup ReplaySteps, Migrate(s) PROVE OpenInv'
    <3>1. stamp' = stamp /\ step = s /\ (step' = After(s) \/ Refused(s))
      BY <2>4 DEF Migrate
    <3>2. ASSUME stamp >= 6 PROVE s \in ReplaySteps /\ VersionOf[s] > stamp
      <4>1. s \notin ChainSteps
        <5>1. FreshSteps \cap ChainSteps = {}
          BY DEF FreshSteps, Fresh, ChainSteps
        <5>2. ReplaySteps \cap ChainSteps = {}
          BY DEF ReplaySteps, VersionOf, Replay, ChainSteps
        <5> QED
          BY <5>1, <5>2
      <4> QED
        BY <3>1, <3>2, <4>1 DEF OpenInv
    <3>3. ASSUME stamp >= 6 PROVE ~Refused(s)
      <4>1. s \in ReplaySteps /\ VersionOf[s] > stamp
        BY <3>2, <3>3
      <4>2. VersionOf[s] \in Nat
        BY <4>1, LateStepsGuarded
      <4>3. VersionOf[s] > 6
        BY <3>3, <4>1, <4>2 DEF OpenInv, SCHEMA_VERSION
      <4> QED
        BY <4>1, <4>3, LateStepsGuarded DEF Refused
    <3>4. ASSUME stamp >= 6 PROVE step' = "stamp" \/ (step' \in ReplaySteps /\ VersionOf[step'] > stamp)
      BY <2>1, <3>1, <3>3, <3>4
    <3> QED
      BY <3>1, <3>4 DEF OpenInv, ChainSteps
  <2>5. CASE Stamp
    BY <2>5 DEF Stamp, OpenInv, ChainSteps, SCHEMA_VERSION
  <2>6. CASE amend_v16_local_state
    BY <2>6 DEF amend_v16_local_state, OpenInv, ChainSteps
  <2>7. CASE Stop
    BY <2>7 DEF Stop, OpenInv, ChainSteps
  <2> QED
    BY <2>2, <2>3, <2>4, <2>5, <2>6, <2>7 DEF MigNext
<1>3. OpenInv => GuardedOpenRecovers
  <2>1. "refused" \notin ReplaySteps
    BY DEF ReplaySteps, VersionOf, Replay
  <2> QED
    BY <2>1 DEF OpenInv, GuardedOpenRecovers, ChainSteps
<1> QED
  BY <1>1, <1>2, <1>3, PTL DEF MigSpec

-----------------------------------------------------------------------------
(* LinearLinks: who holds an issue.                                        *)

\* Every worktree has a row, and the rows are what OneHolder speaks of.
HeldInv == held \in [Worktrees -> Issues \cup {NoIssue}] /\ OneHolder

\* A worktree is linked to an issue after a check that no other holds it.
LEMMA LinkStep ==
  ASSUME HeldInv, NEW w \in Worktrees, NEW i \in Issues, ~HeldElsewhere(i, w),
         set_worktree_binding(w, i)
  PROVE  HeldInv'
<1>1. held' = [held EXCEPT ![w] = i] /\ held \in [Worktrees -> Issues \cup {NoIssue}]
  BY DEF set_worktree_binding, HeldInv
<1>2. \A x \in Worktrees \ {w} : held[x] # i
  BY DEF HeldElsewhere
<1>3. held' \in [Worktrees -> Issues \cup {NoIssue}]
  BY <1>1
<1>4. OneHolder'
  <2> SUFFICES ASSUME NEW x \in Worktrees, NEW y \in Worktrees,
                      held'[x] = held'[y], held'[x] # NoIssue
               PROVE  x = y
    BY DEF OneHolder
  <2>1. CASE x = w \/ y = w
    BY <1>1, <1>2, <2>1
  <2>2. CASE x # w /\ y # w
    BY <1>1, <2>2 DEF HeldInv, OneHolder
  <2> QED
    BY <2>1, <2>2
<1> QED
  BY <1>3, <1>4 DEF HeldInv

LEMMA HeldUnchanged ==
  ASSUME HeldInv, UNCHANGED held
  PROVE  HeldInv'
BY DEF HeldInv, OneHolder

\* A report links only a session's own unbound worktree, after the same check.
LEMMA RecordStep ==
  ASSUME HeldInv, NEW i \in Issues \cup {NoIssue}, NEW saves \in BOOLEAN, NEW pane \in BOOLEAN,
         NEW w \in Worktrees \cup {NoWorktree}, Record(i, saves, pane, w)
  PROVE  HeldInv'
<1> DEFINE links == /\ saves /\ i # NoIssue /\ HeldBy(w) # i
                    /\ pane /\ spaceBound
                    /\ w # NoWorktree /\ HeldBy(w) = NoIssue /\ ~HeldElsewhere(i, w)
<1>1. IF links THEN set_worktree_binding(w, i) ELSE UNCHANGED held
  BY DEF Record
<1>2. CASE links
  BY <1>1, <1>2, LinkStep
<1>3. CASE ~links
  BY <1>1, <1>3, HeldUnchanged
<1> QED
  BY <1>2, <1>3

LEMMA HeldStep ==
  ASSUME HeldInv, Next
  PROVE  HeldInv'
<1>1. ASSUME NEW w \in Worktrees, Unbind(w)
      PROVE  HeldInv'
  BY <1>1 DEF Unbind, HeldInv, OneHolder
<1>2. ASSUME NEW w \in Worktrees, NEW i \in Issues, Bind(w, i) \/ LinkImport(w, i)
      PROVE  HeldInv'
  BY <1>2, LinkStep DEF Bind, LinkImport
<1>3. ASSUME NEW i \in Issues \cup {NoIssue}, NEW saves \in BOOLEAN, NEW pane \in BOOLEAN,
             NEW w \in Worktrees \cup {NoWorktree}, Record(i, saves, pane, w)
      PROVE  HeldInv'
  BY <1>3, RecordStep
<1>4. ASSUME NEW i \in Issues, NEW o \in Authors,
             MarkSet(i, o) \/ Unmark(i, o) \/ NoteSet(i, o) \/ ClearShown(i)
      PROVE  HeldInv'
  BY <1>4, HeldUnchanged DEF MarkSet, Unmark, NoteSet, ClearShown
<1>5. CASE SpaceBind \/ SpaceImport \/ ReadMarks
  BY <1>5, HeldUnchanged DEF SpaceBind, SpaceImport, ReadMarks
<1>6. ASSUME NEW i \in Issues, ClearShown(i)
      PROVE  HeldInv'
  BY <1>6, HeldUnchanged DEF ClearShown
<1>7. ASSUME NEW m \in seen, DismissSuggestion(m)
      PROVE  HeldInv'
  BY <1>7, HeldUnchanged DEF DismissSuggestion
<1>8. ASSUME NEW n \in notes, NoteClear(n)
      PROVE  HeldInv'
  BY <1>8, HeldUnchanged DEF NoteClear
<1> QED
  BY <1>1, <1>2, <1>3, <1>4, <1>5, <1>6, <1>7, <1>8 DEF Next

(* Two worktrees never hold one issue, however binds by hand, links from   *)
(* reported writes and imports interleave (db/linear_writes.rs,            *)
(* record_activity; import.rs).                                            *)
THEOREM OneHolderAlways == Spec => []OneHolder
<1>1. Init => HeldInv
  BY DEF Init, HeldInv, OneHolder
<1>2. HeldInv /\ [Next]_vars => HeldInv'
  BY HeldStep, HeldUnchanged DEF vars
<1>3. HeldInv => OneHolder
  BY DEF HeldInv
<1> QED
  BY <1>1, <1>2, <1>3, PTL DEF Spec

-----------------------------------------------------------------------------
(* ShowRequests: the questions agents ask.                                 *)

Row == [owner : Askers, issue : Wanted, outcome : Outcomes, expires : Int]

\* The types the arithmetic of an expiry needs.
ShowTyped == time \in Int /\ requests \in Seq(Row)

\* What a step may do to the rows: none goes, none changes its question, and a
\* row that has its answer stays as it is.
RowsKept ==
  /\ DOMAIN requests \subseteq DOMAIN requests'
  /\ \A r \in DOMAIN requests :
       /\ requests'[r].owner = requests[r].owner
       /\ requests'[r].issue = requests[r].issue
       /\ requests[r].outcome # Open => requests'[r] = requests[r]

\* A question that is pending after a step was pending before it.
NoneAsked == Pending' \subseteq Pending

LEMMA PendingMeans ==
  ASSUME NEW r
  PROVE  r \in Pending <=> /\ r \in DOMAIN requests
                           /\ requests[r].outcome = Open
                           /\ ~(time >= requests[r].expires)
BY DEF Pending, open_show_requests, is_pending, is_overdue

LEMMA NoneAskedKeepsOne ==
  ASSUME OnePendingPerOwner, RowsKept, NoneAsked
  PROVE  OnePendingPerOwner'
<1> SUFFICES ASSUME NEW r \in Pending', NEW s \in Pending',
                    requests'[r].owner = requests'[s].owner,
                    requests'[r].issue = requests'[s].issue
             PROVE  r = s
  BY DEF OnePendingPerOwner
<1>1. r \in Pending /\ s \in Pending
  BY DEF NoneAsked
<1>2. r \in DOMAIN requests /\ s \in DOMAIN requests
  BY <1>1, PendingMeans
<1> QED
  BY <1>1, <1>2 DEF RowsKept, OnePendingPerOwner

-----------------------------------------------------------------------------
(* The writes of a row.                                                    *)

\* Closing a request that is pending takes it from the pending ones.
LEMMA ClosePendingStep ==
  ASSUME ShowTyped, NEW r \in DOMAIN requests, NEW outcome \in Outcomes \ {Open},
         close_pending(r, outcome), UNCHANGED time
  PROVE  ShowTyped' /\ RowsKept /\ NoneAsked
<1>1. requests' = [requests EXCEPT ![r].outcome = outcome] /\ requests[r].outcome = Open
  BY DEF close_pending, close_show_request, is_pending
<1>2. requests' \in Seq(Row) /\ DOMAIN requests' = DOMAIN requests
  <2>1. requests[r] \in Row
    BY DEF ShowTyped
  <2>2. [requests[r] EXCEPT !.outcome = outcome] \in Row
    BY <2>1 DEF Row
  <2> QED
    BY <1>1, <2>2 DEF ShowTyped
<1>3. \A q \in DOMAIN requests :
        requests'[q] = IF q = r THEN [requests[r] EXCEPT !.outcome = outcome] ELSE requests[q]
  BY <1>1 DEF ShowTyped
<1>4. requests[r] \in Row
  BY DEF ShowTyped
<1>5. RowsKept
  BY <1>1, <1>2, <1>3, <1>4 DEF RowsKept, Row
<1>6. NoneAsked
  <2> SUFFICES ASSUME NEW q \in Pending' PROVE q \in Pending
    BY DEF NoneAsked
  <2>1. q \in DOMAIN requests' /\ requests'[q].outcome = Open /\ ~(time' >= requests'[q].expires)
    BY DEF Pending, open_show_requests, is_pending, is_overdue
  <2>2. q # r
    BY <1>2, <1>3, <1>4, <2>1 DEF Row
  <2> QED
    BY <1>2, <1>3, <2>1, <2>2, PendingMeans
<1> QED
  BY <1>2, <1>5, <1>6 DEF ShowTyped

\* Asking again gives the pending row more time.
LEMMA RefreshStep ==
  ASSUME ShowTyped, TTL \in Nat, NEW r \in Pending, refresh_show_request(r), UNCHANGED time
  PROVE  ShowTyped' /\ RowsKept /\ NoneAsked
<1>1. requests' = [requests EXCEPT ![r].expires = time + TTL]
  BY DEF refresh_show_request
<1>2. r \in DOMAIN requests /\ requests[r].outcome = Open /\ requests[r] \in Row
  BY PendingMeans DEF ShowTyped
<1>3. [requests[r] EXCEPT !.expires = time + TTL] \in Row
  BY <1>2 DEF ShowTyped, Row
<1>4. requests' \in Seq(Row) /\ DOMAIN requests' = DOMAIN requests
  BY <1>1, <1>2, <1>3 DEF ShowTyped
<1>5. \A q \in DOMAIN requests :
        requests'[q] = IF q = r THEN [requests[r] EXCEPT !.expires = time + TTL] ELSE requests[q]
  BY <1>1 DEF ShowTyped
<1>6. RowsKept
  BY <1>2, <1>4, <1>5 DEF RowsKept, Row
<1>7. NoneAsked
  <2> SUFFICES ASSUME NEW q \in Pending' PROVE q \in Pending
    BY DEF NoneAsked
  <2>1. q \in DOMAIN requests' /\ requests'[q].outcome = Open /\ ~(time' >= requests'[q].expires)
    BY DEF Pending, open_show_requests, is_pending, is_overdue
  <2>2. CASE q = r
    BY <2>2
  <2>3. CASE q # r
    BY <1>4, <1>5, <2>1, <2>3, PendingMeans
  <2> QED
    BY <2>2, <2>3
<1> QED
  BY <1>4, <1>6, <1>7 DEF ShowTyped

\* The sweeper marks what is overdue and nothing else.
LEMMA SweepStep ==
  ASSUME ShowTyped, expire_overdue, UNCHANGED time
  PROVE  ShowTyped' /\ RowsKept /\ NoneAsked
<1> DEFINE due == {r \in open_show_requests : is_overdue(r)}
<1>1. requests' = [r \in DOMAIN requests |->
         IF r \in due THEN [requests[r] EXCEPT !.outcome = "expired"] ELSE requests[r]]
  BY DEF expire_overdue
<1>2. \A r \in due : requests[r].outcome = Open
  BY DEF open_show_requests
<1>3. \A r \in DOMAIN requests :
        requests[r] \in Row /\ [requests[r] EXCEPT !.outcome = "expired"] \in Row
  <2> TAKE r \in DOMAIN requests
  <2>1. requests[r] \in Row
    BY DEF ShowTyped
  <2> QED
    BY <2>1 DEF Row, Outcomes
<1>4. requests' \in Seq(Row) /\ DOMAIN requests' = DOMAIN requests
  BY <1>1, <1>3 DEF ShowTyped
<1>5. RowsKept
  BY <1>1, <1>2, <1>3, <1>4 DEF RowsKept, Row
<1>6. NoneAsked
  <2> SUFFICES ASSUME NEW q \in Pending' PROVE q \in Pending
    BY DEF NoneAsked
  <2>1. q \in DOMAIN requests' /\ requests'[q].outcome = Open /\ ~(time' >= requests'[q].expires)
    BY DEF Pending, open_show_requests, is_pending, is_overdue
  <2>2. q \notin due
    BY <1>1, <1>3, <1>4, <2>1 DEF Row, Open
  <2> QED
    BY <1>1, <1>4, <2>1, <2>2, PendingMeans
<1> QED
  BY <1>4, <1>5, <1>6 DEF ShowTyped

\* A new question is asked only when the agent has none like it pending.
LEMMA AddStep ==
  ASSUME ShowTyped, TTL \in Nat, OnePendingPerOwner, UNCHANGED time,
         NEW o \in Askers, NEW i \in Wanted, Mine(o, i) = {}, add_show_request(o, i)
  PROVE  ShowTyped' /\ RowsKept /\ OnePendingPerOwner'
<1> DEFINE new == [owner |-> o, issue |-> i, outcome |-> Open, expires |-> time + TTL]
<1>1. requests' = Append(requests, new)
  BY DEF add_show_request
<1>2. new \in Row
  BY DEF ShowTyped, Row, Outcomes
<1>3. /\ requests' \in Seq(Row)
      /\ DOMAIN requests' = DOMAIN requests \cup {Len(requests) + 1}
      /\ \A r \in DOMAIN requests : requests'[r] = requests[r]
      /\ requests'[Len(requests) + 1] = new
  BY <1>1, <1>2 DEF ShowTyped
<1>4. RowsKept
  BY <1>3 DEF RowsKept
<1>5. \A r \in Pending' : (r \in Pending /\ requests'[r] = requests[r]) \/ r = Len(requests) + 1
  <2> TAKE r \in Pending'
  <2>1. r \in DOMAIN requests' /\ requests'[r].outcome = Open /\ ~(time' >= requests'[r].expires)
    BY DEF Pending, open_show_requests, is_pending, is_overdue
  <2> QED
    BY <1>3, <2>1, PendingMeans
<1>6. \A r \in Pending : ~(requests[r].owner = o /\ requests[r].issue = i)
  BY DEF Mine
<1>7. OnePendingPerOwner'
  <2> SUFFICES ASSUME NEW r \in Pending', NEW s \in Pending',
                      requests'[r].owner = requests'[s].owner,
                      requests'[r].issue = requests'[s].issue
               PROVE  r = s
    BY DEF OnePendingPerOwner
  <2>1. requests'[Len(requests) + 1].owner = o /\ requests'[Len(requests) + 1].issue = i
    BY <1>3
  <2>2. CASE r \in Pending /\ s \in Pending /\ requests'[r] = requests[r] /\ requests'[s] = requests[s]
    BY <2>2 DEF OnePendingPerOwner
  <2> QED
    BY <1>5, <1>6, <2>1, <2>2
<1> QED
  BY <1>3, <1>4, <1>7 DEF ShowTyped

-----------------------------------------------------------------------------
(* The invariant.                                                          *)

ShowInv == ShowTyped /\ OnePendingPerOwner

LEMMA ShowInvInit ==
  ASSUME ShowInit
  PROVE  ShowInv
BY DEF ShowInit, ShowInv, ShowTyped, OnePendingPerOwner, Pending, open_show_requests

LEMMA ShowStep ==
  ASSUME TTL \in Nat, ShowInv, ShowNext
  PROVE  ShowInv' /\ RowsKept
<1> USE DEF ShowInv
<1>1. CASE Pass
  <2>1. ShowTyped' /\ RowsKept
    BY <1>1 DEF Pass, ShowTyped, RowsKept
  <2>2. NoneAsked
    <3> SUFFICES ASSUME NEW q \in Pending' PROVE q \in Pending
      BY DEF NoneAsked
    <3>1. q \in DOMAIN requests' /\ requests'[q].outcome = Open /\ ~(time' >= requests'[q].expires)
      BY DEF Pending, open_show_requests, is_pending, is_overdue
    <3>2. q \in DOMAIN requests => requests[q] \in Row
      BY DEF ShowTyped
    <3>3. requests' = requests /\ time' = time + 1 /\ time \in Int
      BY <1>1 DEF Pass, ShowTyped
    <3>4. requests[q].expires \in Int /\ ~(time >= requests[q].expires)
      BY <3>1, <3>2, <3>3 DEF Row
    <3> QED
      BY <3>1, <3>3, <3>4, PendingMeans
  <2> QED
    BY <2>1, <2>2, NoneAskedKeepsOne
<1>2. ASSUME NEW o \in Askers, NEW i \in Wanted, linear_show_request(o, i)
      PROVE  ShowInv' /\ RowsKept
  <2>1. CASE \E r \in Mine(o, i) : refresh_show_request(r)
    <3> PICK r \in Mine(o, i) : refresh_show_request(r)
      BY <2>1
    <3>1. r \in Pending /\ UNCHANGED time
      BY <1>2 DEF Mine, linear_show_request
    <3> QED
      BY <3>1, RefreshStep, NoneAskedKeepsOne
  <2>2. CASE Mine(o, i) = {} /\ add_show_request(o, i)
    BY <1>2, <2>2, AddStep DEF linear_show_request
  <2> QED
    BY <1>2, <2>1, <2>2 DEF linear_show_request
<1>3. CASE UNCHANGED <<time, requests>>
  <2>1. ShowTyped' /\ RowsKept
    BY <1>3 DEF ShowTyped, RowsKept
  <2>2. NoneAsked
    BY <1>3 DEF NoneAsked, Pending, open_show_requests, is_pending, is_overdue
  <2> QED
    BY <2>1, <2>2, NoneAskedKeepsOne
<1>4. ASSUME NEW r \in DOMAIN requests, NEW outcome \in Outcomes \ {Open},
             write_arrived(r, outcome), UNCHANGED time
      PROVE  ShowInv' /\ RowsKept
  <2>1. close_pending(r, outcome) \/ UNCHANGED requests
    BY <1>4 DEF write_arrived
  <2>2. CASE close_pending(r, outcome)
    BY <1>4, <2>2, ClosePendingStep, NoneAskedKeepsOne
  <2>3. CASE UNCHANGED requests
    BY <1>3, <1>4, <2>3
  <2> QED
    BY <2>1, <2>2, <2>3
<1>5. ASSUME NEW r \in DOMAIN requests, Accept(r) \/ Dismiss(r)
      PROVE  ShowInv' /\ RowsKept
  BY <1>4, <1>5 DEF Accept, Dismiss, Outcomes, Open
<1>6. ASSUME NEW o \in Askers, NEW i \in Wanted, Withdraw(o, i)
      PROVE  ShowInv' /\ RowsKept
  <2> PICK r \in Mine(o, i) : close_pending(r, "withdrawn")
    BY <1>6 DEF Withdraw
  <2>1. r \in DOMAIN requests /\ UNCHANGED time /\ "withdrawn" \in Outcomes \ {Open}
    BY <1>6 DEF Withdraw, Mine, Pending, open_show_requests, Outcomes, Open
  <2> QED
    BY <2>1, ClosePendingStep, NoneAskedKeepsOne
<1>7. CASE Sweep
  BY <1>7, SweepStep, NoneAskedKeepsOne DEF Sweep
<1> QED
  BY <1>1, <1>2, <1>3, <1>5, <1>6, <1>7 DEF ShowNext, Draw

LEMMA ShowInvAlways ==
  ASSUME TTL \in Nat
  PROVE  ShowSpec => []ShowInv
<1>1. ShowInit => ShowInv
  BY ShowInvInit
<1>2. ShowInv /\ [ShowNext]_showVars => ShowInv'
  <2>1. ShowInv /\ UNCHANGED showVars => ShowInv'
    <3> SUFFICES ASSUME ShowInv, UNCHANGED showVars PROVE ShowInv'
      OBVIOUS
    <3>1. ShowTyped' /\ RowsKept /\ NoneAsked
      BY DEF ShowInv, ShowTyped, RowsKept, NoneAsked, showVars, Pending, open_show_requests,
             is_pending, is_overdue
    <3> QED
      BY <3>1, NoneAskedKeepsOne DEF ShowInv
  <2> QED
    BY <2>1, ShowStep
<1> QED
  BY <1>1, <1>2, PTL DEF ShowSpec

(* An agent has at most one question about an issue before the person,     *)
(* whatever expired, was answered or withdrawn before, for any time to     *)
(* live (db/linear_writes.rs, add_show_request).                           *)
THEOREM OneQuestionEach ==
  ASSUME TTL \in Nat
  PROVE  ShowSpec => []OnePendingPerOwner
<1>1. ShowInv => OnePendingPerOwner
  BY DEF ShowInv
<1> QED
  BY <1>1, ShowInvAlways, PTL

(* An answer that arrives late overturns nothing: a row that was answered, *)
(* withdrawn or marked expired is never written again, and no row goes or  *)
(* changes its question (db/linear_writes.rs, close_pending).              *)
THEOREM AnswersFinal ==
  ASSUME TTL \in Nat
  PROVE  ShowSpec => AnswerIsFinal
<1>1. ShowInv /\ [ShowNext]_showVars =>
        [\A r \in DOMAIN requests :
          /\ r \in DOMAIN requests'
          /\ requests[r].outcome # Open => requests'[r] = requests[r]
          /\ requests'[r].issue = requests[r].issue]_showVars
  BY ShowStep DEF RowsKept
<1> QED
  BY <1>1, ShowInvAlways, PTL DEF ShowSpec, AnswerIsFinal
=============================================================================

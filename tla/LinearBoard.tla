---------------------------- MODULE LinearBoard -----------------------------
(***************************************************************************)
(* The Linear board of the terminal interface: snapshots of a space that   *)
(* are grouped by the daemon and drawn as tabs, columns and lanes, and the *)
(* cursor that keys, clicks and answered requests move over them while     *)
(* issues, the mapping and the custom view change elsewhere.               *)
(*                                                                         *)
(* A snapshot is read and grouped in one step; its delays and failures are *)
(* in LinearCache and BoardFeed, the page of one issue is in IssuePage.    *)
(***************************************************************************)
EXTENDS Grouping

CONSTANTS
    Space,         \* the space the board is of, as a key of its level
    Contents,      \* what an issue may say: [state, who, labels, parent]
    MaxIssues,     \* issues 1..MaxIssues
    Mappings,      \* the mappings somebody sets
    Views,         \* the preferences of the space's view; Nil: none is bound
    MaxEdits       \* changes of issues, mapping and view

VARIABLES
    issues,        \* what Linear lists, in its order
    config, view,
    board,         \* struct LinearState: [tabs, tab, group, card, cursors]
    edits

boardVars == <<issues, config, view, board, edits>>

Issue(id, c) == [id |-> id, state |-> c.state, who |-> c.who, labels |-> c.labels,
                 parent |-> IF c.parent = id THEN 0 ELSE c.parent]

InForce == choose(config, Space, view)

\* A snapshot that has been read without a failure
fill_from_linear == group_board(issues, InForce)

----------------------------------------------------------------------------
(* What is drawn *)

state_kind_rank(kind) == IF kind = 0 THEN Max(ToSet(States)) + 1 ELSE kind

\* Empty columns last, the others from work not started to work finished.
order_tabs(tabs) ==
    [t \in DOMAIN tabs |-> [tabs[t] EXCEPT !.groups =
        LET gs      == tabs[t].groups
            rank(c) == <<IF gs[c].issues = << >> THEN 1 ELSE 0, state_kind_rank(gs[c].kind), c>>
            order   == SetToSortSeq(DOMAIN gs, LAMBDA c, d : Before(rank(c), rank(d)))
        IN [c \in DOMAIN gs |-> gs[order[c]]]]]

\* A lane with no card in the column is left out; cards of no lane come last.
lane_sections(g) ==
    IF g.lanes = << >> THEN << [key |-> 0, issues |-> g.issues] >>
    ELSE LET full  == SelectSeq(g.lanes, LAMBDA l : l.issues # << >>)
             loose == SelectSeq(g.issues, LAMBDA i : \A l \in ToSet(g.lanes) : i \notin ToSet(l.issues))
         IN IF loose = << >> THEN full ELSE Append(full, [key |-> 0, issues |-> loose])

column_cards(g) ==
    LET lanes == lane_sections(g)
    IN FlattenSeq([s \in DOMAIN lanes |->
        [k \in DOMAIN lanes[s].issues |-> <<lanes[s].key, lanes[s].issues[k]>>]])

\* Element k of s counted from 0, or Nil.
At(s, k) == IF k < Len(s) THEN s[k + 1] ELSE Nil

\* The first of some places, from 0, or Nil.
First(places) == IF places = {} THEN Nil ELSE Min(places) - 1

Or(x, y) == IF x = Nil THEN y ELSE x
Least(k, l) == IF k <= l THEN k ELSE l
Pred(n) == IF n = 0 THEN 0 ELSE n - 1

groups(b) == IF At(b.tabs, b.tab) = Nil THEN << >> ELSE At(b.tabs, b.tab).groups

CardsAt(b, g) == IF g < Len(groups(b)) THEN column_cards(groups(b)[g + 1]) ELSE << >>

selected_slot(b) == At(CardsAt(b, b.group), b.card)
selected_identifier(b) == IF selected_slot(b) = Nil THEN Nil ELSE selected_slot(b)[2]

----------------------------------------------------------------------------
(* The cursor *)

KeyOf(x) == IF x = Nil THEN 0 ELSE x.key

cursor(b) ==
    LET slot == selected_slot(b)
    IN [tab |-> KeyOf(At(b.tabs, b.tab)), column |-> KeyOf(At(groups(b), b.group)),
        lane |-> IF slot = Nil THEN 0 ELSE slot[1],
        issue |-> IF slot = Nil THEN Nil ELSE slot[2],
        at |-> <<b.tab, b.group, b.card>>]

clamp(b) ==
    LET t == [b EXCEPT !.tab = Least(@, Pred(Len(b.tabs)))]
        g == [t EXCEPT !.group = Least(@, Pred(Len(groups(t))))]
    IN [g EXCEPT !.card = Least(@, Pred(Len(CardsAt(g, g.group))))]

slot_in(g, lane, id) ==
    LET cards == column_cards(g)
    IN Or(First({k \in DOMAIN cards : cards[k] = <<lane, id>>}),
          First({k \in DOMAIN cards : cards[k][2] = id}))

\* <<group, card>> in the active tab: that column, else any.
locate(b, column, lane, id) ==
    LET gs   == groups(b)
        hits == {g \in DOMAIN gs : slot_in(gs[g], lane, id) # Nil}
        mine == {g \in hits : gs[g].key = column}
        g    == First(IF mine # {} THEN mine ELSE hits)
    IN IF g = Nil THEN Nil ELSE <<g, slot_in(gs[g + 1], lane, id)>>

column_at(b, key) == First({g \in DOMAIN groups(b) : groups(b)[g].key = key})

refind_in_tab(b, cur) ==
    LET found == IF cur.issue = Nil THEN Nil ELSE locate(b, cur.column, cur.lane, cur.issue)
    IN clamp(IF found # Nil THEN [b EXCEPT !.group = found[1], !.card = found[2]]
             ELSE [b EXCEPT !.group = Or(column_at(b, cur.column), cur.at[2]),
                            !.card = cur.at[3]])

\* A mutant: the place of the cursor instead of what it was on.
refind_by_place(b, cur) ==
    clamp([b EXCEPT !.tab = cur.at[1], !.group = cur.at[2], !.card = cur.at[3]])

refind(b, cur) ==
    refind_in_tab([b EXCEPT !.tab = Or(First({t \in DOMAIN b.tabs : b.tabs[t].key = cur.tab}), cur.at[1])], cur)

Left(b) == [b EXCEPT !.cursors = (cursor(b).tab :> cursor(b)) @@ @]

cycle_tab(b, d) ==                       \* d = 0, 1, 2 for -1, 0, +1
    LET n    == Len(b.tabs)
        from == cursor(b)
        next == (b.tab + n + d - 1) % n
        key  == b.tabs[next + 1].key
        to   == IF key \in DOMAIN b.cursors THEN b.cursors[key] ELSE [from EXCEPT !.tab = key]
    IN IF n < 2 THEN b ELSE refind_in_tab([Left(b) EXCEPT !.tab = next], to)

select_slot(b, t, g, c) ==
    clamp([(IF t = b.tab THEN b ELSE Left(b)) EXCEPT !.tab = t, !.group = g, !.card = c])

\* Every card of the board, in drawing order, as <<tab, group, card, issue>>
Slots(b) ==
    FlattenSeq([t \in DOMAIN b.tabs |->
        FlattenSeq([g \in DOMAIN b.tabs[t].groups |->
            LET cards == column_cards(b.tabs[t].groups[g])
            IN [k \in DOMAIN cards |-> <<t - 1, g - 1, k - 1, cards[k][2]>>]])])

\* The tab on screen first
select_identifier(b, id) ==
    LET mine  == SelectSeq(Slots(b), LAMBDA s : s[4] = id /\ s[1] = b.tab)
        all   == mine \o SelectSeq(Slots(b), LAMBDA s : s[4] = id)
    IN IF all = << >> THEN b ELSE select_slot(b, all[1][1], all[1][2], all[1][3])

next_slot(b, d, wanted) ==
    LET slots == SelectSeq(Slots(b), LAMBDA s : s[4] \in wanted)
        here  == <<b.tab, b.group, b.card>>
        after == SelectSeq(slots, LAMBDA s : Before(here, s))
        back  == SelectSeq(slots, LAMBDA s : Before(s, here))
    IN IF slots = << >> THEN Nil
       ELSE IF d > 1 THEN (IF after # << >> THEN Head(after) ELSE Head(slots))
       ELSE (IF back # << >> THEN Last(back) ELSE Last(slots))

----------------------------------------------------------------------------
(* Keys, clicks, requests *)

Keys(b) == board' = b /\ UNCHANGED <<issues, config, view, edits>>

nav(d) ==
    LET n == Len(CardsAt(board, board.group))
    IN Keys([board EXCEPT !.card = Least(Pred(board.card + d), Pred(n))])

side(d) == Keys(clamp([board EXCEPT !.group = Least(Pred(board.group + d),
                                                    Pred(Len(groups(board))))]))

jump_page(d, perPage) ==
    LET pages == (Len(groups(board)) + perPage - 1) \div perPage
        page  == board.group \div perPage + d
    IN /\ page > 0 /\ page - 1 < pages
       /\ Keys(clamp([board EXCEPT !.group = (page - 1) * perPage]))

tabs(d) == Keys(cycle_tab(board, d))

walk(d, marked) ==
    LET s == next_slot(board, d, marked)
    IN s # Nil /\ Keys(select_slot(board, s[1], s[2], s[3]))

\* An accepted request, or the issue the board was opened for.  When no tab
\* draws it, its page opens and the cursor stays.
show_target(id) == Keys(select_identifier(board, id))

\* The card under the pointer, found again by name.
click_card(g, lane, id) ==
    LET at == locate(board, g, lane, id)
    IN at # Nil /\ Keys([board EXCEPT !.group = at[1], !.card = at[2]])

click_group(g) ==
    LET c == column_at(board, g)
    IN c # Nil /\ Keys(clamp([board EXCEPT !.group = c]))

arrived ==
    Keys(refind([board EXCEPT !.tabs = order_tabs(fill_from_linear)], cursor(board)))

----------------------------------------------------------------------------
(* What others change *)

Edit(is, c, v) ==
    /\ edits < MaxEdits /\ <<is, c, v>> # <<issues, config, view>>
    /\ issues' = is /\ config' = c /\ view' = v
    /\ edits' = edits + 1 /\ UNCHANGED board

\* An issue is written: it is listed first, wherever it was.
Written(id, c) ==
    Edit(<<Issue(id, c)>> \o SelectSeq(issues, LAMBDA i : i.id # id), config, view)

\* Closed, moved away, or no longer what the filter asks for
Gone(id) == Edit(SelectSeq(issues, LAMBDA i : i.id # id), config, view)

replace_grouping(c) == Edit(issues, c, view)

\* linear.grouping_set: a whole configuration, or one for the space, which
\* needs a global one; without a text, the one of the space is dropped.
linear_grouping_change(m, override) ==
    /\ m # Nil => Valid(m)
    /\ IF override THEN config # Nil /\ (m = Nil => config.override # Nil) ELSE m # Nil
    /\ replace_grouping(IF override THEN [config EXCEPT !.override = m]
                        ELSE [global |-> m, override |-> Nil])

set_grouping_global(c, m) == IF c = Nil THEN [global |-> m, override |-> Nil] ELSE [c EXCEPT !.global = m]
set_grouping_space(c, m) == [c EXCEPT !.override = m]

\* linear.import of a grouping: what the store has is kept.
board_config(m, override) ==
    LET global == IF config = Nil THEN set_grouping_global(config, m) ELSE config
    IN /\ Valid(m) /\ (override # Nil => Valid(override))
       /\ Edit(issues, IF global.override = Nil THEN set_grouping_space(global, override)
                       ELSE global, view)

ViewChanged(v) == Edit(issues, config, v)

BoardInit ==
    /\ issues \in {[k \in 1..MaxIssues |-> Issue(k, f[k])] : f \in [1..MaxIssues -> Contents]}
    /\ config \in {Nil} \cup {[global |-> m, override |-> Nil] : m \in {m \in Mappings : Valid(m)}}
    /\ view \in Views
    /\ board = [tabs |-> order_tabs(fill_from_linear), tab |-> 0, group |-> 0,
                card |-> 0, cursors |-> << >>]
    /\ edits = 0

BoardNext ==
    \/ \E d \in {0, 2} :
          \/ nav(d) \/ side(d) \/ tabs(d)
          \/ jump_page(d, 2)
          \/ \E marked \in {1..MaxIssues} \cup {{id} : id \in 1..MaxIssues} : walk(d, marked)
    \/ \E id \in 1..MaxIssues : \/ show_target(id) \/ Gone(id)
                                \/ \E c \in Contents : Written(id, c)
    \/ \E g \in DOMAIN groups(board) :
          \/ click_group(groups(board)[g].key)
          \/ \E c \in ToSet(column_cards(groups(board)[g])) :
                click_card(groups(board)[g].key, c[1], c[2])
    \/ arrived
    \/ \E m \in Mappings \cup {Nil}, o \in BOOLEAN : linear_grouping_change(m, o)
    \/ \E m \in Mappings, o \in Mappings \cup {Nil} : board_config(m, o)
    \/ \E v \in Views : ViewChanged(v)

BoardSpec == BoardInit /\ [][BoardNext]_boardVars

----------------------------------------------------------------------------
\* The cursor is on a card whenever its column has one.
CursorTypeOK ==
    /\ board.tab <= Pred(Len(board.tabs)) /\ board.group <= Pred(Len(groups(board)))
    /\ board.card <= Pred(Len(CardsAt(board, board.group)))
    /\ Len(issues) <= MaxIssues /\ edits <= MaxEdits

\* grouping.rs: what the daemon groups is what the mapping or the view says,
\* cell by cell.
GroupsAsDefined == AsDefined(issues, InForce)

Draws(b, key, id) == \E t \in DOMAIN b.tabs : /\ b.tabs[t].key = key
                                             /\ \E s \in ToSet(Slots(b)) : s[1] = t - 1 /\ s[4] = id

\* linear_cursor.rs: a refresh keeps the cursor on its issue while the tab
\* draws it, in its column and lane if it is still there; and going to another
\* tab and back leads to the same card.
CursorStays ==
    board'.tabs # board.tabs =>
        LET old == cursor(board)
            new == cursor(board')
        IN old.issue # Nil /\ Draws(board', old.tab, old.issue) =>
             /\ new.tab = old.tab /\ new.issue = old.issue
             /\ \E g \in ToSet(groups(board')) :
                   g.key = old.column /\ <<old.lane, old.issue>> \in ToSet(column_cards(g))
                => new.column = old.column /\ new.lane = old.lane

TabsReturn ==
    \A d \in {0, 2} : selected_slot(cycle_tab(cycle_tab(board, d), 2 - d)) = selected_slot(board)

CursorKept == [][CursorStays]_boardVars /\ []TabsReturn
=============================================================================

------------------------------ MODULE Grouping ------------------------------
(***************************************************************************)
(* From the issues of a space, in the order Linear lists them, to the tabs *)
(* of its board with their columns and lanes (board-core/engine/grouping): *)
(* by the mapping of the configuration, or else by the preferences of a    *)
(* custom view, or else by the states of the team.                         *)
(*                                                                         *)
(* An issue is [id, state, who, labels, parent]; ids are naturals and      *)
(* order as their names do, 0 is the key of what is absent.  The ids of    *)
(* states, people and labels are disjoint, as Linear's are.  Left out: the *)
(* fields that group as `who` does, labels of headings, and the clauses of *)
(* the filter, which Linear evaluates.                                     *)
(***************************************************************************)
EXTENDS Naturals, SequencesExt, FiniteSetsExt, TLC

CONSTANTS
    Nil,           \* None
    States,        \* the workflow states of the team, in their order
    Canceled,      \* the states among them that mean: will not be done
    LabelGroup     \* the labels that the mapping's label-group names

Levels == {"space", "tab", "column", "row"}
ViewKinds == {"workflowState", "assignee", "label"}

Ids(s) == [k \in DOMAIN s |-> s[k].id]

----------------------------------------------------------------------------
(* A mapping: [space, tab, column, row, sub], a kind or Nil at each level; *)
(* `sub` says that some level is `sub-ticket`, which does not split.       *)

label_group(i) == IF i.labels \cap LabelGroup = {} THEN 0 ELSE Min(i.labels \cap LabelGroup)

field_group(i, kind) ==
    CASE kind = "state"       -> i.state
      [] kind = "assignee"    -> i.who
      [] kind = "label-group" -> label_group(i)
      [] kind = "parent"      -> i.parent

\* GroupingMapping::validate
Valid(m) ==
    LET used == {l \in Levels : m[l] # Nil}
    IN /\ used # {} \/ m.sub
       /\ \A k, l \in used : m[k] = m[l] => k = l

KeyAt(i, kind) == IF kind = Nil THEN 0 ELSE field_group(i, kind)

\* What has no value comes last.
distinct(keys) ==
    SetToSortSeq(keys, LAMBDA k, l : k # 0 /\ (l = 0 \/ k < l))

\* Under `sub-ticket` a parent leads its children.
cell_order(i, sub) ==
    IF sub /\ i.parent # 0 THEN <<i.parent, 1, i.id>> ELSE <<i.id, 0, i.id>>

Before(a, b) ==
    \/ a[1] < b[1]
    \/ a[1] = b[1] /\ (a[2] < b[2] \/ (a[2] = b[2] /\ a[3] < b[3]))

\* A mutant of Sorted: the order in which Linear lists them.
SortedAsListed(issues, sub) == issues

Sorted(issues, sub) ==
    SortSeq(issues, LAMBDA i, j : Before(cell_order(i, sub), cell_order(j, sub)))

InSpace(i, m, space) == m.space = Nil \/ space = Nil \/ field_group(i, m.space) = space

KeysOf(placed, kind) ==
    IF kind = Nil THEN <<0>> ELSE distinct({field_group(i, kind) : i \in ToSet(placed)})

StateKind(kind, key) == IF kind \in {"state", "workflowState"} THEN key ELSE 0

configured(issues, m, space) ==
    LET placed == SelectSeq(Sorted(issues, m.sub), LAMBDA i : InSpace(i, m, space))
        Lanes(here, rows) ==
            [r \in DOMAIN rows |->
                [key |-> rows[r],
                 issues |-> Ids(SelectSeq(here, LAMBDA i : KeyAt(i, m.row) = rows[r]))]]
        ColumnsIn(inTab) ==
            LET cols == KeysOf(inTab, m.column)
                rows == IF m.row = Nil THEN << >> ELSE KeysOf(inTab, m.row)
            IN [c \in DOMAIN cols |->
                LET here == SelectSeq(inTab, LAMBDA i : KeyAt(i, m.column) = cols[c])
                IN [key |-> cols[c], kind |-> StateKind(m.column, cols[c]),
                    issues |-> Ids(here), lanes |-> Lanes(here, rows)]]
        tabs == KeysOf(placed, m.tab)
    IN [t \in DOMAIN tabs |->
        [key |-> tabs[t],
         groups |-> ColumnsIn(SelectSeq(placed, LAMBDA i : KeyAt(i, m.tab) = tabs[t]))]]

----------------------------------------------------------------------------
(* A view: [grouping, sub, order, hiddenColumns, hiddenRows].              *)

view_keys(i, grouping) ==
    CASE grouping = "assignee" -> <<i.who>>
      [] grouping = "label"    -> IF i.labels = {} THEN <<0>>
                                  ELSE SetToSortSeq(i.labels, LAMBDA k, l : k < l)
      [] OTHER                 -> <<i.state>>

\* The elements of s in the order of their first appearance
Appearance(s) ==
    FoldLeft(LAMBDA seen, k : IF k \in ToSet(seen) THEN seen ELSE Append(seen, k), << >>, s)

Without(s, set) == SelectSeq(s, LAMBDA k : k \notin set)

\* A view with a grouping the board cannot draw counts as no view.
fallback(issues, given) ==
    LET usable   == given # Nil /\ given.grouping \in ViewKinds
        view     == IF usable THEN given
                    ELSE [grouping |-> "workflowState", sub |-> Nil, order |-> << >>,
                          hiddenColumns |-> {}, hiddenRows |-> {}]
        sub      == IF view.sub \in ViewKinds THEN view.sub ELSE Nil
        Cols(i)  == view_keys(i, view.grouping)
        Rows(i)  == view_keys(i, sub)
        metCols  == Appearance(FlattenSeq([k \in DOMAIN issues |-> Cols(issues[k])]))
        metRows  == Appearance(FlattenSeq([k \in DOMAIN issues |-> Rows(issues[k])]))
        wanted   == IF view.grouping # "workflowState" THEN Without(view.order, ToSet(States))
                    ELSE IF view.order # << >> THEN view.order
                    ELSE Without(States, IF usable THEN {} ELSE Canceled)
        order    == Without(Appearance(wanted \o metCols), view.hiddenColumns)
        rows     == IF sub = Nil THEN << >>
                    ELSE Without(Appearance((IF sub = "workflowState"
                                             THEN SelectSeq(States, LAMBDA s : s \in ToSet(metRows))
                                             ELSE << >>) \o metRows),
                                 view.hiddenRows)
        Drawn(i) == sub = Nil \/ ToSet(Rows(i)) \ view.hiddenRows # {}
        Column(key) ==
            LET here == SelectSeq(issues, LAMBDA i : key \in ToSet(Cols(i)))
            IN [key |-> key,
                kind |-> StateKind(view.grouping, key),
                issues |-> Ids(SelectSeq(here, Drawn)),
                lanes |-> [r \in DOMAIN rows |->
                    [key |-> rows[r],
                     issues |-> Ids(SelectSeq(here, LAMBDA i : rows[r] \in ToSet(Rows(i))))]]]
    IN << [key |-> 0, groups |-> [c \in DOMAIN order |-> Column(order[c])]] >>

----------------------------------------------------------------------------
\* The space's mapping replaces the global one; only the global one filters by
\* space.  config: Nil or [global, override].
choose(config, space, view) ==
    IF config = Nil THEN [by |-> "view", view |-> view]
    ELSE IF config.override # Nil
         THEN [by |-> "mapping", mapping |-> config.override, space |-> Nil]
         ELSE [by |-> "mapping", mapping |-> config.global, space |-> space]

group_board(issues, g) ==
    IF g.by = "mapping" THEN configured(issues, g.mapping, g.space) ELSE fallback(issues, g.view)

----------------------------------------------------------------------------
(* What the groups are, defined cell by cell *)

Cells(tabs) ==
    UNION {UNION {LET grp == tabs[t].groups[c]
                  IN {<<tabs[t].key, grp.key, id>> : id \in ToSet(grp.issues)} :
                  c \in DOMAIN tabs[t].groups} : t \in DOMAIN tabs}

LaneCells(tabs) ==
    UNION {UNION {UNION {LET lane == tabs[t].groups[c].lanes[l]
                         IN {<<tabs[t].key, tabs[t].groups[c].key, lane.key, id>> :
                             id \in ToSet(lane.issues)} :
                         l \in DOMAIN tabs[t].groups[c].lanes} :
                  c \in DOMAIN tabs[t].groups} : t \in DOMAIN tabs}

DefinedCells(issues, g) ==
    IF g.by = "mapping"
    THEN {<<KeyAt(i, g.mapping.tab), KeyAt(i, g.mapping.column), i.id>> :
          i \in {i \in ToSet(issues) : InSpace(i, g.mapping, g.space)}}
    ELSE LET v == g.view
             known == v # Nil /\ v.grouping \in ViewKinds
         IN UNION {{<<0, c, i.id>> :
                c \in ToSet(view_keys(i, IF known THEN v.grouping ELSE "workflowState"))
                      \ (IF known THEN v.hiddenColumns ELSE {})} :
              i \in {i \in ToSet(issues) :
                     known /\ v.sub \in ViewKinds
                     => ToSet(view_keys(i, v.sub)) \ v.hiddenRows # {}}}

HasLanes(g) ==
    IF g.by = "mapping" THEN g.mapping.row # Nil
    ELSE g.view # Nil /\ g.view.grouping \in ViewKinds /\ g.view.sub \in ViewKinds

\* No issue is dropped, doubled or misplaced, lanes cut columns without loss,
\* and a configured board does not depend on the order Linear lists issues in.
AsDefined(issues, g) ==
    LET tabs == group_board(issues, g)
    IN /\ Cells(tabs) = DefinedCells(issues, g)
       /\ \A t \in DOMAIN tabs : \A c \in DOMAIN tabs[t].groups :
              IsInjective(tabs[t].groups[c].issues)
       /\ HasLanes(g) =>
              {<<x[1], x[2], x[4]>> : x \in LaneCells(tabs)} = Cells(tabs)
       /\ g.by = "mapping" => group_board(Reverse(issues), g) = tabs
=============================================================================

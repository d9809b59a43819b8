------------------------------ MODULE MCStores ------------------------------
(***************************************************************************)
(* One instance for TLC of the modules about the tables of the store and   *)
(* the screens that are drawn from them.  The components do not share      *)
(* state: each behaviour is one of the component that `world` names, the   *)
(* others stay in their initial state, and the properties are those of the *)
(* components, which the modules extended state under the names used here. *)
(***************************************************************************)
EXTENDS BoardLayout, Comments, Migrations, Selection, LinearLinks, ShowRequests,
        BoardOrder, BoardScreens, CardForm, TLC

CONSTANTS
  MaxIssues, MaxEdits                                        \* LinearBoard

VARIABLES
  world,                                                     \* which one moves
  issues, config, view, board, edits

linkVars   == vars
boardVars  == <<issues, config, view, board, edits>>

\* Labels 21 and 22 are those of the label group; state 3 is the canceled one.
Content(s, w, l, p) == [state |-> s, who |-> w, labels |-> l, parent |-> p]
Mapping(sp, t, c, r, s) == [space |-> sp, tab |-> t, column |-> c, row |-> r, sub |-> s]
View(g, s, o, hc, hr) ==
  [grouping |-> g, sub |-> s, order |-> o, hiddenColumns |-> hc, hiddenRows |-> hr]

TeamStates    == <<1, 2, 3>>
CanceledOnes  == {3}
GroupLabels   == {21, 22}
IssueContents == {Content(1, 11, {21, 22}, 0), Content(2, 0, {22, 23}, 3)}
SpaceMappings == {Mapping(Nil, "assignee", "state", "label-group", FALSE),
                  Mapping("assignee", "label-group", "state", Nil, TRUE),
                  Mapping(Nil, "state", "state", Nil, FALSE)}
CustomViews   == {Nil, View("workflowState", "label", << >>, {}, {21}),
                  View("label", "workflowState", <<22, 1>>, {21}, {}),
                  View("gantt", Nil, <<1>>, {}, {})}

Linear == INSTANCE LinearBoard WITH
  States <- TeamStates, Canceled <- CanceledOnes, LabelGroup <- GroupLabels, Space <- 11,
  Contents <- IssueContents, Mappings <- SpaceMappings, Views <- CustomViews

\* pi offers no permission modes, agy may serve a list of models that is
\* closed, own is a harness of the configuration.
Caps(models, free, efforts, modes) ==
  [models |-> models, free |-> free, efforts |-> efforts, modes |-> modes]
Model(id, efforts) == [id |-> id, efforts |-> efforts]
Claude == Caps(<<Model("opus", {2, 3})>>, TRUE, {2, 3}, <<"plan", "bypassPermissions">>)
Agy    == Caps(<< >>, TRUE, {2}, <<"sandbox">>)
AgyNow == Caps(<<Model("fixed", {}), Model("flash", {2})>>, FALSE, {2}, <<"sandbox">>)
OwnCaps == Caps(<<Model("mini", {1})>>, TRUE, {1}, <<"plan">>)
Settings(h, m, e, p) == [harness |-> h, model |-> m, effort |-> e, permission |-> p]
Place(s, k, r, c) == [session |-> s, kind |-> k, ref |-> r, cwd |-> c]

BuiltinNames == <<"pi", "claude", "agy">>
OwnNames     == <<"own">>
DefaultCaps  == [pi |-> Caps(<< >>, TRUE, {1, 2, 3}, << >>), claude |-> Claude, agy |-> Agy]
UnknownCaps  == Caps(<< >>, TRUE, {1, 2, 3}, << >>)
ServedCaps   == [pi |-> {Caps(<<Model("mini", {1})>>, TRUE, {1, 2, 3}, << >>)},
                 claude |-> {Claude}, agy |-> {Agy, AgyNow}, own |-> {OwnCaps}]
CheckedCaps  == [pi |-> {Caps(<< >>, TRUE, {1, 2, 3}, << >>)},
                 claude |-> {Claude}, agy |-> {Agy, AgyNow}, own |-> {OwnCaps}]
Workspaces   == (Unset :> <<"w1", "w2">>) @@ ("main" :> <<"w2">>) @@ ("gone" :> << >>)
Sessions     == <<"main">>
Typed        == {Unset, "w2", "mini"}
SomeCards    ==
  {Settings("claude", "opus", 3, "plan") @@ Place(Unset, "workspace", "w1", "dir"),
   Settings("claude", "mini", 2, "bypassPermissions") @@ Place("gone", "workspace", "w9", Unset),
   Settings("agy", "flash", 2, "sandbox") @@ Place("main", "new_workspace", "w2", "dir"),
   Settings("pi", Unset, 1, Unset) @@ Place(Unset, "workspace", Unset, Unset),
   Settings("own", "mini", 1, "plan") @@ Place(Unset, "workspace", "w1", Unset)}
SomeColumns  == {Settings("claude", "mini", 3, "plan"), Settings(Unset, Unset, Unset, "plan"),
                 Settings(Unset, Unset, 1, Unset), Settings("own", Unset, 1, Unset)}

(* Nothing tells worktrees apart, nor clients. *)
Symmetry == Permutations(Worktrees) \cup Permutations(Clients)

StoreInit ==
  /\ world \in {"layout", "selection", "migrations", "comments", "links", "shows",
                "order", "screens", "linear board", "form"}
  /\ LayoutInit /\ SelInit /\ MigInit
  /\ ComInit /\ Init /\ ShowInit
  /\ OrderInit /\ ScreensInit
  /\ world # "migrations" => stamp = 0
  /\ world # "order" => served.archived = {}
  \* While a mapping is set the stored view says nothing.
  /\ IF world = "linear board" THEN Linear!BoardInit /\ (config # Nil => view = Nil)
     ELSE issues = Nil /\ config = Nil /\ view = Nil /\ board = Nil /\ edits = Nil
  /\ IF world = "form" THEN FormInit
     ELSE stored = Unset /\ form = Unset /\ touched = Unset /\ keys = Unset

StoreNext ==
  \/ /\ world = "layout" /\ LayoutNext
     /\ UNCHANGED <<world, selVars, migVars, comVars, linkVars, showVars, orderVars, sheets,
                   boardVars, formVars>>
  \/ /\ world = "selection" /\ SelNext
     /\ UNCHANGED <<world, layoutVars, migVars, comVars, linkVars, showVars, orderVars, sheets,
                   boardVars, formVars>>
  \/ /\ world = "migrations" /\ MigNext
     /\ UNCHANGED <<world, layoutVars, selVars, comVars, linkVars, showVars, orderVars, sheets,
                   boardVars, formVars>>
  \/ /\ world = "comments" /\ ComNext
     /\ UNCHANGED <<world, layoutVars, selVars, migVars, linkVars, showVars, orderVars, sheets,
                   boardVars, formVars>>
  \/ /\ world = "links" /\ Next
     /\ UNCHANGED <<world, layoutVars, selVars, migVars, comVars, showVars, orderVars, sheets,
                   boardVars, formVars>>
  \/ /\ world = "shows" /\ ShowNext
     /\ UNCHANGED <<world, layoutVars, selVars, migVars, comVars, linkVars, orderVars, sheets,
                   boardVars, formVars>>
  \/ /\ world = "order" /\ OrderNext
     /\ UNCHANGED <<world, layoutVars, selVars, migVars, comVars, linkVars, showVars, sheets,
                   boardVars, formVars>>
  \/ /\ world = "screens" /\ ScreensNext
     /\ UNCHANGED <<world, layoutVars, selVars, migVars, comVars, linkVars, showVars,
                   orderVars, boardVars, formVars>>
  \/ /\ world = "linear board" /\ Linear!BoardNext
     /\ UNCHANGED <<world, layoutVars, selVars, migVars, comVars, linkVars, showVars,
                   orderVars, sheets, formVars>>
  \/ /\ world = "form" /\ FormNext
     /\ UNCHANGED <<world, layoutVars, selVars, migVars, comVars, linkVars, showVars,
                   orderVars, sheets, boardVars>>

StoreSpec ==
  StoreInit /\ [][StoreNext]_<<world, layoutVars, selVars, migVars, comVars, linkVars, showVars,
                          orderVars, sheets, boardVars, formVars>>

-----------------------------------------------------------------------------
(* The properties of the components, each stated in its own module.        *)

(* Every table keeps its types, rows that are ordered have distinct        *)
(* positions, and a file that is served has every step of its upgrade.     *)
TablesTypeOK ==
  CASE world = "layout" -> LayoutTypeOK /\ PositionsDistinct
    [] world = "selection" -> SelTypeOK
    [] world = "migrations" -> MigTypeOK /\ StampIsEarned
    [] world = "comments" -> ComTypeOK
    [] world = "links" -> TypeOK
    [] world = "shows" -> ShowTypeOK
    [] world = "order" -> OrderTypeOK
    [] world = "screens" -> ScreensTypeOK
    [] world = "linear board" -> Linear!CursorTypeOK
    [] world = "form" -> FormTypeOK

(* Grouping agrees with its definition, column by column.                  *)
GroupsAsDefined == world = "linear board" => Linear!GroupsAsDefined

(* The cursor stays on the issue it was on while that is drawn.            *)
CursorKept ==
  /\ [][world = "linear board" => Linear!CursorStays]_<<world, boardVars>>
  /\ [](world = "linear board" => Linear!TabsReturn)
=============================================================================

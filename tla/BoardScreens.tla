---------------------------- MODULE BoardScreens ----------------------------
(***************************************************************************)
(* The screens of the board's terminal interface: which sheet is up, what  *)
(* each sheet remembers as the screen to return to, and what the calls a   *)
(* key leads to do to them when they succeed or fail.  The driver runs     *)
(* them to the end before the next key.                                    *)
(*                                                                         *)
(* Left out: what rows and fields say (a row is its kind), the selection   *)
(* and the two modes that stage an order (BoardOrder), the cursors of the  *)
(* card's detail (DetailView).  Clicks are the keys they stand for.        *)
(***************************************************************************)
EXTENDS Naturals

CONSTANT Absent    \* None

VARIABLE sheets    \* struct App: [screen, picker, confirm, form, switcher,
                   \*              helpReturn, detail, history]

Modals     == {"Picker", "ProjectPicker", "BoardPicker", "CardForm", "Confirm", "Switcher",
               "CommentHistory"}
SheetNames == {"Board", "CardDetail", "MoveColumn", "ReorderCard", "Help"} \cup Modals
Purposes   == {"DeleteColumnMoveTo", "SwitchProject", "SwitchBoard"}
Questions  == {"DeleteCard", "DeleteColumn", "DeleteComment", "CancelRun", "RetryRun",
               "ArchiveBoard", "ArchiveProject"}
Writes     == {"card", "column", "comment", "move"}         \* forms that write a row
Creations  == {"project", "board"}                          \* forms that land elsewhere

ScreensInit ==
    sheets = [screen |-> "Board", picker |-> Absent, confirm |-> Absent, form |-> Absent,
              switcher |-> Absent, helpReturn |-> "Board", detail |-> Absent, history |-> Absent]

\* Another board is the context: every sheet and every return is forgotten.
replace_board(a) ==
    [a EXCEPT !.screen = "Board", !.picker = Absent, !.confirm = Absent, !.form = Absent,
              !.switcher = Absent, !.helpReturn = "Board", !.detail = Absent, !.history = Absent]

----------------------------------------------------------------------------
(* What a call may leave, given what the reducer left *)

\* The list may not come, then nothing is opened.
load_project_picker(a) ==
    {a, [a EXCEPT !.picker = [purpose |-> "SwitchProject", returnTo |-> a.screen],
                  !.screen = "ProjectPicker"]}

load_board_picker(a) ==
    {a, [a EXCEPT !.picker = [purpose |-> "SwitchBoard", returnTo |-> a.screen],
                  !.screen = "BoardPicker"]}

\* board.select, project.select, project.create, board.create
Lands(a) == {a, replace_board(a)}

\* The picker is taken away before it is loaded again.
ReloadPickers(a) ==
    LET shut == [a EXCEPT !.picker = Absent]
    IN CASE a.picker = Absent -> {a}
         [] a.picker.purpose = "SwitchBoard" -> load_board_picker(shut)
         [] a.picker.purpose = "SwitchProject" -> load_project_picker(shut)
         [] OTHER -> {a}

BoardArchive(a) == {a} \cup ReloadPickers(a)

ProjectArchive(a) ==
    {a} \cup (IF a.picker # Absent /\ a.picker.purpose \in {"SwitchProject", "SwitchBoard"}
              THEN load_project_picker([a EXCEPT !.picker = Absent]) ELSE {})

load_detail(a) == {a, [a EXCEPT !.detail = "loaded"]}

Leaves(outcomes) == sheets' \in outcomes

----------------------------------------------------------------------------
(* Keys *)

On(screen) == sheets.screen = screen

WithForm(kind, back) ==
    [sheets EXCEPT !.form = [kind |-> kind, returnTo |-> back], !.screen = "CardForm"]

WithConfirm(purpose, back) ==
    [sheets EXCEPT !.confirm = [purpose |-> purpose, returnTo |-> back], !.screen = "Confirm"]

\* `?`
OpenHelp ==
    /\ sheets.screen \notin {"CardForm", "Help"}
    /\ sheets' = [sheets EXCEPT !.helpReturn = sheets.screen, !.screen = "Help"]

\* board_key
BoardKey ==
    /\ On("Board")
    /\ \/ Leaves(load_board_picker(sheets))
       \/ Leaves(load_project_picker(sheets))
       \/ \E kind \in {"card", "column", "move"} : sheets' = WithForm(kind, "Board")
       \/ sheets' = WithConfirm("DeleteCard", "Board")
       \/ sheets' = WithConfirm("DeleteColumn", "Board")                \* no cards
       \/ sheets' = [sheets EXCEPT !.picker = [purpose |-> "DeleteColumnMoveTo",
                                               returnTo |-> "Board"],
                                   !.screen = "Picker"]
       \/ \E mode \in {"MoveColumn", "ReorderCard"} : sheets' = [sheets EXCEPT !.screen = mode]
       \/ Leaves(load_detail([sheets EXCEPT !.screen = "CardDetail"]))
       \/ sheets' = [sheets EXCEPT !.switcher = "Board", !.screen = "Switcher"]   \* a click

\* Enter in one of the modes that stage an order
CommitMode ==
    /\ sheets.screen \in {"MoveColumn", "ReorderCard"}
    /\ sheets' = [sheets EXCEPT !.screen = "Board"]

\* detail_key
DetailKey ==
    /\ On("CardDetail")
    /\ sheets.detail # Absent
    /\ \/ \E kind \in {"card", "comment"} : sheets' = WithForm(kind, "CardDetail")
       \/ \E purpose \in {"DeleteComment", "CancelRun", "RetryRun"} :
             sheets' = WithConfirm(purpose, "CardDetail")
       \/ Leaves({sheets, [sheets EXCEPT !.history = "loaded", !.screen = "CommentHistory"]})

\* picker_key, on a screen whose picker is there
InPicker == sheets.screen \in {"Picker", "ProjectPicker", "BoardPicker"} /\ sheets.picker # Absent

Shut == [sheets EXCEPT !.picker = Absent]
Back == [Shut EXCEPT !.screen = sheets.picker.returnTo]

ChooseRow ==
    /\ InPicker
    /\ CASE sheets.picker.purpose = "SwitchProject" ->
              \/ sheets' = Back                                    \* the current one
              \/ Leaves(load_board_picker(Shut))                \* its boards
              \/ sheets' = [Back EXCEPT !.form = [kind |-> "project",
                                                  returnTo |-> Back.screen],
                                        !.screen = "CardForm"]
         [] sheets.picker.purpose = "SwitchBoard" ->
              \/ Leaves(Lands(Back))
              \/ Leaves(load_project_picker(Shut))              \* other projects
              \/ sheets' = [Back EXCEPT !.form = [kind |-> "board",
                                                  returnTo |-> Back.screen],
                                        !.screen = "CardForm"]
         [] OTHER -> sheets' = WithConfirm("DeleteColumn", sheets.picker.returnTo)

cycle_picker_visibility ==
    /\ InPicker /\ sheets.picker.purpose # "DeleteColumnMoveTo"
    /\ Leaves(ReloadPickers(sheets))

\* The picker stays, behind the question.
handle_archive_request ==
    /\ InPicker /\ sheets.picker.purpose # "DeleteColumnMoveTo"
    /\ sheets' = WithConfirm(IF sheets.picker.purpose = "SwitchBoard" THEN "ArchiveBoard"
                          ELSE "ArchiveProject", sheets.picker.returnTo)

handle_restore_request ==
    /\ InPicker
    /\ CASE sheets.picker.purpose = "SwitchBoard" -> Leaves(BoardArchive(sheets))
         [] sheets.picker.purpose = "SwitchProject" -> Leaves(ProjectArchive(sheets))
         [] OTHER -> FALSE

\* confirm_key: yes.  The writes of rows leave the screen alone.
Answer ==
    /\ On("Confirm") /\ sheets.confirm # Absent
    /\ LET a == [sheets EXCEPT !.confirm = Absent, !.screen = sheets.confirm.returnTo]
       IN CASE sheets.confirm.purpose = "ArchiveBoard" -> Leaves(BoardArchive(a))
            [] sheets.confirm.purpose = "ArchiveProject" -> Leaves(ProjectArchive(a))
            [] OTHER -> sheets' = a

\* submit_form, when the form accepts: it is closed before the call.
Submit ==
    /\ On("CardForm") /\ sheets.form # Absent
    /\ LET a == [sheets EXCEPT !.form = Absent, !.screen = sheets.form.returnTo]
       IN IF sheets.form.kind \in Creations THEN Leaves(Lands(a)) ELSE sheets' = a

\* switcher_key: a column, the row that opens the board picker, the template
SwitcherRow ==
    /\ On("Switcher") /\ sheets.switcher # Absent
    /\ \/ sheets' = [sheets EXCEPT !.switcher = Absent, !.screen = sheets.switcher]
       \/ Leaves(load_board_picker(sheets))

----------------------------------------------------------------------------
\* A mutant: dismissing a picker leaves it where it is.
EscPickerKept(a) ==
    IF a.picker = Absent THEN [a EXCEPT !.screen = "Board"]
    ELSE [a EXCEPT !.screen = a.picker.returnTo]

\* A sheet whose state is gone closes to the board.
EscPicker(a) ==
    IF a.picker = Absent THEN [a EXCEPT !.screen = "Board"]
    ELSE [a EXCEPT !.screen = a.picker.returnTo, !.picker = Absent]

Esc(a) ==
    CASE a.screen \in {"Picker", "ProjectPicker", "BoardPicker"} -> EscPicker(a)
      [] a.screen = "CardDetail" ->
            [a EXCEPT !.screen = "Board", !.detail = Absent, !.history = Absent]
      [] a.screen = "CommentHistory" -> [a EXCEPT !.screen = "CardDetail", !.history = Absent]
      [] a.screen = "Confirm" ->
            [a EXCEPT !.screen = IF a.confirm = Absent THEN "Board" ELSE a.confirm.returnTo,
                      !.confirm = Absent]
      [] a.screen = "CardForm" ->
            [a EXCEPT !.screen = IF a.form = Absent THEN "Board" ELSE a.form.returnTo,
                      !.form = Absent]
      [] a.screen = "Switcher" ->
            [a EXCEPT !.screen = IF a.switcher = Absent THEN "Board" ELSE a.switcher,
                      !.switcher = Absent]
      [] a.screen = "Help" -> [a EXCEPT !.screen = a.helpReturn]
      [] OTHER -> [a EXCEPT !.screen = "Board"]

PressEsc == ~On("Board") /\ sheets' = Esc(sheets)

ScreensNext ==
    \/ OpenHelp \/ BoardKey \/ CommitMode \/ DetailKey
    \/ ChooseRow \/ cycle_picker_visibility
    \/ handle_archive_request \/ handle_restore_request
    \/ Answer \/ Submit \/ SwitcherRow
    \/ PressEsc

ScreensSpec == ScreensInit /\ [][ScreensNext]_sheets

----------------------------------------------------------------------------
\* A sheet that another one covers is one that has no sheet of its own above
\* it: never a question, a form or the help.
Homes == {"Board", "CardDetail", "Switcher", "Picker", "ProjectPicker", "BoardPicker"}

SheetStates ==
    [screen     : SheetNames,
     picker     : [purpose : Purposes, returnTo : Homes] \cup {Absent},
     confirm    : [purpose : Questions, returnTo : Homes] \cup {Absent},
     form       : [kind : Writes \cup Creations, returnTo : Homes] \cup {Absent},
     switcher   : {"Board", Absent},
     helpReturn : SheetNames \ {"Help", "CardForm"},
     detail     : {"loaded", Absent},
     history    : {"loaded", Absent}]

ScreensTypeOK == sheets \in SheetStates

\* However the sheets were opened over each other, and whatever their calls
\* failed to fetch, Esc leads back to the board: nobody is kept in a sheet that
\* returns to itself, and no sheet is lost under another.
EscapesToBoard == Esc(Esc(Esc(Esc(sheets)))).screen = "Board"
=============================================================================

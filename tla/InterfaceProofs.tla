-------------------------- MODULE InterfaceProofs --------------------------
(***************************************************************************)
(* What a person relies on in the board's terminal interface: that Esc     *)
(* leads back to the board, whatever the sheets and the calls that failed; *)
(* that what a mode shows before Enter is what the board shows after it,   *)
(* for any columns, cards, filter and changes made elsewhere; and that a   *)
(* form saves only what was changed in it, for any harnesses and answers.  *)
(***************************************************************************)
EXTENDS BoardScreens, BoardOrder, CardForm, NaturalOrder, SequenceTheorems, TLAPS

-----------------------------------------------------------------------------
(* The sheets                                                               *)

LEMMA HomesAreScreens == Homes \subseteq SheetNames \ {"Help", "CardForm", "Confirm"}
BY DEF Homes, SheetNames, Modals

(* The pickers are opened over a home.                                      *)
LEMMA PickersLoad ==
  ASSUME NEW a \in SheetStates, a.screen \in Homes
  PROVE  load_project_picker(a) \subseteq SheetStates /\ load_board_picker(a) \subseteq SheetStates
<1>1. /\ [purpose |-> "SwitchProject", returnTo |-> a.screen] \in [purpose : Purposes, returnTo : Homes]
      /\ [purpose |-> "SwitchBoard", returnTo |-> a.screen] \in [purpose : Purposes, returnTo : Homes]
  BY DEF Purposes
<1>2. "ProjectPicker" \in SheetNames /\ "BoardPicker" \in SheetNames
  BY DEF SheetNames, Modals
<1>3. \A p \in [purpose : Purposes, returnTo : Homes], s \in SheetNames :
        [a EXCEPT !.picker = p, !.screen = s] \in SheetStates
  BY DEF SheetStates
<1> QED
  BY <1>1, <1>2, <1>3 DEF load_project_picker, load_board_picker

LEMMA BoardsReplace ==
  ASSUME NEW a \in SheetStates
  PROVE  replace_board(a) \in SheetStates /\ Lands(a) \subseteq SheetStates
<1>1. "Board" \in SheetNames \ {"Help", "CardForm"}
  BY DEF SheetNames
<1> QED
  BY <1>1 DEF replace_board, Lands, SheetStates

(* A picker that is loaded again is loaded over the screen that is left.    *)
LEMMA PickersReload ==
  ASSUME NEW a \in SheetStates, a.screen \in Homes
  PROVE  /\ ReloadPickers(a) \subseteq SheetStates
         /\ BoardArchive(a) \subseteq SheetStates
         /\ ProjectArchive(a) \subseteq SheetStates
<1> DEFINE shut == [a EXCEPT !.picker = Absent]
<1>1. shut \in SheetStates /\ shut.screen \in Homes
  BY DEF SheetStates
<1>2. load_board_picker(shut) \subseteq SheetStates /\ load_project_picker(shut) \subseteq SheetStates
  BY <1>1, PickersLoad
<1> HIDE DEF shut
<1>3. ReloadPickers(a) \in {{a}, load_board_picker(shut), load_project_picker(shut)}
  BY DEF ReloadPickers, shut
<1>4. ProjectArchive(a) \in {{a}, {a} \cup load_project_picker(shut)}
  BY DEF ProjectArchive, shut
<1> QED
  BY <1>2, <1>3, <1>4 DEF BoardArchive

(* Esc closes a sheet over what it covers.                                  *)
LEMMA EscStaysInShape ==
  ASSUME NEW a \in SheetStates
  PROVE  Esc(a) \in SheetStates
<1>1. "Board" \in SheetNames /\ "CardDetail" \in SheetNames /\ Homes \subseteq SheetNames
  BY HomesAreScreens DEF SheetNames
<1>2. EscPicker(a) \in SheetStates
  BY <1>1 DEF EscPicker, SheetStates
<1>3. \A s \in SheetNames :
        /\ [a EXCEPT !.screen = s] \in SheetStates
        /\ [a EXCEPT !.screen = s, !.history = Absent] \in SheetStates
        /\ [a EXCEPT !.screen = s, !.detail = Absent, !.history = Absent] \in SheetStates
        /\ [a EXCEPT !.screen = s, !.confirm = Absent] \in SheetStates
        /\ [a EXCEPT !.screen = s, !.form = Absent] \in SheetStates
        /\ [a EXCEPT !.screen = s, !.switcher = Absent] \in SheetStates
  BY DEF SheetStates
<1>4. /\ (IF a.confirm = Absent THEN "Board" ELSE a.confirm.returnTo) \in SheetNames
      /\ (IF a.form = Absent THEN "Board" ELSE a.form.returnTo) \in SheetNames
      /\ (IF a.switcher = Absent THEN "Board" ELSE a.switcher) \in SheetNames
      /\ a.helpReturn \in SheetNames
  BY <1>1 DEF SheetStates
<1>5. /\ [a EXCEPT !.screen = "Board"] \in SheetStates
      /\ [a EXCEPT !.screen = "Board", !.detail = Absent, !.history = Absent] \in SheetStates
      /\ [a EXCEPT !.screen = "CardDetail", !.history = Absent] \in SheetStates
  BY <1>1, <1>3
<1>6. /\ [a EXCEPT !.screen = IF a.confirm = Absent THEN "Board" ELSE a.confirm.returnTo,
                   !.confirm = Absent] \in SheetStates
      /\ [a EXCEPT !.screen = IF a.form = Absent THEN "Board" ELSE a.form.returnTo,
                   !.form = Absent] \in SheetStates
  BY <1>3, <1>4
<1>7. /\ [a EXCEPT !.screen = IF a.switcher = Absent THEN "Board" ELSE a.switcher,
                   !.switcher = Absent] \in SheetStates
      /\ [a EXCEPT !.screen = a.helpReturn] \in SheetStates
  BY <1>3, <1>4
<1>8. CASE a.screen \in {"Picker", "ProjectPicker", "BoardPicker"}
  BY <1>2, <1>8 DEF Esc
<1>9. CASE a.screen \in {"CardDetail", "CommentHistory"}
  BY <1>5, <1>9 DEF Esc
<1>10. CASE a.screen = "Confirm"
  BY <1>6, <1>10 DEF Esc
<1>11. CASE a.screen = "CardForm"
  BY <1>6, <1>11 DEF Esc
<1>12. CASE a.screen = "Switcher"
  BY <1>7, <1>12 DEF Esc
<1>13. CASE a.screen = "Help"
  BY <1>7, <1>13 DEF Esc
<1>14. CASE a.screen \in {"Board", "MoveColumn", "ReorderCard"}
  BY <1>5, <1>14 DEF Esc
<1>15. a.screen \in SheetNames
  BY DEF SheetStates
<1> QED
  BY <1>8, <1>9, <1>10, <1>11, <1>12, <1>13, <1>14, <1>15 DEF SheetNames, Modals

(* The sheets that a key opens cover a home.                                *)
LEMMA SheetsOpen ==
  ASSUME sheets \in SheetStates
  PROVE  /\ \A kind \in Writes \cup Creations, back \in Homes : WithForm(kind, back) \in SheetStates
         /\ \A purpose \in Questions, back \in Homes : WithConfirm(purpose, back) \in SheetStates
         /\ \A s \in SheetNames : [sheets EXCEPT !.screen = s] \in SheetStates
<1>1. "CardForm" \in SheetNames /\ "Confirm" \in SheetNames
  BY DEF SheetNames, Modals
<1>2. ASSUME NEW kind \in Writes \cup Creations, NEW back \in Homes
      PROVE  WithForm(kind, back) \in SheetStates
  <2>1. [kind |-> kind, returnTo |-> back] \in [kind : Writes \cup Creations, returnTo : Homes]
    OBVIOUS
  <2> QED
    BY <1>1, <2>1 DEF WithForm, SheetStates
<1>3. ASSUME NEW purpose \in Questions, NEW back \in Homes
      PROVE  WithConfirm(purpose, back) \in SheetStates
  <2>1. [purpose |-> purpose, returnTo |-> back] \in [purpose : Questions, returnTo : Homes]
    OBVIOUS
  <2> QED
    BY <1>1, <2>1 DEF WithConfirm, SheetStates
<1>4. \A s \in SheetNames : [sheets EXCEPT !.screen = s] \in SheetStates
  BY DEF SheetStates
<1> QED
  BY <1>2, <1>3, <1>4

LEMMA BoardKeyKeeps ==
  ASSUME sheets \in SheetStates, BoardKey
  PROVE  sheets' \in SheetStates
<1>1. sheets.screen = "Board" /\ "Board" \in Homes /\ {"Picker", "MoveColumn", "ReorderCard",
        "CardDetail", "Switcher"} \subseteq SheetNames
  BY DEF BoardKey, On, Homes, SheetNames, Modals
<1>2. load_board_picker(sheets) \cup load_project_picker(sheets) \subseteq SheetStates
  BY <1>1, PickersLoad
<1>3. {"card", "column", "move"} \subseteq Writes /\ {"DeleteCard", "DeleteColumn"} \subseteq Questions
  BY DEF Writes, Questions
<1>4. [sheets EXCEPT !.picker = [purpose |-> "DeleteColumnMoveTo", returnTo |-> "Board"],
                     !.screen = "Picker"] \in SheetStates
  <2>1. [purpose |-> "DeleteColumnMoveTo", returnTo |-> "Board"]
          \in [purpose : Purposes, returnTo : Homes]
    BY <1>1 DEF Purposes
  <2> QED
    BY <1>1, <2>1 DEF SheetStates
<1>5. load_detail([sheets EXCEPT !.screen = "CardDetail"]) \subseteq SheetStates
  <2>1. \A a \in SheetStates : load_detail(a) \subseteq SheetStates
    BY DEF load_detail, SheetStates
  <2> QED
    BY <1>1, <2>1, SheetsOpen
<1>6. [sheets EXCEPT !.switcher = "Board", !.screen = "Switcher"] \in SheetStates
  BY <1>1 DEF SheetStates
<1> QED
  BY <1>1, <1>2, <1>3, <1>4, <1>5, <1>6, SheetsOpen DEF BoardKey, Leaves

LEMMA DetailKeyKeeps ==
  ASSUME sheets \in SheetStates, DetailKey
  PROVE  sheets' \in SheetStates
<1>1. {"card", "comment"} \subseteq Writes /\ {"DeleteComment", "CancelRun", "RetryRun"} \subseteq Questions
  BY DEF Writes, Questions
<1>2. "CardDetail" \in Homes /\ "CommentHistory" \in SheetNames
  BY DEF Homes, SheetNames, Modals
<1>3. [sheets EXCEPT !.history = "loaded", !.screen = "CommentHistory"] \in SheetStates
  BY <1>2 DEF SheetStates
<1> QED
  BY <1>1, <1>2, <1>3, SheetsOpen DEF DetailKey, Leaves

(* A picker is shut over the screen it covers.                              *)
LEMMA ChooseRowKeeps ==
  ASSUME sheets \in SheetStates, ChooseRow
  PROVE  sheets' \in SheetStates
<1>1. sheets.picker \in [purpose : Purposes, returnTo : Homes]
  BY DEF ChooseRow, InPicker, SheetStates
<1>2. /\ sheets.screen \in Homes /\ sheets.picker.returnTo \in Homes
      /\ Homes \subseteq SheetNames /\ "CardForm" \in SheetNames
  BY <1>1, HomesAreScreens DEF ChooseRow, InPicker, Homes, SheetNames, Modals
<1>3. Shut \in SheetStates /\ Shut.screen \in Homes
  BY <1>2 DEF Shut, SheetStates
<1>4. Back \in SheetStates /\ Back.screen \in Homes
  BY <1>2, <1>3 DEF Back, SheetStates
<1>5. ASSUME NEW kind \in Creations
      PROVE  [Back EXCEPT !.form = [kind |-> kind, returnTo |-> Back.screen], !.screen = "CardForm"]
               \in SheetStates
  <2>1. [kind |-> kind, returnTo |-> Back.screen] \in [kind : Writes \cup Creations, returnTo : Homes]
    BY <1>4
  <2> QED
    BY <1>2, <1>4, <2>1 DEF SheetStates
<1>6. WithConfirm("DeleteColumn", sheets.picker.returnTo) \in SheetStates
  BY <1>2, SheetsOpen DEF Questions
<1>7. load_board_picker(Shut) \cup load_project_picker(Shut) \cup Lands(Back) \subseteq SheetStates
  BY <1>3, <1>4, PickersLoad, BoardsReplace
<1>8. "project" \in Creations /\ "board" \in Creations
  BY DEF Creations
<1> QED
  BY <1>4, <1>5, <1>6, <1>7, <1>8 DEF ChooseRow, Leaves

LEMMA PickersKeep ==
  ASSUME sheets \in SheetStates,
         cycle_picker_visibility \/ handle_archive_request \/ handle_restore_request
  PROVE  sheets' \in SheetStates
<1>1. sheets.screen \in Homes /\ sheets.picker \in [purpose : Purposes, returnTo : Homes]
  BY DEF cycle_picker_visibility, handle_archive_request, handle_restore_request, InPicker,
         SheetStates, Homes
<1>2. /\ ReloadPickers(sheets) \subseteq SheetStates
      /\ BoardArchive(sheets) \subseteq SheetStates
      /\ ProjectArchive(sheets) \subseteq SheetStates
  BY <1>1, PickersReload
<1>3. CASE cycle_picker_visibility
  BY <1>2, <1>3 DEF cycle_picker_visibility, Leaves
<1>4. CASE handle_archive_request
  <2>1. {"ArchiveBoard", "ArchiveProject"} \subseteq Questions /\ sheets.picker.returnTo \in Homes
    BY <1>1 DEF Questions
  <2> QED
    BY <1>4, <2>1, SheetsOpen DEF handle_archive_request
<1>5. CASE handle_restore_request
  BY <1>2, <1>5 DEF handle_restore_request, Leaves
<1> QED
  BY <1>3, <1>4, <1>5

(* The question and the form are taken away before their call is made.      *)
LEMMA AnswerKeeps ==
  ASSUME sheets \in SheetStates, Answer
  PROVE  sheets' \in SheetStates
<1> DEFINE a == [sheets EXCEPT !.confirm = Absent, !.screen = sheets.confirm.returnTo]
<1>1. sheets.confirm.returnTo \in Homes /\ Homes \subseteq SheetNames
  BY HomesAreScreens DEF Answer, SheetStates
<1>2. a \in SheetStates /\ a.screen \in Homes
  BY <1>1 DEF SheetStates
<1>3. sheets' \in {a} \cup BoardArchive(a) \cup ProjectArchive(a)
  BY DEF Answer, Leaves
<1> HIDE DEF a
<1> QED
  BY <1>2, <1>3, PickersReload

LEMMA SubmitKeeps ==
  ASSUME sheets \in SheetStates, Submit
  PROVE  sheets' \in SheetStates
<1> DEFINE a == [sheets EXCEPT !.form = Absent, !.screen = sheets.form.returnTo]
<1>1. sheets.form.returnTo \in Homes /\ Homes \subseteq SheetNames
  BY HomesAreScreens DEF Submit, SheetStates
<1>2. a \in SheetStates
  BY <1>1 DEF SheetStates
<1>3. sheets' \in {a} \cup Lands(a)
  BY DEF Submit, Leaves
<1> HIDE DEF a
<1> QED
  BY <1>2, <1>3, BoardsReplace

LEMMA SwitcherRowKeeps ==
  ASSUME sheets \in SheetStates, SwitcherRow
  PROVE  sheets' \in SheetStates
<1>1. sheets.screen \in Homes /\ sheets.switcher = "Board" /\ "Board" \in SheetNames
  BY DEF SwitcherRow, On, Homes, SheetStates, SheetNames
<1>2. [sheets EXCEPT !.switcher = Absent, !.screen = sheets.switcher] \in SheetStates
  BY <1>1 DEF SheetStates
<1> QED
  BY <1>1, <1>2, PickersLoad DEF SwitcherRow, Leaves

LEMMA SheetsStayInShape ==
  ASSUME sheets \in SheetStates, ScreensNext
  PROVE  sheets' \in SheetStates
<1>1. CASE OpenHelp
  <2>1. sheets.screen \in SheetNames \ {"Help", "CardForm"} /\ "Help" \in SheetNames
    BY <1>1 DEF OpenHelp, SheetStates, SheetNames
  <2> QED
    BY <1>1, <2>1 DEF OpenHelp, SheetStates
<1>2. CASE CommitMode
  BY <1>2, SheetsOpen DEF CommitMode, SheetNames
<1>3. CASE PressEsc
  BY <1>3, EscStaysInShape DEF PressEsc
<1> QED
  BY <1>1, <1>2, <1>3, BoardKeyKeeps, DetailKeyKeeps, ChooseRowKeeps, PickersKeep, AnswerKeeps,
     SubmitKeeps, SwitcherRowKeeps DEF ScreensNext

LEMMA BoardStays ==
  ASSUME NEW a \in SheetStates, a.screen = "Board"
  PROVE  Esc(a).screen = "Board"
<1>1. Esc(a) = [a EXCEPT !.screen = "Board"]
  BY DEF Esc
<1>2. "screen" \in DOMAIN a
  BY DEF SheetStates
<1> QED
  BY <1>1, <1>2

(* How far a screen is from the board: a picker uncovers a home and is      *)
(* gone, what is not a home uncovers one, the help uncovers anything else.  *)
LEMMA PickersUncoverHomes ==
  ASSUME NEW a \in SheetStates, a.screen \in Homes
  PROVE  /\ Esc(a).screen = "Board" \/ (Esc(a).screen \in Homes /\ Esc(a).picker = Absent)
         /\ a.picker = Absent => Esc(a).screen = "Board"
<1>1. CASE a.screen \in {"Picker", "ProjectPicker", "BoardPicker"}
  <2>1. Esc(a) = EscPicker(a)
    BY <1>1 DEF Esc
  <2>2. /\ {"screen", "picker"} \subseteq DOMAIN a
        /\ a.picker # Absent => a.picker.returnTo \in Homes
    BY DEF SheetStates
  <2>3. CASE a.picker = Absent
    BY <2>1, <2>2, <2>3 DEF EscPicker
  <2>4. CASE a.picker # Absent
    BY <2>1, <2>2, <2>4 DEF EscPicker
  <2> QED
    BY <2>3, <2>4
<1>2. CASE a.screen = "CardDetail"
  <2>1. Esc(a) = [a EXCEPT !.screen = "Board", !.detail = Absent, !.history = Absent]
    BY <1>2 DEF Esc
  <2>2. "screen" \in DOMAIN a
    BY DEF SheetStates
  <2> QED
    BY <2>1, <2>2
<1>3. CASE a.screen = "Switcher"
  <2>1. Esc(a) = [a EXCEPT !.screen = IF a.switcher = Absent THEN "Board" ELSE a.switcher,
                           !.switcher = Absent]
    BY <1>3 DEF Esc
  <2>2. "screen" \in DOMAIN a /\ a.switcher \in {"Board", Absent}
    BY DEF SheetStates
  <2> QED
    BY <2>1, <2>2
<1> QED
  BY <1>1, <1>2, <1>3, BoardStays DEF Homes

LEMMA SheetsUncoverHomes ==
  ASSUME NEW a \in SheetStates, a.screen \notin Homes, a.screen # "Help"
  PROVE  Esc(a).screen \in Homes
<1>1. a.screen \in {"MoveColumn", "ReorderCard", "CardForm", "Confirm", "CommentHistory"}
  BY DEF SheetStates, SheetNames, Modals, Homes
<1>2. "Board" \in Homes /\ "CardDetail" \in Homes
  BY DEF Homes
<1>3. /\ "screen" \in DOMAIN a
      /\ a.confirm # Absent => a.confirm.returnTo \in Homes
      /\ a.form # Absent => a.form.returnTo \in Homes
  BY DEF SheetStates
<1>4. CASE a.screen = "Confirm"
  <2>1. Esc(a) = [a EXCEPT !.screen = IF a.confirm = Absent THEN "Board" ELSE a.confirm.returnTo,
                           !.confirm = Absent]
    BY <1>4 DEF Esc
  <2> QED
    BY <1>2, <1>3, <2>1
<1>5. CASE a.screen = "CardForm"
  <2>1. Esc(a) = [a EXCEPT !.screen = IF a.form = Absent THEN "Board" ELSE a.form.returnTo,
                           !.form = Absent]
    BY <1>5 DEF Esc
  <2> QED
    BY <1>2, <1>3, <2>1
<1>6. CASE a.screen = "CommentHistory"
  <2>1. Esc(a) = [a EXCEPT !.screen = "CardDetail", !.history = Absent]
    BY <1>6 DEF Esc
  <2> QED
    BY <1>2, <1>3, <2>1
<1>7. CASE a.screen \in {"MoveColumn", "ReorderCard"}
  <2>1. Esc(a) = [a EXCEPT !.screen = "Board"]
    BY <1>7 DEF Esc
  <2> QED
    BY <1>2, <1>3, <2>1
<1> QED
  BY <1>1, <1>4, <1>5, <1>6, <1>7

LEMMA HelpUncovers ==
  ASSUME NEW a \in SheetStates, a.screen = "Help"
  PROVE  Esc(a).screen # "Help"
<1>1. Esc(a) = [a EXCEPT !.screen = a.helpReturn]
  BY DEF Esc
<1>2. "screen" \in DOMAIN a /\ a.helpReturn # "Help"
  BY DEF SheetStates
<1> QED
  BY <1>1, <1>2

LEMMA TwoFromHome ==
  ASSUME NEW a \in SheetStates, a.screen \in Homes
  PROVE  Esc(Esc(a)).screen = "Board"
<1>1. Esc(a) \in SheetStates /\ "Board" \in Homes
  BY EscStaysInShape DEF Homes
<1>2. CASE Esc(a).screen = "Board"
  BY <1>1, <1>2, BoardStays
<1>3. CASE Esc(a).screen \in Homes /\ Esc(a).picker = Absent
  BY <1>1, <1>3, PickersUncoverHomes
<1> QED
  BY <1>2, <1>3, PickersUncoverHomes

LEMMA ThreeFromSheets ==
  ASSUME NEW a \in SheetStates, a.screen # "Help"
  PROVE  Esc(Esc(Esc(a))).screen = "Board"
<1>1. Esc(a) \in SheetStates /\ Esc(Esc(a)) \in SheetStates
  BY EscStaysInShape
<1>2. CASE a.screen \in Homes
  <2>1. Esc(Esc(a)).screen = "Board"
    BY <1>2, TwoFromHome
  <2> QED
    BY <1>1, <2>1, BoardStays
<1>3. CASE a.screen \notin Homes
  BY <1>1, <1>3, SheetsUncoverHomes, TwoFromHome
<1> QED
  BY <1>2, <1>3

(* BoardScreens: the sheets cover one another only as far as a picker over  *)
(* a home; whatever calls fail, at most four times Esc leads to the board.  *)
THEOREM EscAlwaysLeads == ScreensSpec => []EscapesToBoard
<1>1. ScreensInit => sheets \in SheetStates
  <2>1. "Board" \in SheetNames \ {"Help", "CardForm"}
    BY DEF SheetNames
  <2> QED
    BY <2>1 DEF ScreensInit, SheetStates
<1>2. sheets \in SheetStates /\ [ScreensNext]_sheets => (sheets \in SheetStates)'
  BY SheetsStayInShape
<1>3. sheets \in SheetStates => EscapesToBoard
  <2> SUFFICES ASSUME sheets \in SheetStates PROVE EscapesToBoard
    OBVIOUS
  <2>1. Esc(sheets) \in SheetStates /\ Esc(Esc(Esc(sheets))) \in SheetStates
    BY EscStaysInShape
  <2>2. CASE sheets.screen = "Help"
    BY <2>1, <2>2, HelpUncovers, ThreeFromSheets DEF EscapesToBoard
  <2>3. CASE sheets.screen # "Help"
    <3>1. Esc(Esc(Esc(sheets))).screen = "Board"
      BY <2>3, ThreeFromSheets
    <3> QED
      BY <2>1, <3>1, BoardStays DEF EscapesToBoard
  <2> QED
    BY <2>2, <2>3
<1> QED
  BY <1>1, <1>2, <1>3, PTL DEF ScreensSpec

-----------------------------------------------------------------------------
(* Sequences without duplicates                                             *)

LEMMA ElementsOf ==
  ASSUME NEW T, NEW s \in Seq(T)
  PROVE  /\ DOMAIN s = 1 .. Len(s) /\ Len(s) \in Nat
         /\ ToSet(s) = {s[k] : k \in 1 .. Len(s)} /\ ToSet(s) \subseteq T
         /\ \A k \in 1 .. Len(s) : s[k] \in T
BY DEF ToSet

(* The element at a place is taken out, those behind it move up.            *)
LEMMA RemovedAt ==
  ASSUME NEW T, NEW s \in Seq(T), NEW x \in 1 .. Len(s)
  PROVE  /\ RemoveAt(s, x) \in Seq(T) /\ Len(RemoveAt(s, x)) = Len(s) - 1
         /\ \A k \in 1 .. Len(s) - 1 : RemoveAt(s, x)[k] = IF k < x THEN s[k] ELSE s[k + 1]
<1> DEFINE n == Len(s)
           u == SubSeq(s, 1, x - 1)
           v == SubSeq(s, x + 1, n)
<1>1. n \in Nat /\ x \in 1 .. n /\ \A k \in 1 .. n : s[k] \in T
  BY ElementsOf
<1>2. u \in Seq(T) /\ Len(u) = x - 1 /\ \A k \in 1 .. x - 1 : u[k] = s[k]
  BY <1>1, SubSeqProperties
<1>3. v \in Seq(T) /\ Len(v) = n - x /\ \A k \in 1 .. n - x : v[k] = s[x + k]
  BY <1>1, SubSeqProperties
<1>4. RemoveAt(s, x) = u \o v
  BY DEF RemoveAt
<1> HIDE DEF u, v, n
<1>5. /\ u \o v \in Seq(T) /\ Len(u \o v) = Len(u) + Len(v)
      /\ \A k \in 1 .. Len(u) + Len(v) : (u \o v)[k] = IF k <= Len(u) THEN u[k] ELSE v[k - Len(u)]
  BY <1>2, <1>3, ConcatProperties
<1>6. (x - 1) + (n - x) = n - 1
  BY <1>1
<1>7. ASSUME NEW k \in 1 .. n - 1 PROVE (u \o v)[k] = IF k < x THEN s[k] ELSE s[k + 1]
  <2>1. CASE k < x
    <3>1. k \in 1 .. x - 1 /\ k <= x - 1
      BY <1>1, <2>1
    <3> QED
      BY <1>2, <1>3, <1>5, <1>6, <2>1, <3>1
  <2>2. CASE ~(k < x)
    <3>1. k - (x - 1) \in 1 .. n - x /\ x + (k - (x - 1)) = k + 1 /\ ~(k <= x - 1)
      BY <1>1, <2>2
    <3> QED
      BY <1>2, <1>3, <1>5, <1>6, <2>2, <3>1
  <2> QED
    BY <2>1, <2>2
<1>8. Len(u \o v) = n - 1
  BY <1>2, <1>3, <1>5, <1>6
<1> QED
  BY <1>4, <1>5, <1>7, <1>8 DEF n

(* An element is put at a place, those from there on move down.             *)
LEMMA InsertedAt ==
  ASSUME NEW T, NEW s \in Seq(T), NEW e \in T, NEW x \in 1 .. Len(s) + 1
  PROVE  /\ InsertAt(s, x, e) \in Seq(T) /\ Len(InsertAt(s, x, e)) = Len(s) + 1
         /\ \A k \in 1 .. Len(s) + 1 : InsertAt(s, x, e)[k] =
              IF k < x THEN s[k] ELSE IF k = x THEN e ELSE s[k - 1]
<1> DEFINE n == Len(s)
           u == SubSeq(s, 1, x - 1)
           v == SubSeq(s, x, n)
           w == u \o <<e>>
<1>1. n \in Nat /\ x \in 1 .. n + 1 /\ \A k \in 1 .. n : s[k] \in T
  BY ElementsOf
<1>2. u \in Seq(T) /\ Len(u) = x - 1 /\ \A k \in 1 .. x - 1 : u[k] = s[k]
  BY <1>1, SubSeqProperties
<1>3. v \in Seq(T) /\ Len(v) = n - x + 1 /\ \A k \in 1 .. n - x + 1 : v[k] = s[x + k - 1]
  BY <1>1, SubSeqProperties
<1>4. InsertAt(s, x, e) = w \o v
  BY DEF InsertAt
<1> HIDE DEF u, v, n
<1>5. /\ w \in Seq(T) /\ Len(w) = x
      /\ \A k \in 1 .. x : w[k] = IF k < x THEN s[k] ELSE e
  <2>1. <<e>> \in Seq(T) /\ Len(<<e>>) = 1 /\ <<e>>[1] = e
    OBVIOUS
  <2> DEFINE z == <<e>>
  <2>2. z \in Seq(T) /\ Len(z) = 1 /\ z[1] = e
    BY <2>1
  <2> HIDE DEF z
  <2>3. /\ u \o z \in Seq(T) /\ Len(u \o z) = Len(u) + Len(z)
        /\ \A k \in 1 .. Len(u) + Len(z) : (u \o z)[k] = IF k <= Len(u) THEN u[k] ELSE z[k - Len(u)]
    BY <1>2, <2>2, ConcatProperties
  <2>4. (x - 1) + 1 = x /\ \A k \in 1 .. x : k < x \/ k - (x - 1) = 1
    BY <1>1
  <2>5. \A k \in 1 .. x : k <= x - 1 <=> k < x
    BY <1>1
  <2>6. \A k \in 1 .. x : k < x => k \in 1 .. x - 1
    BY <1>1
  <2>7. \A k \in 1 .. x : (u \o z)[k] = IF k < x THEN s[k] ELSE e
    BY <1>2, <2>2, <2>3, <2>4, <2>5, <2>6
  <2> QED
    BY <1>2, <2>2, <2>3, <2>4, <2>7 DEF z
<1> HIDE DEF w
<1>6. /\ w \o v \in Seq(T) /\ Len(w \o v) = Len(w) + Len(v)
      /\ \A k \in 1 .. Len(w) + Len(v) : (w \o v)[k] = IF k <= Len(w) THEN w[k] ELSE v[k - Len(w)]
  BY <1>3, <1>5, ConcatProperties
<1>7. x + (n - x + 1) = n + 1
  BY <1>1
<1>8. ASSUME NEW k \in 1 .. n + 1
      PROVE  (w \o v)[k] = IF k < x THEN s[k] ELSE IF k = x THEN e ELSE s[k - 1]
  <2>1. CASE k <= x
    <3>1. k \in 1 .. x /\ (k < x \/ k = x) /\ ~(x < x)
      BY <1>1, <2>1
    <3> QED
      BY <1>3, <1>5, <1>6, <1>7, <2>1, <3>1
  <2>2. CASE ~(k <= x)
    <3>1. k - x \in 1 .. n - x + 1 /\ x + (k - x) - 1 = k - 1 /\ ~(k < x) /\ k # x
      BY <1>1, <2>2
    <3> QED
      BY <1>3, <1>5, <1>6, <1>7, <2>2, <3>1
  <2> QED
    BY <2>1, <2>2
<1>9. Len(w \o v) = n + 1
  BY <1>3, <1>5, <1>6, <1>7
<1> QED
  BY <1>4, <1>6, <1>8, <1>9 DEF n

LEMMA FirstRemoved ==
  ASSUME NEW T, NEW s \in Seq(T), NEW e
  PROVE  /\ RemoveFirst(s, e) \in Seq(T)
         /\ e \notin ToSet(s) => RemoveFirst(s, e) = s
         /\ e \in ToSet(s) => Len(RemoveFirst(s, e)) = Len(s) - 1
         /\ ToSet(RemoveFirst(s, e)) \subseteq ToSet(s)
         /\ IsInjective(s) => /\ IsInjective(RemoveFirst(s, e))
                              /\ ToSet(RemoveFirst(s, e)) = ToSet(s) \ {e}
<1> DEFINE I == {k \in 1 .. Len(s) : s[k] = e}
           x == Min(I)
           n == Len(s)
           r == RemoveAt(s, x)
<1>1. n \in Nat /\ DOMAIN s = 1 .. n /\ ToSet(s) = {s[k] : k \in 1 .. n}
  BY ElementsOf
<1>2. CASE e \notin ToSet(s)
  <2>1. ~ (\E k \in 1 .. n : s[k] = e)
    BY <1>1, <1>2
  <2>2. RemoveFirst(s, e) = s
    BY <2>1 DEF RemoveFirst
  <2> QED
    BY <1>2, <2>2
<1>3. CASE e \in ToSet(s)
  <2>1. PICK k \in 1 .. n : s[k] = e
    BY <1>1, <1>3
  <2>2. I \in SUBSET Nat /\ I # {}
    BY <1>1, <2>1
  <2>3. x \in I
    <3> HIDE DEF I
    <3> QED
      BY <2>2, MinOf
  <2>4. RemoveFirst(s, e) = r
    BY <2>1, <2>2 DEF RemoveFirst, SelectInSeq
  <2>5. x \in 1 .. n /\ s[x] = e
    BY <2>3
  <2> HIDE DEF I, x, n, r
  <2>6. /\ r \in Seq(T) /\ Len(r) = n - 1
        /\ \A j \in 1 .. n - 1 : r[j] = IF j < x THEN s[j] ELSE s[j + 1]
    BY <2>5, RemovedAt DEF n, r
  <2> DEFINE Old(j) == IF j < x THEN j ELSE j + 1
  <2>7. DOMAIN r = 1 .. n - 1 /\ ToSet(r) = {r[j] : j \in 1 .. n - 1}
    <3>1. DOMAIN r = 1 .. Len(r) /\ ToSet(r) = {r[j] : j \in 1 .. Len(r)}
      BY <2>6, ElementsOf
    <3> QED
      BY <2>6, <3>1
  <2>8. \A j \in 1 .. n - 1 : Old(j) \in 1 .. n /\ Old(j) # x /\ r[j] = s[Old(j)]
    BY <1>1, <2>5, <2>6
  <2>9. \A i, j \in 1 .. n - 1 : Old(i) = Old(j) => i = j
    BY <1>1, <2>5
  <2>10. \A m \in 1 .. n : m # x => \E j \in 1 .. n - 1 : r[j] = s[m]
    <3> SUFFICES ASSUME NEW m \in 1 .. n, m # x PROVE \E j \in 1 .. n - 1 : r[j] = s[m]
      OBVIOUS
    <3>1. CASE m < x
      <4>1. m \in 1 .. n - 1 /\ r[m] = s[m]
        BY <1>1, <2>5, <2>6, <3>1
      <4> QED
        BY <4>1
    <3>2. CASE m > x
      <4>1. m - 1 \in 1 .. n - 1 /\ ~(m - 1 < x) /\ (m - 1) + 1 = m
        BY <1>1, <2>5, <3>2
      <4>2. r[m - 1] = s[m]
        BY <2>6, <4>1
      <4> QED
        BY <4>1, <4>2
    <3> QED
      BY <1>1, <2>5, <3>1, <3>2
  <2> HIDE DEF Old
  <2>11. ToSet(r) \subseteq ToSet(s)
    BY <1>1, <2>7, <2>8
  <2>12. ASSUME IsInjective(s) PROVE IsInjective(r) /\ ToSet(r) = ToSet(s) \ {e}
    <3>1. \A i, j \in 1 .. n : s[i] = s[j] => i = j
      BY <1>1, <2>12 DEF IsInjective
    <3>2. IsInjective(r)
      <4> SUFFICES ASSUME NEW i \in 1 .. n - 1, NEW j \in 1 .. n - 1, r[i] = r[j] PROVE i = j
        BY <2>7 DEF IsInjective
      <4> QED
        BY <2>8, <2>9, <3>1
    <3>3. \A j \in 1 .. n - 1 : r[j] # e
      BY <2>5, <2>8, <3>1
    <3>4. ToSet(s) \ {e} \subseteq ToSet(r)
      BY <1>1, <2>5, <2>7, <2>10
    <3> QED
      BY <2>7, <2>11, <3>2, <3>3, <3>4
  <2> QED
    BY <1>3, <2>4, <2>6, <2>11, <2>12 DEF n
<1> QED
  BY <1>2, <1>3

LEMMA Inserted ==
  ASSUME NEW T, NEW s \in Seq(T), NEW e \in T, NEW x \in 1 .. Len(s) + 1
  PROVE  /\ InsertAt(s, x, e) \in Seq(T) /\ Len(InsertAt(s, x, e)) = Len(s) + 1
         /\ ToSet(InsertAt(s, x, e)) = ToSet(s) \cup {e}
         /\ IsInjective(s) /\ e \notin ToSet(s) => IsInjective(InsertAt(s, x, e))
<1>0. /\ InsertAt(s, x, e) \in Seq(T) /\ Len(InsertAt(s, x, e)) = Len(s) + 1
      /\ \A k \in 1 .. Len(s) + 1 : InsertAt(s, x, e)[k] =
           IF k < x THEN s[k] ELSE IF k = x THEN e ELSE s[k - 1]
  BY InsertedAt
<1> DEFINE n == Len(s)
           r == InsertAt(s, x, e)
           Old(k) == IF k < x THEN k ELSE k - 1
<1>1. n \in Nat /\ DOMAIN s = 1 .. n /\ ToSet(s) = {s[k] : k \in 1 .. n} /\ x \in 1 .. n + 1
  BY ElementsOf
<1>2. /\ r \in Seq(T) /\ Len(r) = n + 1
      /\ \A k \in 1 .. n + 1 : r[k] = IF k < x THEN s[k] ELSE IF k = x THEN e ELSE s[k - 1]
  BY <1>0
<1> HIDE DEF n, r
<1>3. DOMAIN r = 1 .. n + 1 /\ ToSet(r) = {r[k] : k \in 1 .. n + 1}
  <2>1. DOMAIN r = 1 .. Len(r) /\ ToSet(r) = {r[j] : j \in 1 .. Len(r)}
    BY <1>2, ElementsOf
  <2> QED
    BY <1>2, <2>1
<1>4. r[x] = e /\ \A k \in 1 .. n + 1 : k # x => Old(k) \in 1 .. n /\ r[k] = s[Old(k)]
  BY <1>1, <1>2
<1>5. \A k, l \in 1 .. n + 1 : k # x /\ l # x /\ Old(k) = Old(l) => k = l
  BY <1>1
<1>6. ASSUME NEW m \in 1 .. n PROVE \E k \in 1 .. n + 1 : r[k] = s[m]
  <2>1. CASE m < x
    <3>1. m \in 1 .. n + 1 /\ r[m] = s[m]
      BY <1>1, <1>2, <2>1
    <3> QED
      BY <3>1
  <2>2. CASE ~(m < x)
    <3>1. m + 1 \in 1 .. n + 1 /\ ~(m + 1 < x) /\ m + 1 # x /\ (m + 1) - 1 = m
      BY <1>1, <2>2
    <3>2. r[m + 1] = s[m]
      BY <1>2, <3>1
    <3> QED
      BY <3>1, <3>2
  <2> QED
    BY <2>1, <2>2
<1> HIDE DEF Old
<1>7. ToSet(r) = ToSet(s) \cup {e}
  BY <1>1, <1>3, <1>4, <1>6
<1>8. ASSUME IsInjective(s), e \notin ToSet(s) PROVE IsInjective(r)
  <2>1. /\ \A i, j \in 1 .. n : s[i] = s[j] => i = j
        /\ \A i \in 1 .. n : s[i] # e
    BY <1>1, <1>8 DEF IsInjective
  <2> SUFFICES ASSUME NEW i \in 1 .. n + 1, NEW j \in 1 .. n + 1, r[i] = r[j] PROVE i = j
    BY <1>3 DEF IsInjective
  <2> QED
    BY <1>4, <1>5, <2>1
<1> QED
  BY <1>2, <1>7, <1>8 DEF r, n

LEMMA UpToN ==
  ASSUME NEW k \in Nat
  PROVE  IsFiniteSet(1 .. k) /\ Cardinality(1 .. k) = k
<1>1. IsFiniteSet(1 .. k) /\ Cardinality(1 .. k) = IF 1 > k THEN 0 ELSE k - 1 + 1
  BY FS_Interval
<1> QED
  BY <1>1

(* What a filter keeps.                                                     *)
LEMMA KeptElements ==
  ASSUME NEW T, NEW s \in Seq(T), NEW S
  PROVE  /\ Kept(s, S) \in Seq(T)
         /\ ToSet(Kept(s, S)) \subseteq ToSet(s) \cap S
         /\ ToSet(s) \subseteq S => Kept(s, S) = s
         /\ Len(Kept(s, S)) = Len(s) => ToSet(s) \subseteq S
<1> DEFINE n == Len(s)
           at == {k \in DOMAIN s : s[k] \in S}
           m == Cardinality(at)
           Pick(j) == CHOOSE k \in at : Cardinality(Upto(at, k)) = j
<1>1. n \in Nat /\ DOMAIN s = 1 .. n /\ ToSet(s) = {s[k] : k \in 1 .. n} /\ \A k \in 1 .. n : s[k] \in T
  BY ElementsOf
<1>2. at \in SUBSET Nat /\ at \subseteq 1 .. n
  BY <1>1
<1>3. IsFiniteSet(1 .. n) /\ Cardinality(1 .. n) = n
  BY <1>1, UpToN
<1>4. IsFiniteSet(at) /\ m \in Nat
  BY <1>2, <1>3, FS_Subset, FS_CardinalityType
<1>5. Kept(s, S) = [j \in 1 .. m |-> s[Pick(j)]]
  BY DEF Kept, Upto
<1>6. \A k \in at : s[k] \in S /\ s[k] \in T /\ s[k] \in ToSet(s)
  BY <1>1, <1>2
<1>7. at = 1 .. n <=> ToSet(s) \subseteq S
  BY <1>1
<1> HIDE DEF at, n
<1>8. \A j \in 1 .. m : Pick(j) \in at /\ Cardinality(Upto(at, Pick(j))) = j
  BY <1>2, <1>4, RanksCover
<1> DEFINE f == [j \in 1 .. m |-> s[Pick(j)]]
<1> HIDE DEF Pick, m
<1>9. f \in [1 .. m -> T] /\ \A j \in 1 .. m : f[j] \in ToSet(s) \cap S
  BY <1>6, <1>8
<1>10. f \in Seq(T) /\ Len(f) = m /\ ToSet(f) \subseteq ToSet(s) \cap S
  <2>1. f \in Seq(T) /\ Len(f) = m
    BY <1>4, <1>9
  <2> HIDE DEF f
  <2>2. ToSet(f) = {f[j] : j \in 1 .. m}
    <3>1. ToSet(f) = {f[j] : j \in 1 .. Len(f)}
      BY <2>1, ElementsOf
    <3> QED
      BY <2>1, <3>1
  <2> QED
    BY <1>9, <2>1, <2>2
<1>11. ASSUME ToSet(s) \subseteq S PROVE f = s
  <2>1. at = 1 .. n /\ m = n
    BY <1>3, <1>7, <1>11 DEF m
  <2>2. ASSUME NEW j \in 1 .. n PROVE Pick(j) = j
    <3>1. Upto(at, Pick(j)) = 1 .. Pick(j) /\ Pick(j) \in 1 .. n
      <4>1. Pick(j) \in 1 .. n
        BY <1>8, <2>1
      <4> QED
        BY <1>1, <2>1, <4>1 DEF Upto
    <3>2. Cardinality(1 .. Pick(j)) = Pick(j)
      BY <1>1, <3>1, UpToN
    <3> QED
      BY <1>8, <2>1, <3>1, <3>2
  <2>3. s = [j \in 1 .. n |-> s[j]]
    BY <1>1
  <2> QED
    BY <2>1, <2>2, <2>3
<1>12. ASSUME m = n PROVE ToSet(s) \subseteq S
  <2>1. at = 1 .. n
    BY <1>2, <1>3, <1>12, FS_Subset DEF m
  <2> QED
    BY <1>7, <2>1
<1> HIDE DEF f
<1>13. Kept(s, S) = f
  BY <1>5 DEF f
<1> QED
  BY <1>10, <1>11, <1>12, <1>13 DEF n

LEMMA Appended ==
  ASSUME NEW T, NEW s \in Seq(T), NEW e \in T
  PROVE  /\ Append(s, e) \in Seq(T)
         /\ ToSet(Append(s, e)) = ToSet(s) \cup {e}
         /\ IsInjective(s) /\ e \notin ToSet(s) => IsInjective(Append(s, e))
<1>1. PICK n \in Nat : n = Len(s)
  BY ElementsOf
<1>2. DOMAIN s = 1 .. n /\ ToSet(s) = {s[k] : k \in 1 .. n}
  BY <1>1, ElementsOf
<1>3. PICK r \in Seq(T) : r = Append(s, e) /\ Len(r) = n + 1
  BY <1>1, AppendProperties
<1>4. r[n + 1] = e /\ \A k \in 1 .. n : r[k] = s[k]
  BY <1>1, <1>3, AppendProperties
<1>5. DOMAIN r = 1 .. n + 1 /\ ToSet(r) = {r[k] : k \in 1 .. n + 1}
  <2>1. DOMAIN r = 1 .. Len(r) /\ ToSet(r) = {r[k] : k \in 1 .. Len(r)}
    BY ElementsOf
  <2> QED
    BY <1>3, <2>1
<1>6. \A k \in 1 .. n + 1 : k \in 1 .. n \/ k = n + 1
  OBVIOUS
<1>7. 1 .. n \subseteq 1 .. n + 1 /\ n + 1 \in 1 .. n + 1
  OBVIOUS
<1>8. ToSet(r) = ToSet(s) \cup {e}
  BY <1>2, <1>4, <1>5, <1>6, <1>7
<1>9. ASSUME IsInjective(s), e \notin ToSet(s) PROVE IsInjective(r)
  <2>1. /\ \A i, j \in 1 .. n : s[i] = s[j] => i = j
        /\ \A i \in 1 .. n : s[i] # e
    BY <1>2, <1>9 DEF IsInjective
  <2> QED
    BY <1>4, <1>5, <1>6, <2>1 DEF IsInjective
<1> QED
  BY <1>3, <1>8, <1>9

LEMMA PlaceInside ==
  ASSUME NEW to \in Nat, NEW n \in Nat
  PROVE  1 + Least(to, n) \in 1 .. n + 1 /\ Least(to, n) \in Nat
BY DEF Least

(* What is moved goes elsewhere: nothing is lost, nothing comes twice.      *)
LEMMA RotatedKeeps ==
  ASSUME NEW T, NEW s \in Seq(T), NEW e, NEW to \in Nat
  PROVE  /\ Rotated(s, e, to) \in Seq(T)
         /\ Len(Rotated(s, e, to)) = Len(s)
         /\ IsInjective(s) => /\ IsInjective(Rotated(s, e, to))
                              /\ ToSet(Rotated(s, e, to)) = ToSet(s)
<1>1. CASE e \notin ToSet(s)
  BY <1>1 DEF Rotated
<1>2. CASE e \in ToSet(s)
  <2>1. PICK r \in Seq(T) : r = RemoveFirst(s, e)
    BY FirstRemoved
  <2>2. /\ Len(r) = Len(s) - 1
        /\ IsInjective(s) => IsInjective(r) /\ ToSet(r) = ToSet(s) \ {e}
    BY <1>2, <2>1, FirstRemoved
  <2>3. PICK x \in 1 .. Len(r) + 1 : x = 1 + Least(to, Len(r))
    BY PlaceInside, ElementsOf
  <2>4. e \in T /\ Len(s) \in Nat
    BY <1>2, ElementsOf
  <2>5. /\ InsertAt(r, x, e) \in Seq(T) /\ Len(InsertAt(r, x, e)) = Len(r) + 1
        /\ ToSet(InsertAt(r, x, e)) = ToSet(r) \cup {e}
        /\ IsInjective(r) /\ e \notin ToSet(r) => IsInjective(InsertAt(r, x, e))
    BY <2>4, Inserted
  <2>6. Rotated(s, e, to) = InsertAt(r, x, e)
    BY <1>2, <2>1, <2>3 DEF Rotated
  <2>7. Len(r) + 1 = Len(s)
    BY <2>2, <2>4
  <2>8. ASSUME IsInjective(s)
        PROVE  IsInjective(InsertAt(r, x, e)) /\ ToSet(InsertAt(r, x, e)) = ToSet(s)
    BY <1>2, <2>2, <2>5, <2>8
  <2> QED
    BY <2>5, <2>6, <2>7, <2>8
<1> QED
  BY <1>1, <1>2

-----------------------------------------------------------------------------
(* The calls that change the board keep it a board                          *)

LEMMA BoardFields ==
  ASSUME NEW b \in OrderedBoards
  PROVE  /\ b.cols \in Seq(Columns) /\ IsInjective(b.cols)
         /\ b.archived \subseteq Archivable
         /\ b.cards \in [Columns -> Seq(Cards)]
         /\ \A c \in Columns : b.cards[c] \in Seq(Cards) /\ IsInjective(b.cards[c])
         /\ \A c, d \in Columns : c # d => ToSet(b.cards[c]) \cap ToSet(b.cards[d]) = {}
BY DEF OrderedBoards

LEMMA ColumnsChange ==
  ASSUME NEW b \in OrderedBoards, NEW q \in Seq(Columns), IsInjective(q)
  PROVE  [b EXCEPT !.cols = q] \in OrderedBoards
BY DEF OrderedBoards

LEMMA CardsChange ==
  ASSUME NEW b \in OrderedBoards, NEW f \in [Columns -> Seq(Cards)],
         \A c \in Columns : IsInjective(f[c]),
         \A c, d \in Columns : c # d => ToSet(f[c]) \cap ToSet(f[d]) = {}
  PROVE  [b EXCEPT !.cards = f] \in OrderedBoards
BY DEF OrderedBoards

LEMMA ArchiveChange ==
  ASSUME NEW b \in OrderedBoards, NEW S \in SUBSET Archivable
  PROVE  [b EXCEPT !.archived = S] \in OrderedBoards
BY DEF OrderedBoards

LEMMA ColumnReordered ==
  ASSUME NEW b \in OrderedBoards, NEW c, NEW at \in Nat
  PROVE  column_reorder(b, c, at) \in OrderedBoards
<1>1. Rotated(b.cols, c, at) \in Seq(Columns) /\ IsInjective(Rotated(b.cols, c, at))
  BY BoardFields, RotatedKeeps
<1> QED
  BY <1>1, ColumnsChange DEF column_reorder

LEMMA CardTaken ==
  ASSUME NEW b \in OrderedBoards, NEW i, NEW c \in Columns
  PROVE  /\ RemoveFirst(b.cards[c], i) \in Seq(Cards)
         /\ IsInjective(RemoveFirst(b.cards[c], i))
         /\ ToSet(RemoveFirst(b.cards[c], i)) = ToSet(b.cards[c]) \ {i}
BY BoardFields, FirstRemoved

LEMMA CardMoved ==
  ASSUME NEW b \in OrderedBoards, NEW i \in Cards, NEW c \in Columns, NEW at \in Nat
  PROVE  card_move(b, i, c, at) \in OrderedBoards
<1> DEFINE f == [x \in Columns |->
                   LET rest == RemoveFirst(b.cards[x], i)
                   IN IF x = c THEN InsertAt(rest, 1 + Least(at, Len(rest)), i) ELSE rest]
<1>1. PICK r \in Seq(Cards) : r = RemoveFirst(b.cards[c], i)
  BY CardTaken
<1>2. IsInjective(r) /\ i \notin ToSet(r) /\ ToSet(r) = ToSet(b.cards[c]) \ {i}
  <2>1. /\ IsInjective(RemoveFirst(b.cards[c], i))
        /\ ToSet(RemoveFirst(b.cards[c], i)) = ToSet(b.cards[c]) \ {i}
    BY CardTaken
  <2> HIDE DEF f
  <2> QED
    BY <1>1, <2>1
<1>3. PICK x \in 1 .. Len(r) + 1 : x = 1 + Least(at, Len(r))
  BY PlaceInside, ElementsOf
<1>4. /\ InsertAt(r, x, i) \in Seq(Cards) /\ IsInjective(InsertAt(r, x, i))
      /\ ToSet(InsertAt(r, x, i)) = ToSet(r) \cup {i}
  BY <1>2, Inserted
<1>5. f[c] = InsertAt(r, x, i) /\ \A d \in Columns : d # c => f[d] = RemoveFirst(b.cards[d], i)
  BY <1>1, <1>3
<1>6. \A d \in Columns : f[d] \in Seq(Cards) /\ IsInjective(f[d])
                          /\ ToSet(f[d]) \subseteq (ToSet(b.cards[d]) \ {i}) \cup (IF d = c THEN {i} ELSE {})
  BY <1>2, <1>4, <1>5, CardTaken
<1>7. f \in [Columns -> Seq(Cards)]
  <2>1. f = [d \in Columns |-> f[d]]
    OBVIOUS
  <2> HIDE DEF f
  <2> QED
    BY <1>6, <2>1
<1>8. \A d, e \in Columns : d # e => ToSet(b.cards[d]) \cap ToSet(b.cards[e]) = {}
  BY BoardFields
<1>9. card_move(b, i, c, at) = [b EXCEPT !.cards = f]
  BY DEF card_move
<1> HIDE DEF f
<1>10. \A d, e \in Columns : d # e => ToSet(f[d]) \cap ToSet(f[e]) = {}
  BY <1>6, <1>8
<1> QED
  BY <1>6, <1>7, <1>9, <1>10, CardsChange

LEMMA CardDeleted ==
  ASSUME NEW b \in OrderedBoards, NEW i
  PROVE  [b EXCEPT !.archived = @ \ {i},
                   !.cards = [c \in Columns |-> RemoveFirst(b.cards[c], i)]] \in OrderedBoards
<1>1. PICK f : f = [c \in Columns |-> RemoveFirst(b.cards[c], i)]
  OBVIOUS
<1>2. f \in [Columns -> Seq(Cards)] /\ \A c \in Columns : IsInjective(f[c])
  BY <1>1, CardTaken
<1>3. \A c \in Columns : ToSet(f[c]) \subseteq ToSet(b.cards[c])
  <2> SUFFICES ASSUME NEW c \in Columns PROVE ToSet(f[c]) \subseteq ToSet(b.cards[c])
    OBVIOUS
  <2>1. f[c] = RemoveFirst(b.cards[c], i)
    BY <1>1
  <2>2. ToSet(RemoveFirst(b.cards[c], i)) = ToSet(b.cards[c]) \ {i}
    BY CardTaken
  <2> QED
    BY <2>1, <2>2
<1>4. \A c, d \in Columns : c # d => ToSet(b.cards[c]) \cap ToSet(b.cards[d]) = {}
  BY BoardFields
<1>5. \A c, d \in Columns : c # d => ToSet(f[c]) \cap ToSet(f[d]) = {}
  BY <1>3, <1>4
<1>6. PICK a \in OrderedBoards : a = [b EXCEPT !.archived = b.archived \ {i}]
  <2>1. b.archived \ {i} \in SUBSET Archivable
    BY BoardFields
  <2> QED
    BY <2>1, ArchiveChange
<1>7. [a EXCEPT !.cards = f] \in OrderedBoards
  BY <1>2, <1>5, CardsChange
<1>8. [b EXCEPT !.archived = @ \ {i}, !.cards = f] = [a EXCEPT !.cards = f]
  BY <1>6 DEF OrderedBoards
<1> QED
  BY <1>1, <1>7, <1>8

LEMMA CardAdded ==
  ASSUME NEW b \in OrderedBoards, NEW i \in Cards, NEW c \in Columns, i \notin Present(b)
  PROVE  [b EXCEPT !.cards[c] = Append(@, i)] \in OrderedBoards
<1>1. \A d \in Columns : i \notin ToSet(b.cards[d])
  BY DEF Present
<1>2. PICK q \in Seq(Cards) : q = Append(b.cards[c], i)
  BY BoardFields, Appended
<1>3. IsInjective(q) /\ ToSet(q) = ToSet(b.cards[c]) \cup {i}
  BY <1>1, <1>2, BoardFields, Appended
<1>4. PICK f : f = [b.cards EXCEPT ![c] = q]
  OBVIOUS
<1>5. /\ f \in [Columns -> Seq(Cards)] /\ f[c] = q
      /\ \A d \in Columns : d # c => f[d] = b.cards[d]
  BY <1>4, BoardFields
<1>6. \A d, e \in Columns : d # e => ToSet(b.cards[d]) \cap ToSet(b.cards[e]) = {}
  BY BoardFields
<1>7. \A d \in Columns : IsInjective(f[d])
  BY <1>3, <1>5, BoardFields
<1>8. \A d, e \in Columns : d # e => ToSet(f[d]) \cap ToSet(f[e]) = {}
  <2>1. \A d \in Columns : ToSet(f[d]) \subseteq ToSet(b.cards[d]) \cup (IF d = c THEN {i} ELSE {})
    BY <1>3, <1>5
  <2> SUFFICES ASSUME NEW d \in Columns, NEW e \in Columns, d # e
               PROVE  ToSet(f[d]) \cap ToSet(f[e]) = {}
    OBVIOUS
  <2>2. i \notin ToSet(b.cards[d]) /\ i \notin ToSet(b.cards[e])
    BY <1>1
  <2>3. ToSet(b.cards[d]) \cap ToSet(b.cards[e]) = {}
    BY <1>6
  <2>4. d # c \/ e # c
    OBVIOUS
  <2> QED
    BY <2>1, <2>2, <2>3, <2>4
<1>9. [b EXCEPT !.cards = f] \in OrderedBoards
  BY <1>5, <1>7, <1>8, CardsChange
<1>10. [b EXCEPT !.cards[c] = Append(@, i)] = [b EXCEPT !.cards = f]
  BY <1>2, <1>4 DEF OrderedBoards
<1> QED
  BY <1>9, <1>10

LEMMA ColumnDropped ==
  ASSUME NEW b \in OrderedBoards, NEW c
  PROVE  [b EXCEPT !.cols = RemoveFirst(@, c)] \in OrderedBoards
<1>1. RemoveFirst(b.cols, c) \in Seq(Columns) /\ IsInjective(RemoveFirst(b.cols, c))
  BY BoardFields, FirstRemoved
<1> QED
  BY <1>1, ColumnsChange

LEMMA ColumnAdded ==
  ASSUME NEW b \in OrderedBoards, NEW c \in Columns, c \notin ToSet(b.cols)
  PROVE  [b EXCEPT !.cols = Append(@, c)] \in OrderedBoards
<1>1. Append(b.cols, c) \in Seq(Columns) /\ IsInjective(Append(b.cols, c))
  BY BoardFields, Appended
<1> QED
  BY <1>1, ColumnsChange

-----------------------------------------------------------------------------
(* What is drawn                                                            *)

LEMMA ViewFields ==
  ASSUME NEW a \in OrderViews
  PROVE  /\ a.board \in OrderedBoards /\ a.selCol \in Nat /\ a.selCard \in Nat
         /\ a.filter \in Filters
         /\ a.moving # Nil => a.moving \in MovedColumns
         /\ a.reordering # Nil => a.reordering \in MovedCards
BY DEF OrderViews

LEMMA ColumnsShown ==
  ASSUME NEW a \in OrderViews
  PROVE  ShownColumns(a) \in Seq(Columns)
<1>1. CASE a.moving = Nil
  BY <1>1, ViewFields, BoardFields DEF ShownColumns, Staged
<1>2. CASE a.moving # Nil
  <2>1. a.moving.staged \in Nat
    BY <1>2, ViewFields DEF MovedColumns
  <2>2. Rotated(a.board.cols, a.moving.row, a.moving.staged) \in Seq(Columns)
    BY <2>1, ViewFields, BoardFields, RotatedKeeps
  <2> QED
    BY <1>2, <2>2 DEF ShownColumns, Staged
<1> QED
  BY <1>1, <1>2

LEMMA CardsShown ==
  ASSUME NEW a \in OrderViews, NEW c \in Columns
  PROVE  cards_of(a, c) \in Seq(Cards)
<1>1. PICK kept \in Seq(Cards) : kept = Kept(a.board.cards[c], Passing(a, c))
  BY ViewFields, BoardFields, KeptElements
<1>2. CASE a.reordering # Nil /\ a.reordering.column = c
  <2>1. a.reordering.staged \in Nat
    BY <1>2, ViewFields DEF MovedCards
  <2>2. Rotated(kept, a.reordering.row, a.reordering.staged) \in Seq(Cards)
    BY <2>1, RotatedKeeps
  <2> QED
    BY <1>1, <1>2, <2>2 DEF cards_of, Staged
<1>3. CASE ~(a.reordering # Nil /\ a.reordering.column = c)
  BY <1>1, <1>3 DEF cards_of
<1> QED
  BY <1>2, <1>3

LEMMA ColumnAt ==
  ASSUME NEW a \in OrderViews, NEW k \in Nat, col_id_at(a, k) # Nil
  PROVE  col_id_at(a, k) \in Columns
<1>1. k < Len(ShownColumns(a)) /\ col_id_at(a, k) = ShownColumns(a)[k + 1]
  BY DEF col_id_at
<1>2. Len(ShownColumns(a)) \in Nat /\ \A j \in 1 .. Len(ShownColumns(a)) : ShownColumns(a)[j] \in Columns
  BY ColumnsShown, ElementsOf
<1>3. k + 1 \in 1 .. Len(ShownColumns(a))
  BY <1>1, <1>2
<1> QED
  BY <1>1, <1>2, <1>3

LEMMA SelectionShown ==
  ASSUME NEW a \in OrderViews
  PROVE  SelectedCards(a) \in Seq(Cards) /\ Len(SelectedCards(a)) \in Nat
<1>1. CASE col_id_at(a, a.selCol) = Nil
  <2>1. << >> \in Seq(Cards) /\ SelectedCards(a) = << >>
    BY <1>1 DEF SelectedCards
  <2> QED
    BY <2>1, ElementsOf
<1>2. CASE col_id_at(a, a.selCol) # Nil
  <2>1. PICK c \in Columns : c = col_id_at(a, a.selCol)
    BY <1>2, ViewFields, ColumnAt
  <2>2. SelectedCards(a) = cards_of(a, c)
    BY <1>2, <2>1 DEF SelectedCards
  <2> QED
    BY <2>2, CardsShown, ElementsOf
<1> QED
  BY <1>1, <1>2

LEMMA CardSelected ==
  ASSUME NEW a \in OrderViews, selected_card(a) # Nil
  PROVE  selected_card(a) \in Cards
<1>1. a.selCard < Len(SelectedCards(a)) /\ selected_card(a) = SelectedCards(a)[a.selCard + 1]
  BY DEF selected_card
<1>2. a.selCard + 1 \in 1 .. Len(SelectedCards(a))
  BY <1>1, ViewFields, SelectionShown
<1> QED
  BY <1>1, <1>2, SelectionShown, ElementsOf

(* Where no mode is on, the card selected lies in a column of the snapshot. *)
LEMMA SelectedCardLies ==
  ASSUME NEW a \in OrderViews, a.reordering = Nil, selected_card(a) # Nil
  PROVE  Lies(a.board, selected_card(a)) \in Columns
<1>1. PICK i : i = selected_card(a)
  OBVIOUS
<1>2. a.selCard < Len(SelectedCards(a)) /\ i = SelectedCards(a)[a.selCard + 1]
  BY <1>1 DEF selected_card
<1>3. a.selCard + 1 \in 1 .. Len(SelectedCards(a))
  BY <1>2, ViewFields, SelectionShown
<1>4. i \in ToSet(SelectedCards(a))
  <2>1. ToSet(SelectedCards(a)) = {SelectedCards(a)[k] : k \in 1 .. Len(SelectedCards(a))}
    BY SelectionShown, ElementsOf
  <2> QED
    BY <1>2, <1>3, <2>1
<1>5. col_id_at(a, a.selCol) # Nil
  <2>1. ASSUME col_id_at(a, a.selCol) = Nil PROVE FALSE
    <3>1. SelectedCards(a) = << >>
      BY <2>1 DEF SelectedCards
    <3>2. Len(<< >>) = 0
      OBVIOUS
    <3> QED
      BY <1>3, <3>1, <3>2
  <2> QED
    BY <2>1
<1>6. PICK c \in Columns : c = col_id_at(a, a.selCol)
  BY <1>5, ViewFields, ColumnAt
<1>7. SelectedCards(a) = Kept(a.board.cards[c], Passing(a, c))
  BY <1>5, <1>6 DEF SelectedCards, cards_of
<1>8. i \in ToSet(a.board.cards[c])
  <2>1. ToSet(Kept(a.board.cards[c], Passing(a, c))) \subseteq ToSet(a.board.cards[c])
    BY ViewFields, BoardFields, KeptElements
  <2> QED
    BY <1>4, <1>7, <2>1
<1> QED
  BY <1>1, <1>8 DEF Lies

-----------------------------------------------------------------------------
(* The state stays in shape                                                 *)

(* The selection is brought back onto what is drawn.                        *)
LEMMA CardClamped ==
  ASSUME NEW a \in OrderViews
  PROVE  \E k \in Nat : clamp_card(a) = [a EXCEPT !.selCard = k]
<1>1. PICK n \in Nat : n = Pred(Len(SelectedCards(a)))
  BY SelectionShown DEF Pred
<1>2. Least(a.selCard, n) \in Nat
  BY ViewFields DEF Least
<1> QED
  BY <1>1, <1>2 DEF clamp_card

LEMMA SelectionClamped ==
  ASSUME NEW a \in OrderViews
  PROVE  \E j, k \in Nat : clamp_selection(a) = [a EXCEPT !.selCol = j, !.selCard = k]
<1>1. Len(a.board.cols) \in Nat
  BY ViewFields, BoardFields, ElementsOf
<1>2. PICK j \in Nat : j = Least(a.selCol, Pred(Len(a.board.cols)))
  BY <1>1, ViewFields DEF Least, Pred
<1>3. PICK b \in OrderViews : b = [a EXCEPT !.selCol = j]
  BY DEF OrderViews
<1>4. PICK k \in Nat : clamp_card(b) = [b EXCEPT !.selCard = k]
  BY CardClamped
<1>5. clamp_selection(a) = clamp_card(b)
  BY <1>2, <1>3 DEF clamp_selection
<1>6. [b EXCEPT !.selCard = k] = [a EXCEPT !.selCol = j, !.selCard = k]
  BY <1>3 DEF OrderViews
<1> QED
  BY <1>4, <1>5, <1>6

(* A view whose mode has what it moves.                                     *)
SoundView(a) ==
  /\ a \in OrderViews
  /\ a.screen = "moveColumn" <=> a.moving # Nil
  /\ a.screen = "reorder" <=> a.reordering # Nil

LEMMA SelectionKeeps ==
  ASSUME NEW a, SoundView(a), NEW j \in Nat, NEW k \in Nat
  PROVE  SoundView([a EXCEPT !.selCol = j, !.selCard = k])
BY DEF SoundView, OrderViews

LEMMA ColumnKeeps ==
  ASSUME NEW a, SoundView(a), NEW j \in Nat
  PROVE  SoundView([a EXCEPT !.selCol = j])
BY DEF SoundView, OrderViews

LEMMA CardKeeps ==
  ASSUME NEW a, SoundView(a), NEW k \in Nat
  PROVE  SoundView([a EXCEPT !.selCard = k])
BY DEF SoundView, OrderViews

LEMMA SnapshotKeeps ==
  ASSUME NEW a, SoundView(a), NEW b \in OrderedBoards
  PROVE  SoundView([a EXCEPT !.board = b])
BY DEF SoundView, OrderViews

LEMMA ClampKeeps ==
  ASSUME NEW a, SoundView(a)
  PROVE  SoundView(clamp_card(a)) /\ SoundView(clamp_selection(a))
<1>1. a \in OrderViews
  BY DEF SoundView
<1> QED
  <2>1. PICK i \in Nat : clamp_card(a) = [a EXCEPT !.selCard = i]
    BY <1>1, CardClamped
  <2>2. PICK j, k \in Nat : clamp_selection(a) = [a EXCEPT !.selCol = j, !.selCard = k]
    BY <1>1, SelectionClamped
  <2>3. SoundView([a EXCEPT !.selCard = i])
    BY CardKeeps
  <2>4. SoundView([a EXCEPT !.selCol = j, !.selCard = k])
    BY SelectionKeeps
  <2> QED
    BY <2>1, <2>2, <2>3, <2>4

(* Leaving a mode.                                                          *)
LEMMA LeavingKeeps ==
  ASSUME NEW a, SoundView(a)
  PROVE  /\ a.screen = "moveColumn" => SoundView([a EXCEPT !.screen = "board", !.moving = Nil])
         /\ a.screen = "reorder" => SoundView([a EXCEPT !.screen = "board", !.reordering = Nil])
BY DEF SoundView, OrderViews

LEMMA KeysKeep ==
  ASSUME OrderTypeOK, NEW a, SoundView(a), Keys(a)
  PROVE  OrderTypeOK'
BY DEF OrderTypeOK, SoundView, Keys

LEMMA CallKeeps ==
  ASSUME OrderTypeOK, NEW a, SoundView(a), NEW possible, NEW new \in OrderedBoards,
         Call(a, possible, new)
  PROVE  OrderTypeOK'
<1>1. SoundView(clamp_selection([a EXCEPT !.board = new]))
  BY SnapshotKeeps, ClampKeeps
<1>2. SoundView(app') /\ served' \in OrderedBoards
  BY <1>1 DEF Call, OrderTypeOK
<1> QED
  BY <1>2 DEF OrderTypeOK, SoundView

LEMMA ElsewhereKeeps ==
  ASSUME OrderTypeOK, NEW new \in OrderedBoards, Elsewhere(new)
  PROVE  OrderTypeOK'
BY DEF OrderTypeOK, Elsewhere

LEMMA OrderParts ==
  ASSUME OrderTypeOK
  PROVE  /\ served \in OrderedBoards /\ SoundView(app) /\ app \in OrderViews
         /\ app.board \in OrderedBoards /\ app.selCol \in Nat /\ app.selCard \in Nat
BY ViewFields DEF OrderTypeOK, SoundView

LEMMA PlacesAreNaturals ==
  /\ Bottom \in Nat /\ CardPlaces \subseteq Nat /\ ColumnPlaces \subseteq Nat
<1>1. Cardinality(Columns) \in Nat /\ Cardinality(Cards) \in Nat
  BY BoardIsFinite, FS_CardinalityType
<1> QED
  BY <1>1 DEF Bottom, CardPlaces, ColumnPlaces

LEMMA WrappedPlace ==
  ASSUME NEW k \in Nat, NEW d \in {0, 2}, NEW n \in Nat, n > 0
  PROVE  Wrapped(k, d, n) \in Nat
<1>1. k + n + d - 1 \in Nat
  OBVIOUS
<1>2. \A x \in Nat : x % n \in Nat
  OBVIOUS
<1> QED
  BY <1>1, <1>2 DEF Wrapped

LEMMA RefetchKeeps ==
  ASSUME OrderTypeOK, refetch
  PROVE  OrderTypeOK'
<1>1. SoundView(clamp_selection([app EXCEPT !.board = served]))
  BY OrderParts, SnapshotKeeps, ClampKeeps
<1> QED
  BY <1>1 DEF OrderTypeOK, SoundView, refetch

LEMMA MovingTheSelectionKeeps ==
  ASSUME OrderTypeOK, NEW d \in {0, 2}
  PROVE  /\ move_col(d) => OrderTypeOK'
         /\ move_card(d) => OrderTypeOK'
<1>1. ASSUME move_col(d) PROVE OrderTypeOK'
  <2>1. PICK n \in Nat : n = Len(app.board.cols)
    BY OrderParts, BoardFields, ElementsOf
  <2>2. Wrapped(app.selCol, d, n) \in Nat
    BY <1>1, <2>1, OrderParts, WrappedPlace DEF move_col
  <2>3. SoundView(clamp_card([app EXCEPT !.selCol = Wrapped(app.selCol, d, n)]))
    BY <2>2, OrderParts, ColumnKeeps, ClampKeeps
  <2>4. Keys(clamp_card([app EXCEPT !.selCol = Wrapped(app.selCol, d, n)]))
    BY <1>1, <2>1 DEF move_col
  <2> QED
    BY <2>3, <2>4, KeysKeep
<1>2. ASSUME move_card(d) PROVE OrderTypeOK'
  <2>1. PICK n \in Nat : n = Len(SelectedCards(app))
    BY OrderParts, SelectionShown
  <2>2. Wrapped(app.selCard, d, n) \in Nat
    BY <1>2, <2>1, OrderParts, WrappedPlace DEF move_card
  <2>3. SoundView([app EXCEPT !.selCard = Wrapped(app.selCard, d, n)])
    BY <2>2, OrderParts, CardKeeps
  <2>4. Keys([app EXCEPT !.selCard = Wrapped(app.selCard, d, n)])
    BY <1>2, <2>1 DEF move_card
  <2> QED
    BY <2>3, <2>4, KeysKeep
<1> QED
  BY <1>1, <1>2

LEMMA FilterKeeps ==
  ASSUME OrderTypeOK, NEW f \in Filters, set_card_filter(f)
  PROVE  OrderTypeOK'
<1>1. SoundView([app EXCEPT !.filter = f, !.selCard = 0])
  BY OrderParts DEF SoundView, OrderViews
<1> QED
  BY <1>1, ClampKeeps, KeysKeep DEF set_card_filter

LEMMA ShoveKeeps ==
  ASSUME OrderTypeOK, NEW d \in {0, 2}, shove_card(d)
  PROVE  OrderTypeOK'
<1>1. PICK n \in Nat : n = Len(app.board.cols)
  BY OrderParts, BoardFields, ElementsOf
<1>2. PICK k \in Nat : k = Wrapped(app.selCol, d, n)
  BY <1>1, OrderParts, WrappedPlace DEF shove_card
<1>3. PICK i \in Cards : i = selected_card(app)
  BY OrderParts, CardSelected DEF shove_card
<1>4. PICK c \in Columns : c = col_id_at(app, k)
  BY <1>1, <1>2, OrderParts, ColumnAt DEF shove_card
<1>5. card_move(served, i, c, Bottom) \in OrderedBoards
  BY OrderParts, PlacesAreNaturals, CardMoved
<1>6. SoundView([app EXCEPT !.selCol = k, !.selCard = 0])
  BY OrderParts, SelectionKeeps
<1>7. Call([app EXCEPT !.selCol = k, !.selCard = 0], MayMove(served, i, c),
           card_move(served, i, c, Bottom))
  BY <1>1, <1>2, <1>3, <1>4 DEF shove_card
<1> QED
  BY <1>5, <1>6, <1>7, CallKeeps

LEMMA ArchiveKeeps ==
  ASSUME OrderTypeOK, archive_selected_card
  PROVE  OrderTypeOK'
<1>1. PICK i \in Archivable : i = selected_card(app)
  BY DEF archive_selected_card
<1>2. PICK new : new = [served EXCEPT !.archived = IF i \in app.board.archived THEN @ \ {i}
                                                   ELSE @ \cup {i}]
  OBVIOUS
<1>3. new \in OrderedBoards
  BY <1>2, OrderParts, BoardFields, ArchiveChange
<1>4. Call(app, i \in Present(served), new)
  BY <1>1, <1>2 DEF archive_selected_card
<1> QED
  BY <1>3, <1>4, OrderParts, CallKeeps

LEMMA MoveColumnModeKeeps ==
  ASSUME OrderTypeOK
  PROVE  /\ open_move_column_mode => OrderTypeOK'
         /\ \A d \in {0, 2} : shift_column(d) => OrderTypeOK'
         /\ commit_column => OrderTypeOK'
         /\ cancel_column => OrderTypeOK'
<1>1. ASSUME open_move_column_mode PROVE OrderTypeOK'
  <2>1. PICK c \in Columns : c = col_id_at(app, app.selCol)
    BY <1>1, OrderParts, ColumnAt DEF open_move_column_mode
  <2>2. PICK s \in MovedColumns : s = [row |-> c, original |-> app.selCol, staged |-> app.selCol]
    BY OrderParts DEF MovedColumns
  <2>3. SoundView([app EXCEPT !.screen = "moveColumn", !.moving = s])
    BY <1>1, <2>2, OrderParts, NothingMoves DEF open_move_column_mode, OnBoard, SoundView, OrderViews
  <2>4. Keys([app EXCEPT !.screen = "moveColumn", !.moving = s])
    BY <1>1, <2>1, <2>2 DEF open_move_column_mode
  <2> QED
    BY <2>3, <2>4, KeysKeep
<1>2. ASSUME NEW d \in {0, 2}, shift_column(d) PROVE OrderTypeOK'
  <2>1. app.moving \in MovedColumns
    BY <1>2, OrderParts, ViewFields DEF shift_column, SoundView
  <2>2. PICK j \in Nat : j = (app.moving.staged + d) - 1
    BY <1>2, <2>1 DEF shift_column, MovedColumns
  <2>3. PICK s \in MovedColumns : s = [app.moving EXCEPT !.staged = j]
    BY <2>1 DEF MovedColumns
  <2>4. SoundView([app EXCEPT !.moving = s, !.selCol = j])
    BY <1>2, OrderParts, NothingMoves DEF shift_column, SoundView, OrderViews
  <2>5. Keys([app EXCEPT !.moving = s, !.selCol = j])
    <3>1. Keys([app EXCEPT !.moving.staged = (app.moving.staged + d) - 1,
                           !.selCol = (app.moving.staged + d) - 1])
      BY <1>2 DEF shift_column
    <3>2. [app EXCEPT !.moving.staged = (app.moving.staged + d) - 1,
                      !.selCol = (app.moving.staged + d) - 1]
            = [app EXCEPT !.moving = s, !.selCol = j]
      BY <2>2, <2>3
    <3> QED
      BY <3>1, <3>2
  <2> QED
    BY <2>4, <2>5, KeysKeep
<1>3. ASSUME commit_column PROVE OrderTypeOK'
  <2>1. app.moving \in MovedColumns
    BY <1>3, OrderParts, ViewFields DEF commit_column, SoundView
  <2>2. column_reorder(served, app.moving.row, app.moving.staged) \in OrderedBoards
    BY <2>1, OrderParts, ColumnReordered DEF MovedColumns
  <2>3. SoundView([app EXCEPT !.screen = "board", !.moving = Nil])
    BY <1>3, OrderParts, LeavingKeeps DEF commit_column
  <2> QED
    BY <1>3, <2>2, <2>3, CallKeeps DEF commit_column
<1>4. ASSUME cancel_column PROVE OrderTypeOK'
  <2>1. app.moving \in MovedColumns
    BY <1>4, OrderParts, ViewFields DEF cancel_column, SoundView
  <2>2. Len(app.board.cols) \in Nat
    BY OrderParts, BoardFields, ElementsOf
  <2>3. PICK j \in Nat : j = Least(app.moving.original, Pred(Len(app.board.cols)))
    BY <2>1, <2>2 DEF MovedColumns, Least, Pred
  <2>4. PICK a : a = [app EXCEPT !.screen = "board", !.moving = Nil] /\ SoundView(a)
    BY <1>4, OrderParts, LeavingKeeps DEF cancel_column
  <2>5. SoundView([a EXCEPT !.selCol = j])
    BY <2>4, ColumnKeeps
  <2>6. [app EXCEPT !.screen = "board", !.moving = Nil, !.selCol = j] = [a EXCEPT !.selCol = j]
    BY <2>4
  <2> QED
    BY <1>4, <2>3, <2>5, <2>6, KeysKeep DEF cancel_column
<1> QED
  BY <1>1, <1>2, <1>3, <1>4

LEMMA ReorderModeKeeps ==
  ASSUME OrderTypeOK
  PROVE  /\ open_reorder_card_mode => OrderTypeOK'
         /\ \A d \in {0, 2} : shift_card(d) => OrderTypeOK'
         /\ commit_card => OrderTypeOK'
         /\ cancel_card => OrderTypeOK'
<1>1. ASSUME open_reorder_card_mode PROVE OrderTypeOK'
  <2>1. PICK i \in Cards : i = selected_card(app)
    BY <1>1, OrderParts, CardSelected DEF open_reorder_card_mode
  <2>2. PICK c \in Columns : c = Lies(app.board, i)
    BY <1>1, <2>1, OrderParts, SelectedCardLies DEF open_reorder_card_mode, OnBoard, SoundView
  <2>3. PICK s \in MovedCards : s = [row |-> i, column |-> c, original |-> app.selCard,
                                     staged |-> app.selCard]
    BY OrderParts DEF MovedCards
  <2>4. SoundView([app EXCEPT !.screen = "reorder", !.reordering = s])
    BY <1>1, OrderParts, NothingMoves DEF open_reorder_card_mode, OnBoard, SoundView, OrderViews
  <2>5. Keys([app EXCEPT !.screen = "reorder", !.reordering = s])
    BY <1>1, <2>1, <2>2, <2>3 DEF open_reorder_card_mode
  <2> QED
    BY <2>4, <2>5, KeysKeep
<1>2. ASSUME NEW d \in {0, 2}, shift_card(d) PROVE OrderTypeOK'
  <2>1. app.reordering \in MovedCards
    BY <1>2, OrderParts, ViewFields DEF shift_card, SoundView
  <2>2. PICK j \in Nat : j = (app.reordering.staged + d) - 1
    BY <1>2, <2>1 DEF shift_card, MovedCards
  <2>3. PICK s \in MovedCards : s = [app.reordering EXCEPT !.staged = j]
    BY <2>1 DEF MovedCards
  <2>4. SoundView([app EXCEPT !.reordering = s, !.selCard = j])
    BY <1>2, OrderParts, NothingMoves DEF shift_card, SoundView, OrderViews
  <2>5. Keys([app EXCEPT !.reordering = s, !.selCard = j])
    <3>1. Keys([app EXCEPT !.reordering.staged = (app.reordering.staged + d) - 1,
                           !.selCard = (app.reordering.staged + d) - 1])
      BY <1>2 DEF shift_card
    <3>2. [app EXCEPT !.reordering.staged = (app.reordering.staged + d) - 1,
                      !.selCard = (app.reordering.staged + d) - 1]
            = [app EXCEPT !.reordering = s, !.selCard = j]
      BY <2>2, <2>3
    <3> QED
      BY <3>1, <3>2
  <2> QED
    BY <2>4, <2>5, KeysKeep
<1>3. ASSUME commit_card PROVE OrderTypeOK'
  <2>1. app.reordering \in MovedCards
    BY <1>3, OrderParts, ViewFields DEF commit_card, SoundView
  <2>2. PICK s \in MovedCards : s = app.reordering
    BY <2>1
  <2>3. PICK a : a = [app EXCEPT !.screen = "board", !.reordering = Nil] /\ SoundView(a)
    BY <1>3, OrderParts, LeavingKeeps DEF commit_card
  <2>4. SoundView([a EXCEPT !.selCard = s.staged])
    BY <2>3, CardKeeps DEF MovedCards
  <2>5. card_move(served, s.row, s.column, s.staged) \in OrderedBoards
    BY OrderParts, CardMoved DEF MovedCards
  <2>6. \/ Keys(a)
        \/ Call([a EXCEPT !.selCard = s.staged], MayMove(served, s.row, s.column),
                card_move(served, s.row, s.column, s.staged))
    BY <1>3, <2>2, <2>3 DEF commit_card
  <2> QED
    BY <2>3, <2>4, <2>5, <2>6, CallKeeps, KeysKeep
<1>4. ASSUME cancel_card PROVE OrderTypeOK'
  <2>1. app.reordering \in MovedCards
    BY <1>4, OrderParts, ViewFields DEF cancel_card, SoundView
  <2>2. PICK a : a = [app EXCEPT !.screen = "board", !.reordering = Nil] /\ SoundView(a)
    BY <1>4, OrderParts, LeavingKeeps DEF cancel_card
  <2>3. Len(SelectedCards(a)) \in Nat
    BY <2>2, SelectionShown DEF SoundView
  <2>4. PICK k \in Nat : k = Least(app.reordering.original, Pred(Len(SelectedCards(a))))
    BY <2>1, <2>3 DEF MovedCards, Least, Pred
  <2>5. SoundView([a EXCEPT !.selCard = k])
    BY <2>2, CardKeeps
  <2>6. Keys([a EXCEPT !.selCard = k])
    BY <1>4, <2>2, <2>4 DEF cancel_card
  <2> QED
    BY <2>5, <2>6, KeysKeep
<1> QED
  BY <1>1, <1>2, <1>3, <1>4

LEMMA DragKeeps ==
  ASSUME OrderTypeOK, NEW from \in Nat, NEW to \in Nat
  PROVE  /\ drag_column(from, to) => OrderTypeOK'
         /\ \A k, at \in Nat : drag_card(from, k, to, at) => OrderTypeOK'
<1>1. ASSUME drag_column(from, to) PROVE OrderTypeOK'
  <2>1. SoundView(clamp_card([app EXCEPT !.selCol = from]))
    BY OrderParts, ColumnKeeps, ClampKeeps
  <2>2. column_reorder(served, col_id_at(app, from), to) \in OrderedBoards
    BY OrderParts, ColumnReordered
  <2>3. Call(clamp_card([app EXCEPT !.selCol = from]), col_id_at(app, from) \in ToSet(served.cols),
             column_reorder(served, col_id_at(app, from), to))
    BY <1>1 DEF drag_column
  <2> QED
    BY <2>1, <2>2, <2>3, CallKeeps
<1>2. ASSUME NEW k \in Nat, NEW at \in Nat, drag_card(from, k, to, at) PROVE OrderTypeOK'
  <2>1. PICK c \in Columns : c = col_id_at(app, from)
    BY <1>2, OrderParts, ColumnAt DEF drag_card
  <2>2. PICK d \in Columns : d = col_id_at(app, to)
    BY <1>2, OrderParts, ColumnAt DEF drag_card
  <2>3. PICK i \in Cards : i = cards_of(app, c)[k + 1]
    <3>1. k < Len(cards_of(app, c))
      BY <1>2, <2>1 DEF drag_card
    <3>2. /\ Len(cards_of(app, c)) \in Nat
          /\ \A j \in 1 .. Len(cards_of(app, c)) : cards_of(app, c)[j] \in Cards
      BY OrderParts, CardsShown, ElementsOf
    <3> QED
      BY <3>1, <3>2
  <2>4. PICK p \in Nat : p = IF to = from THEN at ELSE Bottom
    BY PlacesAreNaturals
  <2>5. SoundView([app EXCEPT !.selCol = from, !.selCard = k])
    BY OrderParts, SelectionKeeps
  <2>6. card_move(served, i, d, p) \in OrderedBoards
    BY OrderParts, CardMoved
  <2>7. Call([app EXCEPT !.selCol = from, !.selCard = k], MayMove(served, i, d),
             card_move(served, i, d, p))
    BY <1>2, <2>1, <2>2, <2>3, <2>4 DEF drag_card
  <2> QED
    BY <2>5, <2>6, <2>7, CallKeeps
<1> QED
  BY <1>1, <1>2

LEMMA OthersKeepCards ==
  ASSUME OrderTypeOK, NEW i \in Cards
  PROVE  /\ \A c \in Columns, at \in Nat : OtherMoves(i, c, at) => OrderTypeOK'
         /\ \A c \in Columns : OtherAdds(i, c) => OrderTypeOK'
         /\ OtherDeletes(i) => OrderTypeOK'
<1>1. ASSUME NEW c \in Columns, NEW at \in Nat, OtherMoves(i, c, at) PROVE OrderTypeOK'
  <2>1. card_move(served, i, c, at) \in OrderedBoards
    BY OrderParts, CardMoved
  <2> QED
    BY <1>1, <2>1, ElsewhereKeeps DEF OtherMoves
<1>2. ASSUME NEW c \in Columns, OtherAdds(i, c) PROVE OrderTypeOK'
  <2>1. PICK new : new = [served EXCEPT !.cards[c] = Append(@, i)]
    OBVIOUS
  <2>2. new \in OrderedBoards
    BY <1>2, <2>1, OrderParts, CardAdded DEF OtherAdds
  <2>3. Elsewhere(new)
    BY <1>2, <2>1 DEF OtherAdds
  <2> QED
    BY <2>2, <2>3, ElsewhereKeeps
<1>3. ASSUME OtherDeletes(i) PROVE OrderTypeOK'
  <2>1. PICK new : new = [served EXCEPT !.archived = @ \ {i},
                            !.cards = [c \in Columns |-> RemoveFirst(served.cards[c], i)]]
    OBVIOUS
  <2>2. new \in OrderedBoards
    BY <2>1, OrderParts, CardDeleted
  <2>3. Elsewhere(new)
    BY <1>3, <2>1 DEF OtherDeletes
  <2> QED
    BY <2>2, <2>3, ElsewhereKeeps
<1> QED
  BY <1>1, <1>2, <1>3

LEMMA OtherArchivesKeep ==
  ASSUME OrderTypeOK, NEW i \in Archivable, OtherArchives(i)
  PROVE  OrderTypeOK'
<1>1. PICK S \in SUBSET Archivable : S = served.archived \cup {i}
  BY OrderParts, BoardFields
<1>2. PICK R \in SUBSET Archivable : R = served.archived \ {i}
  BY OrderParts, BoardFields
<1>3. [served EXCEPT !.archived = S] \in OrderedBoards /\ [served EXCEPT !.archived = R] \in OrderedBoards
  BY OrderParts, ArchiveChange
<1>4. Elsewhere([served EXCEPT !.archived = S]) \/ Elsewhere([served EXCEPT !.archived = R])
  BY <1>1, <1>2 DEF OtherArchives
<1> QED
  BY <1>3, <1>4, ElsewhereKeeps

LEMMA OthersKeepColumns ==
  ASSUME OrderTypeOK, NEW c \in Columns
  PROVE  /\ \A at \in Nat : OtherReorders(c, at) => OrderTypeOK'
         /\ OtherDeletesColumn(c) => OrderTypeOK'
         /\ OtherAddsColumn(c) => OrderTypeOK'
<1>1. ASSUME NEW at \in Nat, OtherReorders(c, at) PROVE OrderTypeOK'
  <2>1. column_reorder(served, c, at) \in OrderedBoards
    BY OrderParts, ColumnReordered
  <2> QED
    BY <1>1, <2>1, ElsewhereKeeps DEF OtherReorders
<1>2. ASSUME OtherDeletesColumn(c) PROVE OrderTypeOK'
  <2>1. PICK new : new = [served EXCEPT !.cols = RemoveFirst(@, c)]
    OBVIOUS
  <2>2. new \in OrderedBoards
    BY <2>1, OrderParts, ColumnDropped
  <2>3. Elsewhere(new)
    BY <1>2, <2>1 DEF OtherDeletesColumn
  <2> QED
    BY <2>2, <2>3, ElsewhereKeeps
<1>3. ASSUME OtherAddsColumn(c) PROVE OrderTypeOK'
  <2>1. PICK new : new = [served EXCEPT !.cols = Append(@, c)]
    OBVIOUS
  <2>2. new \in OrderedBoards
    BY <1>3, <2>1, OrderParts, ColumnAdded DEF OtherAddsColumn
  <2>3. Elsewhere(new)
    BY <1>3, <2>1 DEF OtherAddsColumn
  <2> QED
    BY <2>2, <2>3, ElsewhereKeeps
<1> QED
  BY <1>1, <1>2, <1>3

LEMMA SetsAreListed ==
  ASSUME NEW S, IsFiniteSet(S)
  PROVE  SetToSeq(S) \in Seq(S) /\ IsInjective(SetToSeq(S))
<1>1. PICK n \in Nat : n = Cardinality(S)
  BY FS_CardinalityType
<1>2. ExistsBijection(1 .. n, S)
  BY <1>1, FS_CardinalityType
<1>3. \E f \in [1 .. n -> S] : IsInjective(f)
  BY <1>2 DEF ExistsBijection, Bijection, Injection
<1>4. SetToSeq(S) \in [1 .. n -> S] /\ IsInjective(SetToSeq(S))
  BY <1>1, <1>3 DEF SetToSeq
<1> QED
  BY <1>4

LEMMA OrderStarts == OrderInit => OrderTypeOK
<1> SUFFICES ASSUME OrderInit PROVE OrderTypeOK
  OBVIOUS
<1>1. PICK cs \in Seq(Columns) : cs = SetToSeq(Columns) /\ IsInjective(cs)
  BY SetsAreListed, BoardIsFinite
<1>2. PICK is \in Seq(Cards) : is = SetToSeq(Cards) /\ IsInjective(is)
  BY SetsAreListed, BoardIsFinite
<1>3. PICK f : f = [c \in Columns |-> IF c = cs[1] THEN is ELSE << >>]
  OBVIOUS
<1>4. PICK ar \in SUBSET Archivable : served = [cols |-> cs, cards |-> f, archived |-> ar]
  BY <1>1, <1>2, <1>3 DEF OrderInit
<1>5. << >> \in Seq(Cards) /\ IsInjective(<< >>) /\ ToSet(<< >>) = {}
  BY DEF IsInjective, ToSet
<1>6. f \in [Columns -> Seq(Cards)] /\ \A c \in Columns : IsInjective(f[c])
  BY <1>2, <1>3, <1>5
<1>7. \A c, d \in Columns : c # d => ToSet(f[c]) \cap ToSet(f[d]) = {}
  BY <1>3, <1>5
<1>8. served \in OrderedBoards
  BY <1>1, <1>4, <1>6, <1>7 DEF OrderedBoards
<1>9. app \in OrderViews /\ app.screen = "board" /\ app.moving = Nil /\ app.reordering = Nil
  BY <1>8 DEF OrderInit, OrderViews, Filters
<1> QED
  BY <1>8, <1>9 DEF OrderTypeOK

LEMMA OrderStaysInShape == OrderTypeOK /\ [OrderNext]_orderVars => OrderTypeOK'
<1> SUFFICES ASSUME OrderTypeOK, [OrderNext]_orderVars PROVE OrderTypeOK'
  OBVIOUS
<1>1. CASE refetch
  BY <1>1, RefetchKeeps
<1>2. CASE \E d \in {0, 2} : \/ move_col(d) \/ move_card(d) \/ shove_card(d)
                             \/ shift_column(d) \/ shift_card(d)
  BY <1>2, MovingTheSelectionKeeps, ShoveKeeps, MoveColumnModeKeeps, ReorderModeKeeps
<1>3. CASE \E f \in Filters : set_card_filter(f)
  BY <1>3, FilterKeeps
<1>4. CASE archive_selected_card
  BY <1>4, ArchiveKeeps
<1>5. CASE open_move_column_mode \/ commit_column \/ cancel_column
  BY <1>5, MoveColumnModeKeeps
<1>6. CASE open_reorder_card_mode \/ commit_card \/ cancel_card
  BY <1>6, ReorderModeKeeps
<1>7. CASE \E from, to \in ColumnPlaces :
             \/ drag_column(from, to)
             \/ \E k, at \in CardPlaces : drag_card(from, k, to, at)
  BY <1>7, PlacesAreNaturals, DragKeeps
<1>8. CASE \E i \in Cards, c \in Columns :
             \/ \E at \in CardPlaces : OtherMoves(i, c, at)
             \/ OtherAdds(i, c)
  BY <1>8, PlacesAreNaturals, OthersKeepCards
<1>9. CASE \E i \in Cards : OtherDeletes(i)
  BY <1>9, OthersKeepCards
<1>10. CASE \E i \in Archivable : OtherArchives(i)
  BY <1>10, OtherArchivesKeep
<1>11. CASE \E c \in Columns : \/ \E at \in ColumnPlaces : OtherReorders(c, at)
                               \/ OtherDeletesColumn(c) \/ OtherAddsColumn(c)
  BY <1>11, PlacesAreNaturals, OthersKeepColumns
<1>12. CASE UNCHANGED orderVars
  BY <1>12 DEF orderVars, OrderTypeOK
<1> QED
  BY <1>1, <1>2, <1>3, <1>4, <1>5, <1>6, <1>7, <1>8, <1>9, <1>10, <1>11, <1>12 DEF OrderNext

(* A card lies in one column at one place, a column stands at one place,    *)
(* and a mode has what it moves: move_column.rs, reorder_card.rs.           *)
THEOREM OrderTypeCorrect == OrderSpec => []OrderTypeOK
<1>1. OrderInit => OrderTypeOK
  BY OrderStarts
<1>2. OrderTypeOK /\ [OrderNext]_orderVars => OrderTypeOK'
  BY OrderStaysInShape
<1> QED
  BY <1>1, <1>2, PTL DEF OrderSpec

-----------------------------------------------------------------------------
(* What a mode shows before Enter                                           *)

(* A call of which the snapshot shows the answer was served and refetched.  *)
LEMMA ServedAndRefetched ==
  ASSUME NEW a, NEW possible, NEW new, Call(a, possible, new),
         a.board = served, app'.board = served', served' # served
  PROVE  served' = new /\ app' = clamp_selection([a EXCEPT !.board = new])
BY DEF Call

LEMMA ColumnCommitted ==
  ASSUME OrderTypeOK, commit_column, app.board = served, app'.board = served', served' # served
  PROVE  Drawn(app') = Drawn(app)
<1>1. SoundView(app) /\ app \in OrderViews /\ served \in OrderedBoards
  BY OrderParts
<1>2. app.moving \in MovedColumns /\ app.moving # Nil /\ app.reordering = Nil
  BY <1>1, ViewFields DEF commit_column, SoundView
<1>3. PICK a : a = [app EXCEPT !.screen = "board", !.moving = Nil] /\ SoundView(a)
  BY <1>1, LeavingKeeps DEF commit_column
<1>4. PICK new \in OrderedBoards : new = column_reorder(served, app.moving.row, app.moving.staged)
  BY <1>1, <1>2, ColumnReordered DEF MovedColumns
<1>5. a.board = served /\ a.moving = Nil /\ a.reordering = Nil /\ a.filter = app.filter
  BY <1>1, <1>2, <1>3 DEF OrderViews
<1>6. served' = new /\ app' = clamp_selection([a EXCEPT !.board = new])
  BY <1>3, <1>4, <1>5, ServedAndRefetched DEF commit_column
<1>7. PICK b : b = [a EXCEPT !.board = new] /\ b \in OrderViews
  BY <1>3, SnapshotKeeps DEF SoundView
<1>8. PICK j, k \in Nat : clamp_selection(b) = [b EXCEPT !.selCol = j, !.selCard = k]
  BY <1>7, SelectionClamped
<1>9. /\ app'.board = new /\ app'.moving = Nil /\ app'.reordering = Nil
      /\ app'.filter = app.filter
  <2>1. a \in OrderViews
    BY <1>3 DEF SoundView
  <2> QED
    BY <1>5, <1>6, <1>7, <1>8, <2>1 DEF OrderViews
<1>10. /\ new.cols = Rotated(served.cols, app.moving.row, app.moving.staged)
       /\ new.cards = served.cards /\ new.archived = served.archived
  BY <1>1, <1>4 DEF column_reorder, OrderedBoards
<1>11. ShownColumns(app') = ShownColumns(app)
  BY <1>2, <1>9, <1>10 DEF ShownColumns, Staged
<1>12. ASSUME NEW c \in Columns PROVE cards_of(app', c) = cards_of(app, c)
  <2>1. Passing(app', c) = Passing(app, c)
    BY <1>9, <1>10 DEF Passing
  <2> QED
    BY <1>2, <1>9, <1>10, <2>1 DEF cards_of
<1> QED
  BY <1>11, <1>12 DEF Drawn

LEMMA CardCommitted ==
  ASSUME OrderTypeOK, commit_card, app.board = served, app'.board = served', served' # served,
         Unhidden(app.reordering)
  PROVE  Drawn(app') = Drawn(app)
<1>1. SoundView(app) /\ app \in OrderViews /\ served \in OrderedBoards
  BY OrderParts
<1>2. app.reordering \in MovedCards /\ app.reordering # Nil /\ app.moving = Nil
  BY <1>1, ViewFields DEF commit_card, SoundView
<1>3. PICK i \in Cards, x \in Columns, to \in Nat :
        i = app.reordering.row /\ x = app.reordering.column /\ to = app.reordering.staged
  BY <1>2 DEF MovedCards
<1>4. PICK a : /\ a = [app EXCEPT !.screen = "board", !.reordering = Nil, !.selCard = to]
               /\ SoundView(a)
  <2>1. PICK l : l = [app EXCEPT !.screen = "board", !.reordering = Nil] /\ SoundView(l)
    BY <1>1, LeavingKeeps DEF commit_card
  <2>2. SoundView([l EXCEPT !.selCard = to])
    BY <2>1, CardKeeps
  <2>3. [l EXCEPT !.selCard = to] = [app EXCEPT !.screen = "board", !.reordering = Nil, !.selCard = to]
    BY <2>1
  <2> QED
    BY <2>2, <2>3
<1>5. PICK new \in OrderedBoards : new = card_move(served, i, x, to)
  BY <1>1, CardMoved
<1>6. a.board = served /\ a.moving = Nil /\ a.reordering = Nil /\ a.filter = app.filter
  BY <1>1, <1>2, <1>4 DEF OrderViews
<1>7. served' = new /\ app' = clamp_selection([a EXCEPT !.board = new])
  <2>1. Call(a, MayMove(served, i, x), new)
    BY <1>3, <1>4, <1>5 DEF commit_card, Keys
  <2> QED
    BY <1>6, <2>1, ServedAndRefetched
<1>8. PICK b : b = [a EXCEPT !.board = new] /\ b \in OrderViews
  BY <1>4, SnapshotKeeps DEF SoundView
<1>9. PICK j, k \in Nat : clamp_selection(b) = [b EXCEPT !.selCol = j, !.selCard = k]
  BY <1>8, SelectionClamped
<1>10. /\ app'.board = new /\ app'.moving = Nil /\ app'.reordering = Nil
       /\ app'.filter = app.filter
  <2>1. a \in OrderViews
    BY <1>4 DEF SoundView
  <2> QED
    BY <1>6, <1>7, <1>8, <1>9, <2>1 DEF OrderViews
<1>11. /\ new.cols = served.cols /\ new.archived = served.archived
       /\ \A c \in Columns : new.cards[c] =
            LET rest == RemoveFirst(served.cards[c], i)
            IN IF c = x THEN InsertAt(rest, 1 + Least(to, Len(rest)), i) ELSE rest
  BY <1>1, <1>5 DEF card_move, OrderedBoards
<1>12. ShownColumns(app') = ShownColumns(app)
  BY <1>2, <1>10, <1>11 DEF ShownColumns, Staged
<1>13. /\ i \in ToSet(served.cards[x])
       /\ Len(cards_of(app, x)) = Len(served.cards[x])
  BY <1>3 DEF Unhidden
<1>14. ASSUME NEW c \in Columns, c # x PROVE cards_of(app', c) = cards_of(app, c)
  <2>1. i \notin ToSet(served.cards[c])
    BY <1>1, <1>13, <1>14, BoardFields
  <2>2. new.cards[c] = served.cards[c]
    BY <1>1, <1>11, <1>14, <2>1, BoardFields, FirstRemoved
  <2>3. Passing(app', c) = Passing(app, c)
    BY <1>10, <1>11, <2>2 DEF Passing
  <2> QED
    BY <1>3, <1>10, <1>14, <2>2, <2>3 DEF cards_of
<1>15. cards_of(app', x) = cards_of(app, x)
  <2>1. PICK s \in Seq(Cards) : s = served.cards[x] /\ IsInjective(s)
    BY <1>1, BoardFields
  <2>2. PICK P : P = Passing(app, x)
    OBVIOUS
  <2>3. PICK kept \in Seq(Cards) : kept = Kept(s, P)
    BY KeptElements
  <2>4. cards_of(app, x) = Rotated(kept, i, to)
    BY <1>2, <1>3, <2>1, <2>2, <2>3 DEF cards_of, Staged
  <2>5. Len(kept) = Len(s)
    BY <1>13, <2>1, <2>4, RotatedKeeps
  <2>6. ToSet(s) \subseteq P /\ kept = s
    BY <2>3, <2>5, KeptElements
  <2>7. PICK q \in Seq(Cards) : q = Rotated(s, i, to) /\ ToSet(q) = ToSet(s)
    BY <2>1, RotatedKeeps
  <2>8. new.cards[x] = q
    BY <1>11, <1>13, <2>1, <2>7 DEF Rotated
  <2>9. Passing(app', x) = P
    BY <1>10, <1>11, <2>1, <2>2, <2>7, <2>8 DEF Passing
  <2>10. cards_of(app', x) = Kept(q, P)
    BY <1>10, <2>8, <2>9 DEF cards_of
  <2>11. Kept(q, P) = q
    BY <2>6, <2>7, KeptElements
  <2> QED
    BY <2>4, <2>6, <2>7, <2>10, <2>11
<1> QED
  BY <1>12, <1>14, <1>15 DEF Drawn

(* Nothing else leaves a mode and shows a board that has changed.           *)
LEMMA OnlyCommitsChange ==
  ASSUME OrderTypeOK, [OrderNext]_orderVars,
         app.screen # "board", app'.screen = "board", served' # served
  PROVE  commit_column \/ commit_card
<1>1. ~OnBoard
  BY DEF OnBoard
<1>2. app' # app /\ ~UNCHANGED orderVars
  BY DEF orderVars
<1>3. ~refetch
  BY DEF refetch
<1>4. \A a : ~Keys(a)
  BY DEF Keys
<1>5. \A new : ~Elsewhere(new)
  BY <1>2 DEF Elsewhere
<1>6. ASSUME NEW d \in {0, 2}
      PROVE  ~(move_col(d) \/ move_card(d) \/ shove_card(d) \/ shift_column(d) \/ shift_card(d))
  BY <1>1, <1>4 DEF move_col, move_card, shove_card, shift_column, shift_card
<1>7. \A f \in Filters : ~set_card_filter(f)
  BY <1>1 DEF set_card_filter
<1>8. /\ ~archive_selected_card /\ ~open_move_column_mode /\ ~cancel_column
      /\ ~open_reorder_card_mode /\ ~cancel_card
  BY <1>1, <1>4 DEF archive_selected_card, open_move_column_mode, cancel_column,
     open_reorder_card_mode, cancel_card
<1>9. \A from, to \in ColumnPlaces :
        ~drag_column(from, to) /\ \A k, at \in CardPlaces : ~drag_card(from, k, to, at)
  BY <1>1 DEF drag_column, drag_card
<1>10. \A i \in Cards, c \in Columns :
         ~OtherAdds(i, c) /\ \A at \in CardPlaces : ~OtherMoves(i, c, at)
  BY <1>5 DEF OtherAdds, OtherMoves
<1>11. /\ \A i \in Cards : ~OtherDeletes(i)
       /\ \A i \in Archivable : ~OtherArchives(i)
  BY <1>5 DEF OtherDeletes, OtherArchives
<1>12. \A c \in Columns : /\ \A at \in ColumnPlaces : ~OtherReorders(c, at)
                          /\ ~OtherDeletesColumn(c) /\ ~OtherAddsColumn(c)
  BY <1>5 DEF OtherReorders, OtherDeletesColumn, OtherAddsColumn
<1> QED
  BY <1>2, <1>3, <1>6, <1>7, <1>8, <1>9, <1>10, <1>11, <1>12 DEF OrderNext

(* What the mode that moves a column or a card shows before Enter is what   *)
(* the board shows after it, when the call is served and nothing else has   *)
(* changed or is hidden: move_column.rs and reorder_card.rs.                *)
THEOREM CommitShowsWhatWasStaged == OrderSpec => CommitKeepsOrder
<1> DEFINE Committed == /\ app.screen # "board" /\ app'.screen = "board"
                        /\ app.board = served /\ app'.board = served' /\ served' # served
                        /\ app.reordering # Nil => Unhidden(app.reordering)
<1>1. ASSUME OrderTypeOK, [OrderNext]_orderVars, Committed
      PROVE  Drawn(app') = Drawn(app)
  <2>1. CASE commit_column
    BY <1>1, <2>1, ColumnCommitted
  <2>2. CASE commit_card
    <3>1. app.reordering # Nil
      BY <1>1, <2>2 DEF commit_card, OrderTypeOK
    <3> QED
      BY <1>1, <2>2, <3>1, CardCommitted
  <2> QED
    BY <1>1, <2>1, <2>2, OnlyCommitsChange
<1>2. OrderTypeOK /\ [OrderNext]_orderVars => [Committed => Drawn(app') = Drawn(app)]_orderVars
  BY <1>1
<1>3. OrderSpec => []OrderTypeOK
  BY OrderTypeCorrect
<1>4. OrderSpec => [][OrderNext]_orderVars
  BY PTL DEF OrderSpec
<1> QED
  BY <1>2, <1>3, <1>4, PTL DEF CommitKeepsOrder

-----------------------------------------------------------------------------
LEMMA KeptHolds ==
  ASSUME NEW T, NEW s \in Seq(T), NEW S, NEW x \in ToSet(s), x \in S
  PROVE  x \in ToSet(Kept(s, S))
<1> DEFINE at == {k \in DOMAIN s : s[k] \in S}
           m == Cardinality(at)
           Pick(j) == CHOOSE k \in at : Cardinality(Upto(at, k)) = j
<1>1. DOMAIN s = 1 .. Len(s) /\ Len(s) \in Nat /\ ToSet(s) = {s[k] : k \in 1 .. Len(s)}
  BY ElementsOf
<1>2. at \in SUBSET Nat /\ at \subseteq 1 .. Len(s)
  BY <1>1
<1>3. IsFiniteSet(at) /\ m \in Nat
  BY <1>1, <1>2, UpToN, FS_Subset, FS_CardinalityType
<1>4. PICK k \in at : s[k] = x
  BY <1>1
<1>5. Kept(s, S) = [j \in 1 .. m |-> s[Pick(j)]]
  BY DEF Kept, Upto
<1> HIDE DEF at
<1>6. PICK j \in 1 .. m : j = Cardinality(Upto(at, k))
  BY <1>2, <1>3, RanksCover
<1>7. Pick(j) \in at /\ Cardinality(Upto(at, Pick(j))) = j
  BY <1>6
<1>8. Pick(j) = k
  BY <1>2, <1>3, <1>6, <1>7, RanksCover
<1> HIDE DEF Pick, m
<1>9. Kept(s, S)[j] = x /\ j \in DOMAIN Kept(s, S)
  BY <1>4, <1>5, <1>8
<1> QED
  BY <1>9 DEF ToSet

-----------------------------------------------------------------------------
(* The forms                                                                *)

LEMMA FirstOrRest ==
  ASSUME NEW a, NEW T, NEW s \in Seq(T)
  PROVE  \A x : x = a \/ x \in ToSet(s) => x \in ToSet(<<a>> \o s)
<1>1. PICK n \in Nat : n = Len(s)
  BY ElementsOf
<1>2. DOMAIN s = 1 .. n /\ ToSet(s) = {s[k] : k \in 1 .. n} /\ ToSet(s) \subseteq T
  BY <1>1, ElementsOf
<1>3. PICK q : q = <<a>> \o s
  OBVIOUS
<1>4. q \in Seq(T \cup {a}) /\ Len(q) = n + 1 /\ q[1] = a /\ \A k \in 1 .. n : q[k + 1] = s[k]
  <2>1. <<a>> \in Seq(T \cup {a}) /\ s \in Seq(T \cup {a}) /\ Len(<<a>>) = 1 /\ <<a>>[1] = a
    BY <1>1, <1>2
  <2>2. q \in Seq(T \cup {a}) /\ Len(q) = n + 1
    BY <1>1, <1>3, <2>1, ConcatProperties
  <2>3. \A i \in 1 .. n + 1 : q[i] = IF i <= 1 THEN <<a>>[i] ELSE s[i - 1]
    BY <1>1, <1>3, <2>1, ConcatProperties
  <2>4. \A k \in 1 .. n : k + 1 \in 1 .. n + 1 /\ ~(k + 1 <= 1) /\ (k + 1) - 1 = k
    OBVIOUS
  <2>5. 1 \in 1 .. n + 1 /\ 1 <= 1
    OBVIOUS
  <2> QED
    BY <2>1, <2>2, <2>3, <2>4, <2>5
<1>5. ToSet(q) = {q[k] : k \in 1 .. n + 1}
  <2>1. ToSet(q) = {q[k] : k \in 1 .. Len(q)}
    BY <1>4, ElementsOf
  <2> QED
    BY <1>4, <2>1
<1>6. 1 \in 1 .. n + 1 /\ \A k \in 1 .. n : k + 1 \in 1 .. n + 1
  OBVIOUS
<1> QED
  BY <1>2, <1>3, <1>4, <1>5, <1>6

LEMMA SelectedStays ==
  ASSUME NEW opts, NEW x \in ToSet(opts)
  PROVE  SelectedOr(x, opts) = x
BY DEF SelectedOr

LEMMA EffortsBounded ==
  ASSUME NEW caps, WellFormed(caps), NEW model
  PROVE  efforts_for(caps, model) \subseteq caps.efforts /\ efforts_for(caps, Unset) = caps.efforts
<1>1. \A m \in ToSet(caps.models) : m.id # Unset /\ m.efforts \subseteq caps.efforts
  BY DEF WellFormed
<1>2. {m \in ToSet(caps.models) : m.id = Unset} = {}
  BY <1>1
<1> QED
  BY <1>1, <1>2 DEF efforts_for

(* What a form may have fetched of the harness that is stored, and what     *)
(* stands in for it: each offers the settings that every answer accepts.    *)
LEMMA SettingsOffered ==
  ASSUME NEW s, Droppable(s) = {}, NEW caps,
         caps \in Served[s.of.harness] \cup {Default[s.of.harness]}
  PROVE  /\ s.of.harness \in ToSet(Builtin) /\ WellFormed(caps)
         /\ s.of.effort # Unset => s.of.effort \in caps.efforts
         /\ s.of.permission # Unset => s.of.permission \in ToSet(caps.modes)
         /\ caps \in Served[s.of.harness] =>
              /\ s.of.model # Unset => caps.free \/ Offered(caps, s.of.model)
              /\ s.of.effort # Unset => s.of.effort \in efforts_for(caps, s.of.model)
<1> DEFINE h == s.of.harness
<1>1. h \in ToSet(Builtin) /\ \A c \in Served[h] : validate_settings_values(s.of, c)
  <2>1. "model" \in {"model", "effort", "permission"}
    OBVIOUS
  <2> QED
    BY <2>1 DEF Droppable
<1>2. /\ Served[h] # {} /\ WellFormed(Default[h])
      /\ \A c \in Served[h] : /\ WellFormed(c) /\ c.efforts \subseteq Default[h].efforts
                              /\ ToSet(c.modes) \subseteq ToSet(Default[h].modes)
  BY <1>1, HarnessCatalogs
<1>3. \A c \in Served[h] : /\ s.of.effort # Unset => s.of.effort \in efforts_for(c, s.of.model)
                           /\ s.of.permission # Unset => s.of.permission \in ToSet(c.modes)
                           /\ s.of.model # Unset => c.free \/ Offered(c, s.of.model)
  BY <1>1 DEF validate_settings_values
<1>4. \A c \in Served[h] : s.of.effort # Unset => s.of.effort \in c.efforts
  BY <1>2, <1>3, EffortsBounded
<1> HIDE DEF h
<1>5. PICK c \in Served[h] : TRUE
  BY <1>2
<1>6. CASE caps \in Served[h]
  BY <1>1, <1>2, <1>3, <1>4, <1>6 DEF h
<1>7. CASE caps = Default[h] /\ caps \notin Served[h]
  BY <1>1, <1>2, <1>3, <1>4, <1>5, <1>7 DEF h
<1> QED
  BY <1>6, <1>7 DEF h

LEMMA OrderOfEfforts == EffortOrder \in Seq(Nat) /\ ToSet(EffortOrder) = 1 .. 7
<1>1. EffortOrder \in Seq(Nat)
  BY DEF EffortOrder
<1>2. DOMAIN EffortOrder = 1 .. 7 /\ \A k \in 1 .. 7 : EffortOrder[k] = k
  BY DEF EffortOrder
<1> QED
  BY <1>1, <1>2 DEF ToSet

LEMMA EffortStays ==
  ASSUME NEW s, Droppable(s) = {}, NEW f,
         f.v.harness = s.of.harness, f.v.model = s.of.model,
         f.caps \in {Unset} \cup Served[s.of.harness]
  PROVE  s.of.effort \in ToSet(effort_choice_opts(f, f.v))
<1> DEFINE h == s.of.harness
           e == s.of.effort
<1>1. h \in ToSet(Builtin) /\ h # Unset
  BY SettingsOffered, HarnessCatalogs DEF Droppable
<1>2. PICK picked \in {Unset, s.of.model} :
        /\ effort_choice_opts(f, f.v) = <<Unset>> \o Kept(EffortOrder, efforts_for(effective_caps(f, h), picked))
        /\ f.caps = Unset => picked = Unset
  BY <1>1 DEF effort_choice_opts
<1>3. PICK caps \in Served[h] \cup {Default[h]} :
        /\ caps = effective_caps(f, h)
        /\ picked # Unset => caps \in Served[h]
  BY <1>1, <1>2 DEF effective_caps, default_capabilities
<1>4. /\ WellFormed(caps) /\ e # Unset => e \in caps.efforts
      /\ picked # Unset /\ e # Unset => e \in efforts_for(caps, picked)
  BY <1>2, <1>3, SettingsOffered
<1>5. e # Unset => e \in efforts_for(caps, picked) /\ e \in 1 .. 7
  BY <1>3, <1>4, SettingsOffered, EffortsBounded DEF WellFormed
<1>6. Kept(EffortOrder, efforts_for(caps, picked)) \in Seq(Nat)
  BY OrderOfEfforts, KeptElements
<1>7. e # Unset => e \in ToSet(Kept(EffortOrder, efforts_for(caps, picked)))
  BY <1>5, OrderOfEfforts, KeptHolds
<1> QED
  BY <1>2, <1>3, <1>6, <1>7, FirstOrRest

LEMMA PermissionStays ==
  ASSUME NEW s, Droppable(s) = {}, NEW f,
         f.v.harness = s.of.harness, f.caps \in {Unset} \cup Served[s.of.harness],
         f.kind # "card" => s.of.permission # "bypassPermissions"
  PROVE  /\ s.of.permission \in ToSet(permission_choice_opts(f, f.v))
         /\ s.of.permission # Unset => effective_caps(f, s.of.harness).modes # << >>
<1> DEFINE h == s.of.harness
           p == s.of.permission
<1>1. h \in ToSet(Builtin) /\ h # Unset
  BY SettingsOffered, HarnessCatalogs DEF Droppable
<1>2. PICK caps \in Served[h] \cup {Default[h]} : caps = effective_caps(f, h)
  BY <1>1 DEF effective_caps, default_capabilities
<1>3. WellFormed(caps) /\ (p # Unset => p \in ToSet(caps.modes))
  BY <1>2, SettingsOffered
<1>4. PICK modes \in Seq(STRING) : modes = caps.modes
  BY <1>3 DEF WellFormed
<1>5. PICK part \in Seq(STRING) :
        /\ permission_choice_opts(f, f.v) = <<Unset>> \o part
        /\ p # Unset => p \in ToSet(part)
  <2>1. CASE f.kind = "card"
    BY <1>1, <1>2, <1>3, <1>4, <2>1 DEF permission_choice_opts
  <2>2. CASE f.kind # "card"
    <3>1. PICK S : S = {m \in ToSet(modes) : validate_column_permission_override(m)}
      OBVIOUS
    <3>2. p # Unset => p \in S /\ p \in ToSet(modes)
      BY <1>3, <1>4, <2>2, <3>1 DEF validate_column_permission_override
    <3>3. Kept(modes, S) \in Seq(STRING) /\ (p # Unset => p \in ToSet(Kept(modes, S)))
      BY <3>2, KeptElements, KeptHolds
    <3>4. permission_choice_opts(f, f.v) = <<Unset>> \o Kept(modes, S)
      BY <1>1, <1>2, <1>4, <2>2, <3>1 DEF permission_choice_opts
    <3> QED
      BY <3>3, <3>4
  <2> QED
    BY <2>1, <2>2
<1>6. p \in ToSet(permission_choice_opts(f, f.v))
  BY <1>5, FirstOrRest
<1>7. ToSet(<< >>) = {}
  BY DEF ToSet
<1> QED
  BY <1>2, <1>3, <1>6, <1>7

(* What a build leaves alone.                                               *)
LEMMA BuiltCard ==
  ASSUME NEW f, DOMAIN f = {"kind", "v", "caps", "harnesses", "spaces", "sessions"},
         DOMAIN f.v = CardFields \cup {"custom", "typed"}
  PROVE  LET g == build_card_fields(f)
             ref == card_space_ref(f.v)
         IN /\ DOMAIN g = DOMAIN f /\ g.kind = f.kind /\ g.caps = f.caps
            /\ DOMAIN g.v = DOMAIN f.v
            /\ \A x \in {"harness", "session", "kind", "cwd"} : g.v[x] = f.v[x]
            /\ g.v.model = f.v.model \/ (/\ f.caps # Unset /\ ~use_custom(f, f.v)
                                         /\ ~Offered(f.caps, f.v.model) /\ g.v.model = Unset)
            /\ g.v.effort = SelectedOr(f.v.effort, effort_choice_opts(f, f.v))
            /\ g.v.permission = SelectedOr(f.v.permission, permission_choice_opts(f, f.v))
            /\ g.v.typed \in {ref, Unset}
            /\ ref \notin {Unset, Custom} => card_space_ref(g.v) = ref
BY DEF build_card_fields, card_space_ref, CardFields, ColumnFields

(* A build keeps what no key has changed.                                   *)
LEMMA CardBuilt ==
  ASSUME NEW s, ValidStored(s), NEW f, NEW t, FormOK(s, f, t), f.kind = "card"
  PROVE  FormOK(s, build_card_fields(f), t)
<1>1. PICK g : g = build_card_fields(f)
  OBVIOUS
<1>2. PICK ref : ref = card_space_ref(f.v)
  OBVIOUS
<1>3. /\ DOMAIN f = {"kind", "v", "caps", "harnesses", "spaces", "sessions"}
      /\ f.kind = s.kind /\ Untouched(s, f, t) /\ UntouchedPlace(s, f, t)
      /\ DOMAIN f.v = CardFields \cup {"custom", "typed"}
      /\ f.v.kind \in {"workspace", "new_workspace"} /\ f.v.typed # Custom
  BY DEF FormOK
<1>4. /\ DOMAIN g = DOMAIN f /\ g.kind = f.kind /\ g.caps = f.caps /\ DOMAIN g.v = DOMAIN f.v
      /\ \A x \in {"harness", "session", "kind", "cwd"} : g.v[x] = f.v[x]
      /\ g.v.model = f.v.model \/ (/\ f.caps # Unset /\ ~use_custom(f, f.v)
                                   /\ ~Offered(f.caps, f.v.model) /\ g.v.model = Unset)
      /\ g.v.effort = SelectedOr(f.v.effort, effort_choice_opts(f, f.v))
      /\ g.v.permission = SelectedOr(f.v.permission, permission_choice_opts(f, f.v))
      /\ g.v.typed \in {ref, Unset}
      /\ ref \notin {Unset, Custom} => card_space_ref(g.v) = ref
  BY <1>1, <1>2, <1>3, BuiltCard
<1>5. /\ g.v.harness = f.v.harness /\ g.v.session = f.v.session
      /\ g.v.kind = f.v.kind /\ g.v.cwd = f.v.cwd
  BY <1>4
<1>6. ref # Custom /\ Unset # Custom /\ ValidCard(s.of)
  BY <1>2, <1>3, StoredIsValid DEF card_space_ref, ValidStored
<1>7. Untouched(s, g, t)
  <2>1. "harness" \notin t => /\ g.v.harness = s.of.harness
                              /\ s.of.harness \in ToSet(Builtin) => g.caps \in {Unset} \cup Served[s.of.harness]
    BY <1>3, <1>4, <1>5 DEF Untouched
  <2>2. SUFFICES ASSUME Droppable(s) = {}
                 PROVE  /\ t \cap {"harness", "model"} = {} => g.v.model = s.of.model
                        /\ t \cap {"harness", "model", "effort"} = {} => g.v.effort = s.of.effort
                        /\ t \cap {"harness", "permission"} = {} => g.v.permission = s.of.permission
    BY <2>1 DEF Untouched
  <2>3. s.of.harness \in ToSet(Builtin)
    BY <2>2, SettingsOffered
  <2>4. ASSUME "harness" \notin t
        PROVE  f.v.harness = s.of.harness /\ f.caps \in {Unset} \cup Served[s.of.harness]
    BY <1>3, <2>3, <2>4 DEF Untouched
  <2>5. ASSUME t \cap {"harness", "model"} = {}
        PROVE  f.v.model = s.of.model /\ g.v.model = s.of.model
    <3>1. f.v.model = s.of.model /\ "harness" \notin t
      BY <1>3, <2>2, <2>5 DEF Untouched
    <3>2. CASE g.v.model # f.v.model
      <4>1. f.caps \in Served[s.of.harness] /\ g.v.model = Unset /\ ~Offered(f.caps, s.of.model)
        BY <1>4, <2>4, <3>1, <3>2
      <4>2. ~f.caps.free \/ s.of.model = Unset
        BY <1>4, <3>1, <3>2, <4>1 DEF use_custom
      <4>3. s.of.model = Unset
        BY <2>2, <4>1, <4>2, SettingsOffered
      <4> QED
        BY <3>1, <4>1, <4>3
    <3> QED
      BY <3>1, <3>2
  <2>6. ASSUME t \cap {"harness", "model", "effort"} = {}
        PROVE  g.v.effort = s.of.effort
    <3>1. f.v.effort = s.of.effort /\ "harness" \notin t /\ t \cap {"harness", "model"} = {}
      BY <1>3, <2>2, <2>6 DEF Untouched
    <3>2. s.of.effort \in ToSet(effort_choice_opts(f, f.v))
      BY <2>2, <2>4, <2>5, <3>1, EffortStays
    <3> QED
      BY <1>4, <3>1, <3>2, SelectedStays
  <2>7. ASSUME t \cap {"harness", "permission"} = {}
        PROVE  g.v.permission = s.of.permission
    <3>1. f.v.permission = s.of.permission /\ "harness" \notin t
      BY <1>3, <2>2, <2>7 DEF Untouched
    <3>2. s.of.permission \in ToSet(permission_choice_opts(f, f.v))
      BY <2>2, <2>4, <3>1, PermissionStays
    <3> QED
      BY <1>4, <3>1, <3>2, SelectedStays
  <2> QED
    BY <2>5, <2>6, <2>7
<1>8. UntouchedPlace(s, g, t)
  <2>1. "ref" \notin t /\ s.of.ref # Unset => card_space_ref(g.v) = s.of.ref
    BY <1>2, <1>3, <1>4, <1>6 DEF UntouchedPlace, ValidCard
  <2> QED
    BY <1>3, <1>5, <2>1 DEF UntouchedPlace
<1>9. g.v.typed # Custom
  BY <1>4, <1>6
<1> QED
  BY <1>1, <1>3, <1>4, <1>5, <1>7, <1>8, <1>9 DEF FormOK

LEMMA ColumnBuilt ==
  ASSUME NEW s, ValidStored(s), NEW f, NEW t, FormOK(s, f, t), f.kind = "column"
  PROVE  FormOK(s, column_fields_from_values(f), t)
<1>1. PICK g : g = column_fields_from_values(f)
  OBVIOUS
<1>2. /\ DOMAIN f = {"kind", "v", "caps", "harnesses", "spaces", "sessions"}
      /\ f.kind = s.kind /\ Untouched(s, f, t) /\ DOMAIN f.v = ColumnFields
  BY DEF FormOK
<1>3. /\ DOMAIN g = DOMAIN f /\ g.kind = f.kind /\ g.caps = f.caps /\ DOMAIN g.v = DOMAIN f.v
      /\ g.v.harness = f.v.harness /\ g.v.model = f.v.model
      /\ g.v.effort = SelectedOr(f.v.effort, effort_choice_opts(f, f.v))
      /\ g.v.permission = SelectedOr(f.v.permission, permission_choice_opts(f, f.v))
  <2>1. PICK e, m : /\ e = SelectedOr(f.v.effort, effort_choice_opts(f, f.v))
                    /\ m = SelectedOr(f.v.permission, permission_choice_opts(f, f.v))
    OBVIOUS
  <2>2. g = [f EXCEPT !.v.effort = e, !.v.permission = m]
    BY <1>1, <2>1, Zenon DEF column_fields_from_values
  <2> QED
    BY <1>2, <2>1, <2>2 DEF ColumnFields
<1>4. f.kind # "card" => s.of.permission # "bypassPermissions"
  BY <1>2 DEF ValidStored, ValidColumn
<1>5. Untouched(s, g, t)
  <2>1. "harness" \notin t => /\ g.v.harness = s.of.harness
                              /\ s.of.harness \in ToSet(Builtin) => g.caps \in {Unset} \cup Served[s.of.harness]
    BY <1>2, <1>3 DEF Untouched
  <2>2. SUFFICES ASSUME Droppable(s) = {}
                 PROVE  /\ t \cap {"harness", "model"} = {} => g.v.model = s.of.model
                        /\ t \cap {"harness", "model", "effort"} = {} => g.v.effort = s.of.effort
                        /\ t \cap {"harness", "permission"} = {} => g.v.permission = s.of.permission
    BY <2>1 DEF Untouched
  <2>3. s.of.harness \in ToSet(Builtin)
    BY <2>2, SettingsOffered
  <2>4. ASSUME "harness" \notin t
        PROVE  f.v.harness = s.of.harness /\ f.caps \in {Unset} \cup Served[s.of.harness]
    BY <1>2, <2>3, <2>4 DEF Untouched
  <2>5. t \cap {"harness", "model"} = {} => f.v.model = s.of.model /\ g.v.model = s.of.model
    BY <1>2, <1>3, <2>2 DEF Untouched
  <2>6. ASSUME t \cap {"harness", "model", "effort"} = {}
        PROVE  g.v.effort = s.of.effort
    <3>1. f.v.effort = s.of.effort /\ "harness" \notin t /\ t \cap {"harness", "model"} = {}
      BY <1>2, <2>2, <2>6 DEF Untouched
    <3>2. s.of.effort \in ToSet(effort_choice_opts(f, f.v))
      BY <2>2, <2>4, <2>5, <3>1, EffortStays
    <3> QED
      BY <1>3, <3>1, <3>2, SelectedStays
  <2>7. ASSUME t \cap {"harness", "permission"} = {}
        PROVE  g.v.permission = s.of.permission
    <3>1. f.v.permission = s.of.permission /\ "harness" \notin t
      BY <1>2, <2>2, <2>7 DEF Untouched
    <3>2. s.of.permission \in ToSet(permission_choice_opts(f, f.v))
      BY <1>4, <2>2, <2>4, <3>1, PermissionStays
    <3> QED
      BY <1>3, <3>1, <3>2, SelectedStays
  <2> QED
    BY <2>5, <2>6, <2>7
<1> QED
  BY <1>1, <1>2, <1>3, <1>5 DEF FormOK

LEMMA FieldsRebuilt ==
  ASSUME NEW s, ValidStored(s), NEW f, NEW t, FormOK(s, f, t)
  PROVE  FormOK(s, rebuild_fields(f), t)
<1>1. f.kind \in {"card", "column"}
  BY DEF FormOK, ValidStored
<1> QED
  BY <1>1, CardBuilt, ColumnBuilt DEF rebuild_fields

(* What is fetched is of the harness in the form: of the one that is stored *)
(* until a key changes it.                                                  *)
LEMMA OptionsLoaded ==
  ASSUME NEW s, ValidStored(s), NEW f, NEW t, FormOK(s, f, t), NEW g \in load_form_options(f)
  PROVE  FormOK(s, g, t)
<1>1. PICK h : h = current_harness(f)
  OBVIOUS
<1>2. PICK o : /\ o.caps \in {Unset} \cup (IF KnownHarness(h) THEN Served[h] ELSE {})
               /\ g = rebuild_fields([f EXCEPT !.caps = o.caps, !.harnesses = o.harnesses,
                                               !.spaces = o.spaces, !.sessions = o.sessions])
  BY <1>1 DEF load_form_options
<1>3. PICK p : p = [f EXCEPT !.caps = o.caps, !.harnesses = o.harnesses,
                            !.spaces = o.spaces, !.sessions = o.sessions]
  OBVIOUS
<1>4. /\ DOMAIN f = {"kind", "v", "caps", "harnesses", "spaces", "sessions"}
      /\ f.kind = s.kind /\ Untouched(s, f, t)
  BY DEF FormOK
<1>5. DOMAIN p = DOMAIN f /\ p.kind = f.kind /\ p.v = f.v /\ p.caps = o.caps
  BY <1>3, <1>4
<1>6. "harness" \notin t /\ s.of.harness \in ToSet(Builtin) => o.caps \in {Unset} \cup Served[s.of.harness]
  <2>1. SUFFICES ASSUME "harness" \notin t, s.of.harness \in ToSet(Builtin)
                 PROVE  h = s.of.harness /\ KnownHarness(h)
    BY <1>2, <2>1
  <2>2. f.v.harness = s.of.harness /\ s.of.harness # Unset
    BY <1>4, <2>1, HarnessCatalogs DEF Untouched
  <2> QED
    BY <1>1, <2>1, <2>2 DEF current_harness, KnownHarness
<1>7. Untouched(s, p, t)
  BY <1>4, <1>5, <1>6 DEF Untouched
<1>8. FormOK(s, p, t)
  BY <1>4, <1>5, <1>7 DEF FormOK, UntouchedPlace
<1> QED
  BY <1>2, <1>3, <1>8, FieldsRebuilt

(* What a key leaves alone when it changes one field.                       *)
LEMMA FieldChanged ==
  ASSUME NEW s, ValidStored(s), NEW f, NEW t, FormOK(s, f, t), NEW e,
         NEW x \in {"harness", "model", "effort", "permission", "session", "kind", "cwd"},
         f.kind = "column" => x \in ColumnFields,
         x = "kind" => e \in {"workspace", "new_workspace"}
  PROVE  FormOK(s, [f EXCEPT !.v[x] = e], t \cup {x})
<1>1. PICK g : g = [f EXCEPT !.v[x] = e]
  OBVIOUS
<1>2. /\ DOMAIN f = {"kind", "v", "caps", "harnesses", "spaces", "sessions"}
      /\ f.kind = s.kind /\ Untouched(s, f, t) /\ f.kind \in {"card", "column"}
  BY DEF FormOK, ValidStored
<1>3. /\ DOMAIN g = DOMAIN f /\ g.kind = f.kind /\ g.caps = f.caps
      /\ g.v = [f.v EXCEPT ![x] = e]
  BY <1>1, <1>2
<1>4. /\ DOMAIN g.v = DOMAIN f.v /\ ColumnFields \subseteq DOMAIN f.v
      /\ \A y \in DOMAIN f.v : y # x => g.v[y] = f.v[y]
  BY <1>2, <1>3 DEF FormOK, CardFields
<1>5. /\ x # "harness" => g.v.harness = f.v.harness
      /\ x # "model" => g.v.model = f.v.model
      /\ x # "effort" => g.v.effort = f.v.effort
      /\ x # "permission" => g.v.permission = f.v.permission
  BY <1>4 DEF ColumnFields
<1>6. Untouched(s, g, t \cup {x})
  <2>1. "harness" \notin t \cup {x} => "harness" \notin t /\ x # "harness"
    OBVIOUS
  <2>2. (t \cup {x}) \cap {"harness", "model"} = {} =>
          t \cap {"harness", "model"} = {} /\ x # "model"
    OBVIOUS
  <2>3. (t \cup {x}) \cap {"harness", "model", "effort"} = {} =>
          t \cap {"harness", "model", "effort"} = {} /\ x # "effort"
    OBVIOUS
  <2>4. (t \cup {x}) \cap {"harness", "permission"} = {} =>
          t \cap {"harness", "permission"} = {} /\ x # "permission"
    OBVIOUS
  <2> QED
    BY <1>2, <1>3, <1>5, <2>1, <2>2, <2>3, <2>4 DEF Untouched
<1>7. CASE f.kind = "card"
  <2>1. /\ DOMAIN f.v = CardFields \cup {"custom", "typed"} /\ UntouchedPlace(s, f, t)
        /\ f.v.kind \in {"workspace", "new_workspace"} /\ f.v.typed # Custom
    BY <1>7 DEF FormOK
  <2>2. /\ x # "session" => g.v.session = f.v.session
        /\ x # "kind" => g.v.kind = f.v.kind
        /\ x # "cwd" => g.v.cwd = f.v.cwd
        /\ g.v.ref = f.v.ref /\ g.v.typed = f.v.typed
    BY <1>4, <2>1 DEF CardFields
  <2>3. g.v.kind \in {"workspace", "new_workspace"}
    BY <1>3, <2>1, <2>2 DEF CardFields
  <2>4. UntouchedPlace(s, g, t \cup {x})
    BY <2>1, <2>2 DEF UntouchedPlace, card_space_ref
  <2> QED
    BY <1>1, <1>2, <1>3, <1>4, <1>6, <1>7, <2>1, <2>2, <2>3, <2>4 DEF FormOK
<1>8. CASE f.kind = "column"
  <2>1. DOMAIN g.v = ColumnFields
    BY <1>4, <1>8 DEF FormOK
  <2> QED
    BY <1>1, <1>2, <1>3, <1>6, <1>8, <2>1 DEF FormOK
<1> QED
  BY <1>2, <1>7, <1>8

LEMMA RefChanged ==
  ASSUME NEW s, NEW f, NEW t, FormOK(s, f, t), f.kind = "card", NEW e,
         NEW x \in {"ref", "typed"}, x = "typed" => e # Custom
  PROVE  FormOK(s, [f EXCEPT !.v[x] = e], t \cup {"ref"})
<1>1. PICK g : g = [f EXCEPT !.v[x] = e]
  OBVIOUS
<1>2. /\ DOMAIN f = {"kind", "v", "caps", "harnesses", "spaces", "sessions"}
      /\ f.kind = s.kind /\ Untouched(s, f, t)
      /\ DOMAIN f.v = CardFields \cup {"custom", "typed"} /\ UntouchedPlace(s, f, t)
      /\ f.v.kind \in {"workspace", "new_workspace"} /\ f.v.typed # Custom
  BY DEF FormOK
<1>3. /\ DOMAIN g = DOMAIN f /\ g.kind = f.kind /\ g.caps = f.caps
      /\ g.v = [f.v EXCEPT ![x] = e]
  BY <1>1, <1>2
<1>4. /\ DOMAIN g.v = DOMAIN f.v /\ g.v.typed # Custom
      /\ g.v.harness = f.v.harness /\ g.v.model = f.v.model /\ g.v.effort = f.v.effort
      /\ g.v.permission = f.v.permission /\ g.v.session = f.v.session
      /\ g.v.kind = f.v.kind /\ g.v.cwd = f.v.cwd
  BY <1>2, <1>3 DEF CardFields, ColumnFields
<1>5. /\ "harness" \notin t \cup {"ref"} => "harness" \notin t
      /\ "session" \notin t \cup {"ref"} => "session" \notin t
      /\ "kind" \notin t \cup {"ref"} => "kind" \notin t
      /\ "cwd" \notin t \cup {"ref"} => "cwd" \notin t
      /\ (t \cup {"ref"}) \cap {"harness", "model"} = {} => t \cap {"harness", "model"} = {}
      /\ (t \cup {"ref"}) \cap {"harness", "model", "effort"} = {} =>
           t \cap {"harness", "model", "effort"} = {}
      /\ (t \cup {"ref"}) \cap {"harness", "permission"} = {} => t \cap {"harness", "permission"} = {}
  OBVIOUS
<1>6. Untouched(s, g, t \cup {"ref"})
  BY <1>2, <1>3, <1>4, <1>5 DEF Untouched
<1>7. UntouchedPlace(s, g, t \cup {"ref"})
  BY <1>2, <1>4, <1>5 DEF UntouchedPlace
<1>8. "card" # "column"
  OBVIOUS
<1> QED
  BY <1>1, <1>2, <1>3, <1>4, <1>6, <1>7, <1>8 DEF FormOK

(* A form is opened on what is stored.                                      *)
LEMMA FormOpened ==
  ASSUME ValidStored(stored)
  PROVE  FormOK(stored, Opened, {})
<1>1. PICK o : o = stored.of
  OBVIOUS
<1>2. PICK v : v = IF stored.kind = "column" THEN o
                   ELSE [harness |-> o.harness, model |-> o.model, custom |-> FALSE, effort |-> o.effort,
                         permission |-> o.permission, session |-> o.session, kind |-> o.kind,
                         ref |-> o.ref, typed |-> Unset, cwd |-> o.cwd]
  OBVIOUS
<1>3. PICK f : f = [kind |-> stored.kind, v |-> v, caps |-> Unset, harnesses |-> Builtin,
                    spaces |-> << >>, sessions |-> << >>]
  OBVIOUS
<1>4. Opened = rebuild_fields(f)
  BY <1>1, <1>2, <1>3 DEF Opened
<1>5. /\ DOMAIN f = {"kind", "v", "caps", "harnesses", "spaces", "sessions"}
      /\ f.kind = stored.kind /\ f.v = v /\ f.caps = Unset
  BY <1>3
<1>6. /\ v.harness = o.harness /\ v.model = o.model /\ v.effort = o.effort
      /\ v.permission = o.permission
  BY <1>2
<1>7. Untouched(stored, f, {})
  BY <1>1, <1>5, <1>6 DEF Untouched
<1>8. CASE stored.kind = "card"
  <2>1. /\ o.kind \in {"workspace", "new_workspace"} /\ o.ref # Custom /\ Unset # Custom
    BY <1>1, <1>8, StoredIsValid DEF ValidStored, ValidCard
  <2>2. /\ DOMAIN v = CardFields \cup {"custom", "typed"} /\ v.session = o.session
        /\ v.kind = o.kind /\ v.cwd = o.cwd /\ v.ref = o.ref /\ v.typed = Unset
    BY <1>2, <1>8 DEF CardFields, ColumnFields
  <2>3. UntouchedPlace(stored, f, {})
    BY <1>1, <1>5, <2>1, <2>2 DEF UntouchedPlace, card_space_ref
  <2>4. FormOK(stored, f, {})
    BY <1>5, <1>7, <1>8, <2>1, <2>2, <2>3 DEF FormOK
  <2> QED
    BY <1>4, <2>4, FieldsRebuilt
<1>9. CASE stored.kind = "column"
  <2>1. DOMAIN v = ColumnFields
    BY <1>1, <1>2, <1>9 DEF ValidStored, ValidColumn
  <2>2. FormOK(stored, f, {})
    BY <1>5, <1>7, <1>9, <2>1 DEF FormOK
  <2> QED
    BY <1>4, <2>2, FieldsRebuilt
<1> QED
  BY <1>8, <1>9 DEF ValidStored

(* The keys that reload the options or build the fields again.              *)
LEMMA RebuildingKeys ==
  ASSUME FormInv, form # Unset, cycle_harness \/ cycle_session \/ cycle_model \/ cycle_space_kind
  PROVE  FormOK(stored, form', touched') /\ stored' = stored
<1>1. ValidStored(stored) /\ FormOK(stored, form, touched)
  BY DEF FormInv
<1>2. CASE cycle_harness
  <2>1. PICK h : form' \in load_form_options([form EXCEPT !.v["harness"] = h])
    BY <1>2 DEF cycle_harness
  <2>2. touched' = touched \cup {"harness"} /\ stored' = stored
    BY <1>2 DEF cycle_harness, Touch
  <2>3. FormOK(stored, [form EXCEPT !.v["harness"] = h], touched \cup {"harness"})
    BY <1>1, FieldChanged DEF ColumnFields
  <2> QED
    BY <1>1, <2>1, <2>2, <2>3, OptionsLoaded
<1>3. CASE cycle_session
  <2>1. PICK e : form' \in load_form_options([form EXCEPT !.v["session"] = e])
    BY <1>3 DEF cycle_session
  <2>2. touched' = touched \cup {"session"} /\ stored' = stored /\ form.kind = "card"
    BY <1>3 DEF cycle_session, Touch
  <2>3. FormOK(stored, [form EXCEPT !.v["session"] = e], touched \cup {"session"})
    BY <1>1, <2>2, FieldChanged
  <2> QED
    BY <1>1, <2>1, <2>2, <2>3, OptionsLoaded
<1>4. CASE cycle_model
  <2>1. PICK c, e : form' = build_card_fields([form EXCEPT !.v.custom = c, !.v.model = e])
    <3>1. PICK m : form' = build_card_fields([form EXCEPT !.v.custom = (m = Custom),
                                                         !.v.model = IF m = Custom THEN Unset ELSE m])
      BY <1>4 DEF cycle_model
    <3> QED
      BY <3>1, Zenon
  <2>2. touched' = touched \cup {"model"} /\ stored' = stored /\ form.kind = "card"
    BY <1>4 DEF cycle_model, Touch
  <2>3. PICK g : g = [form EXCEPT !.v["model"] = e]
    OBVIOUS
  <2>4. FormOK(stored, g, touched \cup {"model"}) /\ g.kind = "card"
    <3>1. FormOK(stored, g, touched \cup {"model"})
      BY <1>1, <2>2, <2>3, FieldChanged
    <3> QED
      BY <1>1, <2>2, <3>1 DEF FormOK
  <2>5. PICK k : k = [form EXCEPT !.v.custom = c, !.v.model = e]
    OBVIOUS
  <2>6. /\ DOMAIN k = DOMAIN g /\ k.kind = g.kind /\ k.caps = g.caps /\ DOMAIN k.v = DOMAIN g.v
        /\ \A x \in DOMAIN g.v : x # "custom" => k.v[x] = g.v[x]
    BY <1>1, <2>2, <2>3, <2>5 DEF FormOK, CardFields, ColumnFields
  <2>7. /\ k.v.harness = g.v.harness /\ k.v.model = g.v.model /\ k.v.effort = g.v.effort
        /\ k.v.permission = g.v.permission /\ k.v.session = g.v.session /\ k.v.kind = g.v.kind
        /\ k.v.ref = g.v.ref /\ k.v.cwd = g.v.cwd /\ k.v.typed = g.v.typed
    BY <2>4, <2>6 DEF FormOK, CardFields, ColumnFields
  <2>8. Untouched(stored, k, touched \cup {"model"}) /\ UntouchedPlace(stored, k, touched \cup {"model"})
    BY <2>4, <2>6, <2>7 DEF FormOK, Untouched, UntouchedPlace, card_space_ref
  <2>9. FormOK(stored, k, touched \cup {"model"})
    BY <2>4, <2>6, <2>7, <2>8 DEF FormOK
  <2> QED
    <3>1. FormOK(stored, build_card_fields(k), touched \cup {"model"})
      BY <1>1, <2>4, <2>6, <2>9, CardBuilt
    <3> QED
      BY <2>1, <2>2, <2>5, <3>1
<1>5. CASE cycle_space_kind
  <2>1. PICK e \in {"workspace", "new_workspace"} :
          form' = build_card_fields([form EXCEPT !.v["kind"] = e])
    <3>1. PICK e : e = IF form.v.kind = "workspace" THEN "new_workspace" ELSE "workspace"
      OBVIOUS
    <3>2. form' = build_card_fields([form EXCEPT !.v["kind"] = e])
      BY <1>5, <3>1, Zenon DEF cycle_space_kind
    <3>3. e \in {"workspace", "new_workspace"}
      BY <3>1
    <3> QED
      BY <3>2, <3>3
  <2>2. touched' = touched \cup {"kind"} /\ stored' = stored /\ form.kind = "card"
    BY <1>5 DEF cycle_space_kind, Touch
  <2>3. PICK g : g = [form EXCEPT !.v["kind"] = e]
    OBVIOUS
  <2>4. FormOK(stored, g, touched \cup {"kind"}) /\ g.kind = "card"
    <3>1. FormOK(stored, g, touched \cup {"kind"})
      BY <1>1, <2>2, <2>3, FieldChanged
    <3> QED
      BY <1>1, <2>2, <3>1 DEF FormOK
  <2> QED
    BY <1>1, <2>1, <2>2, <2>3, <2>4, CardBuilt
<1> QED
  BY <1>2, <1>3, <1>4, <1>5

(* The keys that change one field and nothing else.                         *)
LEMMA FieldKeys ==
  ASSUME FormInv, form # Unset, NEW e \in Texts \cup {Unset},
         \/ cycle_effort \/ cycle_permission \/ cycle_space_ref
         \/ type_model(e) \/ type_space_ref(e) \/ type_cwd(e)
  PROVE  FormOK(stored, form', touched') /\ stored' = stored
<1>1. ValidStored(stored) /\ FormOK(stored, form, touched)
  BY DEF FormInv
<1>2. ASSUME NEW x \in {"model", "effort", "permission"}, NEW y, Touch(x),
             form' = [form EXCEPT !.v[x] = y]
      PROVE  FormOK(stored, form', touched') /\ stored' = stored
  <2>1. x \in ColumnFields /\ x # "kind"
    BY DEF ColumnFields
  <2> QED
    BY <1>1, <1>2, <2>1, FieldChanged DEF Touch
<1>3. ASSUME NEW x \in {"ref", "typed"}, NEW y, Touch("ref"), form.kind = "card",
             x = "typed" => y # Custom, form' = [form EXCEPT !.v[x] = y]
      PROVE  FormOK(stored, form', touched') /\ stored' = stored
  BY <1>1, <1>3, RefChanged DEF Touch
<1>4. CASE cycle_effort
  <2>1. PICK y : form' = [form EXCEPT !.v["effort"] = y]
    BY <1>4 DEF cycle_effort
  <2> QED
    BY <1>2, <1>4, <2>1 DEF cycle_effort
<1>5. CASE cycle_permission
  <2>1. PICK y : form' = [form EXCEPT !.v["permission"] = y]
    BY <1>5 DEF cycle_permission
  <2> QED
    BY <1>2, <1>5, <2>1 DEF cycle_permission
<1>6. CASE cycle_space_ref
  <2>1. PICK y : form' = [form EXCEPT !.v["ref"] = y]
    BY <1>6 DEF cycle_space_ref
  <2>2. "ref" # "typed"
    OBVIOUS
  <2> QED
    BY <1>3, <1>6, <2>1, <2>2 DEF cycle_space_ref
<1>7. CASE type_model(e)
  <2>1. form' = [form EXCEPT !.v["model"] = e]
    BY <1>7 DEF type_model
  <2> QED
    BY <1>2, <1>7, <2>1 DEF type_model
<1>8. CASE type_space_ref(e)
  <2>1. e # Custom /\ "ref" # "typed"
    BY StoredIsValid
  <2>2. form' = [form EXCEPT !.v["typed"] = e] \/ form' = [form EXCEPT !.v["ref"] = e]
    BY <1>8 DEF type_space_ref
  <2>3. Touch("ref") /\ form.kind = "card"
    BY <1>8 DEF type_space_ref
  <2> QED
    BY <1>3, <2>1, <2>2, <2>3
<1>9. CASE type_cwd(e)
  <2>1. form' = [form EXCEPT !.v["cwd"] = e] /\ form.kind = "card"
        /\ touched' = touched \cup {"cwd"} /\ stored' = stored
    BY <1>9 DEF type_cwd, Touch
  <2> QED
    BY <1>1, <2>1, FieldChanged
<1> QED
  BY <1>4, <1>5, <1>6, <1>7, <1>8, <1>9

(* What is saved.                                                           *)
LEMMA SavedIsValid ==
  ASSUME FormInv, form # Unset, Accepts(form.kind, Submitted(form)),
         stored' = [stored EXCEPT !.of = Submitted(form)]
  PROVE  ValidStored(stored') /\ stored'.of = Submitted(form)
<1>1. ValidStored(stored) /\ FormOK(stored, form, touched)
  BY DEF FormInv
<1>2. PICK o : o = Submitted(form)
  OBVIOUS
<1>3. DOMAIN stored' = {"kind", "of"} /\ stored'.kind = stored.kind /\ stored'.of = o
  BY <1>1, <1>2 DEF ValidStored
<1>4. CASE stored.kind = "card"
  <2>1. /\ form.kind = "card" /\ form.v.typed # Custom
        /\ form.v.kind \in {"workspace", "new_workspace"}
    BY <1>1, <1>4 DEF FormOK
  <2>2. /\ DOMAIN o = CardFields /\ o.kind = form.v.kind /\ o.ref = card_space_ref(form.v)
    BY <1>2, <2>1 DEF Submitted, CardFields, ColumnFields
  <2>3. o.kind = "new_workspace" => o.ref # Unset /\ o.cwd # Unset
    BY <1>2, <2>1 DEF Accepts, validate_card_space
  <2>4. o.ref # Custom
    BY <2>1, <2>2 DEF card_space_ref
  <2> QED
    BY <1>2, <1>3, <1>4, <2>1, <2>2, <2>3, <2>4 DEF ValidStored, ValidCard
<1>5. CASE stored.kind = "column"
  <2>1. form.kind = "column" /\ DOMAIN form.v = ColumnFields /\ o = form.v
    BY <1>1, <1>2, <1>5 DEF FormOK, Submitted
  <2>2. o.permission # "bypassPermissions"
    BY <1>2, <2>1 DEF Accepts, validate_column_permission_override
  <2> QED
    BY <1>2, <1>3, <1>5, <2>1, <2>2 DEF ValidStored, ValidColumn
<1> QED
  BY <1>1, <1>4, <1>5 DEF ValidStored

LEMMA SavedAsTouched ==
  ASSUME FormInv, form # Unset, stored'.of = Submitted(form)
  PROVE  SavesTouched
<1>1. ValidStored(stored) /\ FormOK(stored, form, touched)
  BY DEF FormInv
<1>2. PICK o, p : o = stored.of /\ p = Submitted(form)
  OBVIOUS
<1>3. form.kind = stored.kind /\ Untouched(stored, form, touched)
  BY <1>1 DEF FormOK
<1>4. Droppable(stored) \in {{}, {"model", "effort", "permission"}}
  BY DEF Droppable
<1>5. \A field : field \in Affects(field)
  BY DEF Affects
<1>6. /\ "model" \in Affects("harness") /\ "effort" \in Affects("harness")
      /\ "permission" \in Affects("harness") /\ "effort" \in Affects("model")
      /\ "cwd" \in Affects("kind")
  BY DEF Affects
<1> DEFINE Allowed(x) == \/ \E field \in touched : x \in Affects(field)
                         \/ x \in Droppable(stored)
<1>7. ASSUME p.harness = form.v.harness, p.model = form.v.model, p.effort = form.v.effort,
             p.permission = form.v.permission \/ (/\ p.permission = Unset
                                                  /\ form.kind = "card"
                                                  /\ effective_caps(form, form.v.harness).modes = << >>)
      PROVE  \A x \in ColumnFields : p[x] = o[x] \/ Allowed(x)
  <2>1. p.harness = o.harness \/ Allowed("harness")
    BY <1>2, <1>3, <1>5, <1>7 DEF Untouched
  <2>2. CASE Droppable(stored) # {}
    BY <1>4, <2>1, <2>2 DEF ColumnFields
  <2>3. CASE Droppable(stored) = {}
    <3>1. p.model = o.model \/ Allowed("model")
      BY <1>2, <1>3, <1>5, <1>6, <1>7, <2>3 DEF Untouched
    <3>2. p.effort = o.effort \/ Allowed("effort")
      BY <1>2, <1>3, <1>5, <1>6, <1>7, <2>3 DEF Untouched
    <3>3. p.permission = o.permission \/ Allowed("permission")
      <4>1. CASE touched \cap {"harness", "permission"} # {}
        BY <1>5, <1>6, <4>1
      <4>2. CASE touched \cap {"harness", "permission"} = {}
        <5>1. form.v.permission = o.permission /\ form.v.harness = o.harness
          BY <1>2, <1>3, <2>3, <4>2 DEF Untouched
        <5>2. form.caps \in {Unset} \cup Served[o.harness]
          BY <1>2, <1>3, <2>3, <4>2, SettingsOffered DEF Untouched
        <5>3. CASE p.permission = form.v.permission
          BY <5>1, <5>3
        <5>4. CASE form.kind = "card" /\ effective_caps(form, form.v.harness).modes = << >>
          <6>1. o.permission = Unset
            BY <1>2, <2>3, <5>1, <5>2, <5>4, PermissionStays
          <6> QED
            BY <1>7, <5>1, <6>1
        <5> QED
          BY <1>7, <5>3, <5>4
      <4> QED
        BY <4>1, <4>2
    <3> QED
      BY <2>1, <3>1, <3>2, <3>3 DEF ColumnFields
  <2> QED
    BY <2>2, <2>3
<1>8. CASE stored.kind = "column"
  <2>1. p = form.v /\ DOMAIN o = ColumnFields
    BY <1>1, <1>2, <1>3, <1>8 DEF Submitted, ValidStored, ValidColumn
  <2>2. \A x \in ColumnFields : p[x] = o[x] \/ Allowed(x)
    BY <1>7, <2>1
  <2> QED
    BY <1>2, <2>1, <2>2 DEF SavesTouched
<1>9. CASE stored.kind = "card"
  <2>1. form.kind = "card" /\ UntouchedPlace(stored, form, touched) /\ ValidCard(o)
    BY <1>1, <1>2, <1>9 DEF FormOK, ValidStored
  <2>2. /\ p.harness = form.v.harness /\ p.model = form.v.model /\ p.effort = form.v.effort
        /\ p.permission = IF effective_caps(form, form.v.harness).modes = << >>
                          THEN Unset ELSE form.v.permission
        /\ p.session = form.v.session /\ p.kind = form.v.kind /\ p.ref = card_space_ref(form.v)
        /\ p.cwd = IF form.v.kind = "new_workspace" THEN form.v.cwd ELSE Unset
    BY <1>2, <2>1 DEF Submitted
  <2>3. \A x \in ColumnFields : p[x] = o[x] \/ Allowed(x)
    BY <1>7, <2>1, <2>2
  <2>4. p.session = o.session \/ Allowed("session")
    BY <1>2, <1>5, <2>1, <2>2 DEF UntouchedPlace
  <2>5. p.kind = o.kind \/ Allowed("kind")
    BY <1>2, <1>5, <2>1, <2>2 DEF UntouchedPlace
  <2>6. p.ref = o.ref \/ Allowed("ref") \/ (o.ref = Unset /\ o.kind = "workspace")
    BY <1>2, <1>5, <2>1, <2>2 DEF UntouchedPlace, ValidCard
  <2>7. p.cwd = o.cwd \/ Allowed("cwd") \/ o.kind = "workspace"
    BY <1>2, <1>5, <1>6, <2>1, <2>2 DEF UntouchedPlace, ValidCard
  <2>8. DOMAIN o = ColumnFields \cup {"session", "kind", "ref", "cwd"}
    BY <2>1 DEF ValidCard, CardFields
  <2> QED
    BY <1>2, <2>3, <2>4, <2>5, <2>6, <2>7, <2>8 DEF SavesTouched
<1> QED
  BY <1>1, <1>8, <1>9 DEF ValidStored

LEMMA FormStep ==
  ASSUME FormInv, [FormNext]_formVars
  PROVE  FormInv' /\ [SavesTouched]_formVars
<1>1. ASSUME FormOK(stored, form', touched'), stored' = stored
      PROVE  FormInv' /\ SavesTouched
  BY <1>1 DEF FormInv, SavesTouched
<1>2. ASSUME form' = Unset, stored' = stored
      PROVE  FormInv' /\ SavesTouched
  BY <1>2 DEF FormInv, SavesTouched
<1>3. CASE OpenForm
  <2>1. ValidStored(stored) /\ FormOK(stored, Opened, {})
    BY FormOpened DEF FormInv
  <2>2. form' \in load_form_options(Opened) /\ touched' = {} /\ stored' = stored
    BY <1>3 DEF OpenForm
  <2> QED
    BY <1>1, <2>1, <2>2, OptionsLoaded
<1>4. CASE form # Unset /\ Save
  <2>1. CASE stored' = stored
    BY <1>2, <1>4, <2>1 DEF Save
  <2>2. CASE Accepts(form.kind, Submitted(form)) /\ stored' = [stored EXCEPT !.of = Submitted(form)]
    <3>1. ValidStored(stored') /\ stored'.of = Submitted(form)
      BY <1>4, <2>2, SavedIsValid
    <3>2. SavesTouched
      BY <1>4, <3>1, SavedAsTouched
    <3>3. form' = Unset
      BY <1>4 DEF Save
    <3> QED
      BY <3>1, <3>2, <3>3 DEF FormInv
  <2> QED
    BY <1>4, <2>1, <2>2 DEF Save
<1>5. CASE close_form
  BY <1>2, <1>5 DEF close_form
<1>6. CASE form # Unset /\ (cycle_harness \/ cycle_session \/ cycle_model \/ cycle_space_kind)
  BY <1>1, <1>6, RebuildingKeys
<1>7. ASSUME form # Unset, cycle_effort \/ cycle_permission \/ cycle_space_ref
      PROVE  FormInv' /\ SavesTouched
  <2>1. Unset \in Texts \cup {Unset}
    OBVIOUS
  <2> QED
    BY <1>1, <1>7, <2>1, FieldKeys
<1>8. ASSUME form # Unset, NEW e \in Texts, type_model(e) \/ type_space_ref(e) \/ type_cwd(e)
      PROVE  FormInv' /\ SavesTouched
  BY <1>1, <1>8, FieldKeys
<1>9. CASE UNCHANGED formVars
  BY <1>9 DEF formVars, FormInv
<1> QED
  BY <1>3, <1>4, <1>5, <1>6, <1>7, <1>8, <1>9 DEF FormNext

(* Saving a form changes of a card or a column only what the user changed,  *)
(* what depends on it, and the stated exceptions.                           *)
THEOREM SavingChangesWhatWasTouched == FormSpec => OnlyTouchedChange
<1>1. FormInit => FormInv
  BY StoredIsValid DEF FormInit, FormInv, ValidStored
<1>2. FormInv /\ [FormNext]_formVars => FormInv' /\ [SavesTouched]_formVars
  BY FormStep
<1> QED
  BY <1>1, <1>2, PTL DEF FormSpec, OnlyTouchedChange
=============================================================================

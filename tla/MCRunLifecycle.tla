--------------------------- MODULE MCRunLifecycle ---------------------------
(***************************************************************************)
(* Instances of RunLifecycle for TLC, over some of the columns             *)
(*   todo    board main    manual                                          *)
(*   work    board main    auto     on_success = review   on_fail = todo   *)
(*   review  board main    auto     on_success = work     on_fail = work   *)
(*   side    board other   auto     on_success = work     on_fail = NULL   *)
(* so that runs hop between work and review, and a run of side points at   *)
(* a column of a board its card is not on.                                 *)
(***************************************************************************)
EXTENDS RunRefinement

CONSTANTS todo, work, review, side, main, other

InColumns(column) == IF column \in Columns THEN column ELSE NoColumn

MCBoardOf == [c \in Columns |-> IF c = side THEN other ELSE main]

MCOnSuccess ==
  [c \in Columns |-> InColumns(CASE c = work -> review [] c \in {review, side} -> work
                                 [] OTHER -> NoColumn)]

MCOnFail ==
  [c \in Columns |-> InColumns(CASE c = work -> todo [] c = review -> work
                                 [] OTHER -> NoColumn)]

MCOneCard == <<todo>>
MCOneWorkCard == <<work>>
MCTwoWorkCards == <<work, work>>
=============================================================================

----------------------------- MODULE BoardEngine -----------------------------
(***************************************************************************)
(* The pure decisions of crates/board-core/src/engine: which request may   *)
(* close a run, what an agent signal does to a card, where a finished run  *)
(* sends its card, and what entering a column does.  They hold no state:   *)
(* the daemon gathers the facts under its locks and applies the answer.    *)
(*                                                                         *)
(* A decision that may refuse is the set of its answers: empty when the    *)
(* engine rejects or ignores, a singleton otherwise, so that a caller      *)
(* writes \E plan \in DecideLifecycle(...).                                *)
(***************************************************************************)
EXTENDS Integers

CONSTANTS
  Columns,        \* the columns of every board
  Boards,         \* the boards
  BoardOf,        \* the board each column belongs to
  AutoColumns,    \* the columns with trigger = auto; the others are manual
  Configured,     \* the columns whose runs use a configured harness
  OnSuccess,      \* on_success_column_id, NoColumn when NULL
  OnFail,         \* on_fail_column_id, NoColumn when NULL
  NoColumn,       \* NULL
  MaxAutoHops     \* MAX_AUTO_HOPS, 8 in the code

ASSUME EngineAssumption ==
  /\ NoColumn \notin Columns
  /\ AutoColumns \subseteq Columns
  /\ Configured \subseteq Columns
  /\ BoardOf \in [Columns -> Boards]
  /\ OnSuccess \in [Columns -> Columns \cup {NoColumn}]
  /\ OnFail \in [Columns -> Columns \cup {NoColumn}]
  /\ MaxAutoHops \in Nat

-----------------------------------------------------------------------------
(* Card statuses (the awaiting reason is not kept) and run outcomes.       *)

LiveStatus == {"running", "blocked", "awaiting"}
BusyStatus == LiveStatus \cup {"queued"}
RestStatus == {"idle", "done", "failed"}
CardStatus == BusyStatus \cup RestStatus
Outcome == {"ok", "fail", "cancelled"}

FinalizePlan == [outcome : Outcome, kill : BOOLEAN, transition : BOOLEAN]

-----------------------------------------------------------------------------
(* decide_lifecycle.  facts.open is the set of open runs of the card (at   *)
(* most one), facts.supplied the set of run ids the caller supplied (none  *)
(* or one).                                                                *)

DecideLifecycle(facts, action) ==
  { plan \in FinalizePlan :
      /\ facts.open # {}
      /\ facts.supplied \subseteq facts.open
      /\ CASE action.kind = "done" ->
                /\ ~ facts.started => /\ facts.configured
                                      /\ facts.supplied # {}
                /\ plan = [outcome |-> action.outcome, kill |-> FALSE, transition |-> TRUE]
           [] action.kind = "cancel" ->
                plan = [outcome |-> "cancelled", kill |-> facts.started, transition |-> FALSE]
           [] action.kind = "timeout" ->
                /\ facts.started
                /\ facts.status # "awaiting"
                /\ plan = [outcome |-> "fail", kill |-> TRUE, transition |-> TRUE]
           [] action.kind = "pane_exited" ->
                /\ facts.supplied # {}
                /\ facts.configured
                /\ plan = [outcome |-> "fail", kill |-> FALSE, transition |-> FALSE] }

-----------------------------------------------------------------------------
(* decide_signal: the status an agent signal gives a card; none when the   *)
(* signal is stale or changes nothing.                                     *)

AgentSignal == {"working", "blocked", "done", "idle_expired"}

DecideSignal(status, signal) ==
  IF status \notin LiveStatus THEN {}
  ELSE CASE signal = "working"      -> {"running"} \ {status}
         [] signal = "blocked"      -> {"blocked"} \ {status}
         [] signal = "done"         -> {"awaiting"}
         [] signal = "idle_expired" -> {"awaiting"} \ {status}

-----------------------------------------------------------------------------
(* decide_transition: the column a finished run sends its card to, looked  *)
(* up among the columns of the board the card is on NOW, and the status.   *)

TransitionTarget(column, board, outcome) ==
  LET id == CASE outcome = "ok"   -> OnSuccess[column]
              [] outcome = "fail" -> OnFail[column]
              [] OTHER            -> NoColumn
  IN  IF id \in Columns /\ BoardOf[id] = board THEN id ELSE NoColumn

TransitionStatus(target, outcome) ==
  IF target # NoColumn
    THEN IF target \in AutoColumns THEN "queued" ELSE "idle"
    ELSE IF outcome = "ok" THEN "done" ELSE "failed"

TransitionEnqueues(target) == target \in AutoColumns

DecideAutoHopUncounted(currentHops) ==    \* mutant: the hop taken is not counted
  IF currentHops + 1 > MaxAutoHops THEN {} ELSE {currentHops}
(* decide_auto_hop on an enqueueing transition: the next hop number, none  *)
(* when the chain must stop.                                               *)
DecideAutoHop(currentHops) ==
  IF currentHops + 1 > MaxAutoHops THEN {} ELSE {currentHops + 1}

(* decide_entry: whether a card of this status entering the column is      *)
(* enqueued.                                                               *)
EntryEnqueues(column, status) ==
  /\ column \in AutoColumns
  /\ status \in RestStatus

(* validate_card_edit, validate_card_archive: run settings are frozen, and *)
(* the card may not be archived, while a run may be open.                  *)
CardEditable(status) == status \notin BusyStatus
=============================================================================

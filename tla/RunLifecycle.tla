---------------------------- MODULE RunLifecycle ----------------------------
(***************************************************************************)
(* The run lifecycle of boardd: cards and runs in the SQLite store, the    *)
(* scheduler's in-memory maps, the dispatcher's launches, the client       *)
(* requests, the Herdr watchers, the periodic reconciler and a restart.    *)
(*                                                                         *)
(* An action is one critical section (scheduler lock, then store lock)     *)
(* together with the effects the handler performs after it.  A handler     *)
(* that checks under the locks, releases them and commits later is two     *)
(* actions joined by one of the sets finalizing, creating, retrying and    *)
(* probing: what was read may be stale when the second one happens.  A     *)
(* request that is refused changes nothing and is no action.               *)
(***************************************************************************)
EXTENDS BoardEngine, FiniteSets

CONSTANTS
  MaxCards,       \* bound: card ids
  Spaces,         \* SpaceKeys: (session, space kind, space ref)
  InitColumn,     \* the columns of the cards that exist at the start
  NoCard,         \* no card
  NoPane,         \* NULL pane id
  BadColumns,     \* columns whose settings prepare_enqueue_values refuses
  TimedColumns,   \* columns with timeout_minutes
  MaxConcurrent,  \* config.max_concurrent
  Ops,            \* the operations and events of this instance
  MaxRuns,        \* bound: run ids
  MaxRows,        \* bound: rows ever inserted under one run id
  MaxPanes,       \* bound: Herdr panes ever created
  MaxPending,     \* bound: client requests are accepted while fewer calls are pending
  MaxCrashes      \* bound: daemon restarts

Cards == 1 .. MaxCards
RunIds == 1 .. MaxRuns
Panes == 1 .. MaxPanes
AllOps == {"create", "duplicate", "update", "delete", "archive", "board_archive",
           "move", "done", "pane_exited", "cancel", "retry",
           "signal", "pane_dies", "pane_event", "reconcile", "spawn_fails"}

ASSUME LifecycleAssumption ==
  /\ MaxCards \in Nat /\ MaxRuns \in Nat /\ MaxRows \in Nat /\ MaxPanes \in Nat
  /\ MaxPending \in Nat /\ MaxCrashes \in Nat /\ MaxConcurrent \in Nat
  /\ NoCard \notin Cards
  /\ NoPane \notin Panes
  /\ BadColumns \subseteq Columns
  /\ TimedColumns \subseteq Columns
  /\ \E n \in 0 .. MaxCards : InitColumn \in [1 .. n -> Columns]
  /\ Spaces # {}
  /\ Columns # {}
  /\ Ops \subseteq AllOps

VARIABLES
  (* the store *)
  cardStatus,     \* cards.status; "absent": no such row
  cardColumn,     \* cards.column_id
  cardSpace,      \* the card's SpaceKey
  cardArchived,   \* cards with archived_at
  boardArchived,  \* boards with archived_at
  runState,       \* "none": no row; queued, started, or the outcome of an ended run
  runCard,        \* runs.card_id
  runColumn,      \* runs.column_id
  runPane,        \* runs.herdr_pane_id
  runRow,         \* history: how many rows have been inserted under the run id
  runChain,       \* history: automatic hops since a human last enqueued the card
  (* the scheduler: Sched.active and Sched.chain_hops *)
  activeCard,     \* ActiveRun.card_id; NoCard: the run has no entry
  activePane,     \* ActiveRun.pane_id
  chainHops,      \* chain_hops, 0 when absent
  (* the dispatcher *)
  wake,           \* the dispatch channel is not empty
  pass,           \* "idle", "claiming" or "launching"
  passBusy,       \* spaces of the started runs the pass has read
  passCount,      \* number of those runs
  launchCard,     \* the card snapshot of the run's launch in flight; NoCard: none
  launchRow,      \* history: the row the launch was claimed from
  launchPane,     \* the pane the launch has obtained; NoPane before that
  (* handlers between two critical sections *)
  finalizing,     \* finalize_run calls not yet at their critical section
  killing,        \* panes whose close follows a committed finalization
  creating,       \* card.create requests past the archived-board guard
  retrying,       \* run.retry requests past their guards
  probing,        \* reconcile_once: the runs being probed
  (* Herdr *)
  livePanes,      \* panes that exist
  nextPane,       \* next fresh pane id
  crashes         \* restarts so far

cardVars == <<cardStatus, cardColumn, cardSpace, cardArchived, boardArchived>>
runVars == <<runState, runCard, runColumn, runPane, runRow, runChain>>
activeVars == <<activeCard, activePane>>
passVars == <<pass, passBusy, passCount>>
launchVars == <<launchCard, launchRow, launchPane>>
requestVars == <<finalizing, killing, creating, retrying, probing>>
paneVars == <<livePanes, nextPane>>
vars == <<cardVars, runVars, activeVars, chainHops, wake, passVars, launchVars,
          requestVars, paneVars, crashes>>

-----------------------------------------------------------------------------
Ended == Outcome
Open == {"queued", "started"}
RunState == {"none"} \cup Open \cup Ended

FinalizeCall ==
  [run : RunIds, outcome : Outcome, kill : BOOLEAN, transition : BOOLEAN, timeout : BOOLEAN]

(* One started run as reconcile_once has read it, then what the probe of   *)
(* its pane said, then "adopt" once same_open_run has been passed.         *)
Observation ==
  [run : RunIds, card : Cards, pane : Panes, stage : {"read", "alive", "gone", "adopt"}]

Present(c) == cardStatus[c] \in CardStatus
OpenRuns(c) == {r \in RunIds : runCard[r] = c /\ runState[r] \in Open}
StartedRuns == {r \in RunIds : runState[r] = "started"}
QueuedRuns == {r \in RunIds : runState[r] = "queued"}
Active == {r \in RunIds : activeCard[r] # NoCard}
Launching == {r \in RunIds : launchCard[r] # NoCard}
CardBoard(c) == BoardOf[cardColumn[c]]
RunSpace(r) == cardSpace[runCard[r]]
Capacity == IF MaxConcurrent > 1 THEN MaxConcurrent ELSE 1
FrozenCardOnly(c) == c \in cardArchived    \* mutant: the board is not looked at
Frozen(c) == c \in cardArchived \/ CardBoard(c) \in boardArchived

(* INTEGER PRIMARY KEY without AUTOINCREMENT: one more than the largest id *)
(* still in the table.                                                     *)
IsNextRunId(r) ==
  /\ \A q \in RunIds : runState[q] # "none" => q < r
  /\ r > 1 => runState[r - 1] # "none"

IsNextCardId(c) ==
  /\ \A d \in Cards : Present(d) => d < c
  /\ c > 1 => Present(c - 1)

Pending == Cardinality(finalizing) + Cardinality(creating) + Cardinality(retrying)

-----------------------------------------------------------------------------
Init ==
  /\ cardStatus = [c \in Cards |-> IF c \in DOMAIN InitColumn THEN "idle" ELSE "absent"]
  /\ cardColumn = [c \in Cards |-> IF c \in DOMAIN InitColumn THEN InitColumn[c] ELSE NoColumn]
  /\ cardSpace \in [Cards -> Spaces]
  /\ cardArchived = {} /\ boardArchived = {}
  /\ runState = [r \in RunIds |-> "none"]
  /\ runCard = [r \in RunIds |-> NoCard]
  /\ runColumn = [r \in RunIds |-> NoColumn]
  /\ runPane = [r \in RunIds |-> NoPane]
  /\ runRow = [r \in RunIds |-> 0]
  /\ runChain = [r \in RunIds |-> 0]
  /\ activeCard = [r \in RunIds |-> NoCard]
  /\ activePane = [r \in RunIds |-> NoPane]
  /\ chainHops = [c \in Cards |-> 0]
  /\ wake = TRUE
  /\ pass = "idle" /\ passBusy = {} /\ passCount = 0
  /\ launchCard = [r \in RunIds |-> NoCard]
  /\ launchRow = [r \in RunIds |-> 0]
  /\ launchPane = [r \in RunIds |-> NoPane]
  /\ finalizing = {} /\ killing = {} /\ creating = {} /\ retrying = {} /\ probing = {}
  /\ livePanes = {} /\ nextPane = 1
  /\ crashes = 0

-----------------------------------------------------------------------------
(* Inserting a queued row: every column but its state, which the caller    *)
(* may change together with another row's.                                 *)
InsertRow(r, c, column, chain) ==
  /\ IsNextRunId(r)
  /\ runRow[r] < MaxRows
  /\ runCard' = [runCard EXCEPT ![r] = c]
  /\ runColumn' = [runColumn EXCEPT ![r] = column]
  /\ runPane' = [runPane EXCEPT ![r] = NoPane]
  /\ runRow' = [runRow EXCEPT ![r] = @ + 1]
  /\ runChain' = [runChain EXCEPT ![r] = chain]

(* enqueue_run_tx on behalf of a human request.                            *)
Enqueue(r, c, column) ==
  /\ InsertRow(r, c, column, 0)
  /\ runState' = [runState EXCEPT ![r] = "queued"]
  /\ cardStatus' = [cardStatus EXCEPT ![c] = "queued"]
  /\ wake' = TRUE

(* Closing an open run without a successor, in the store.                  *)
CloseRun(r, outcome, status) ==
  /\ runState' = [runState EXCEPT ![r] = outcome]
  /\ cardStatus' = [cardStatus EXCEPT ![runCard[r]] = status]
  /\ UNCHANGED <<runCard, runColumn, runPane, runRow, runChain>>

(* Sched.active: an entry is inserted and removed.                         *)
AddActiveNoPane(r, c, p) ==    \* mutant: the entry has no pane
  activeCard' = [activeCard EXCEPT ![r] = c] /\ UNCHANGED activePane
AddActive(r, c, p) ==
  /\ activeCard' = [activeCard EXCEPT ![r] = c]
  /\ activePane' = [activePane EXCEPT ![r] = p]

DropActiveNever(r) == UNCHANGED activeVars    \* mutant: the entry is kept
DropActive(r) ==
  /\ activeCard' = [activeCard EXCEPT ![r] = NoCard]
  /\ activePane' = [activePane EXCEPT ![r] = NoPane]

ClosePaneNever(p) == UNCHANGED livePanes    \* mutant: the pane stays open
ClosePane(p) == livePanes' = livePanes \ {p}

-----------------------------------------------------------------------------
(* Client requests on cards and boards (ops/cards.rs, ops/boards.rs).      *)

CreateRequest == [column : Columns, source : {NoCard}] \cup [column : {NoColumn}, source : Cards]

(* card.create: the archived-board guard, under a store lock it gives up.  *)
CardCreateCheck(column) ==
  /\ "create" \in Ops
  /\ Pending < MaxPending
  /\ BoardOf[column] \notin boardArchived
  /\ creating' = creating \cup {[column |-> column, source |-> NoCard]}
  /\ UNCHANGED <<cardVars, runVars, activeVars, chainHops, wake, passVars, launchVars,
                 finalizing, killing, retrying, probing, paneVars, crashes>>

(* card.create: the insert, with its first run in an auto column.          *)
CardCreate(c, column, space) ==
  /\ [column |-> column, source |-> NoCard] \in creating
  /\ creating' = creating \ {[column |-> column, source |-> NoCard]}
  /\ IsNextCardId(c)
  /\ cardColumn' = [cardColumn EXCEPT ![c] = column]
  /\ cardSpace' = [cardSpace EXCEPT ![c] = space]
  /\ IF EntryEnqueues(column, "idle")
       THEN /\ column \notin BadColumns
            /\ \E r \in RunIds : Enqueue(r, c, column)
            /\ chainHops' = [chainHops EXCEPT ![c] = 0]
       ELSE /\ cardStatus' = [cardStatus EXCEPT ![c] = "idle"]
            /\ UNCHANGED <<runVars, chainHops, wake>>
  /\ UNCHANGED <<cardArchived, boardArchived, activeVars, passVars, launchVars,
                 finalizing, killing, retrying, probing, paneVars, crashes>>

(* The insert is refused: prepare_enqueue_values rejects the settings, or  *)
(* the card to duplicate has gone.                                         *)
CreateRefused(q) ==
  /\ q \in creating
  /\ IF q.source = NoCard
       THEN EntryEnqueues(q.column, "idle") /\ q.column \in BadColumns
       ELSE ~ Present(q.source)
  /\ creating' = creating \ {q}
  /\ UNCHANGED <<cardVars, runVars, activeVars, chainHops, wake, passVars, launchVars,
                 finalizing, killing, retrying, probing, paneVars, crashes>>

(* card.duplicate: the same guard, then a copy that never gets a run.      *)
CardDuplicateCheck(source) ==
  /\ "duplicate" \in Ops
  /\ Pending < MaxPending
  /\ Present(source)
  /\ CardBoard(source) \notin boardArchived
  /\ creating' = creating \cup {[column |-> NoColumn, source |-> source]}
  /\ UNCHANGED <<cardVars, runVars, activeVars, chainHops, wake, passVars, launchVars,
                 finalizing, killing, retrying, probing, paneVars, crashes>>

CardDuplicate(source, c) ==
  /\ [column |-> NoColumn, source |-> source] \in creating
  /\ creating' = creating \ {[column |-> NoColumn, source |-> source]}
  /\ Present(source)
  /\ IsNextCardId(c)
  /\ cardStatus' = [cardStatus EXCEPT ![c] = "idle"]
  /\ cardColumn' = [cardColumn EXCEPT ![c] = cardColumn[source]]
  /\ cardSpace' = [cardSpace EXCEPT ![c] = cardSpace[source]]
  /\ UNCHANGED <<cardArchived, boardArchived, runVars, activeVars, chainHops, wake, passVars,
                 launchVars, finalizing, killing, retrying, probing, paneVars, crashes>>

(* card.update of the space; the fields that no run depends on are left out. *)
CardUpdate(c, space) ==
  /\ "update" \in Ops
  /\ Present(c)
  /\ CardEditable(cardStatus[c])
  /\ OpenRuns(c) = {}
  /\ cardSpace' = [cardSpace EXCEPT ![c] = space]
  /\ UNCHANGED <<cardStatus, cardColumn, cardArchived, boardArchived, runVars, activeVars,
                 chainHops, wake, passVars, launchVars, requestVars, paneVars, crashes>>

(* card.delete: the card's runs are deleted with it (ON DELETE CASCADE).   *)
CardDelete(c) ==
  /\ "delete" \in Ops
  /\ Present(c)
  /\ OpenRuns(c) = {}
  /\ cardStatus' = [cardStatus EXCEPT ![c] = "absent"]
  /\ cardColumn' = [cardColumn EXCEPT ![c] = NoColumn]
  /\ cardArchived' = cardArchived \ {c}
  /\ runState' = [r \in RunIds |-> IF runCard[r] = c THEN "none" ELSE runState[r]]
  /\ runCard' = [r \in RunIds |-> IF runCard[r] = c THEN NoCard ELSE runCard[r]]
  /\ UNCHANGED <<cardSpace, boardArchived, runColumn, runPane, runRow, runChain, activeVars,
                 chainHops, wake, passVars, launchVars, requestVars, paneVars, crashes>>

CardArchive(c) ==
  /\ "archive" \in Ops
  /\ Present(c)
  /\ CardEditable(cardStatus[c])
  /\ OpenRuns(c) = {}
  /\ cardArchived' = cardArchived \cup {c}
  /\ UNCHANGED <<cardStatus, cardColumn, cardSpace, boardArchived, runVars, activeVars,
                 chainHops, wake, passVars, launchVars, requestVars, paneVars, crashes>>

CardRestore(c) ==
  /\ "archive" \in Ops
  /\ c \in cardArchived
  /\ cardArchived' = cardArchived \ {c}
  /\ UNCHANGED <<cardStatus, cardColumn, cardSpace, boardArchived, runVars, activeVars,
                 chainHops, wake, passVars, launchVars, requestVars, paneVars, crashes>>

(* board.archive: refused while a card now on the board has an open run.   *)
BoardArchive(b) ==
  /\ "board_archive" \in Ops
  /\ \A c \in Cards : Present(c) /\ CardBoard(c) = b => OpenRuns(c) = {}
  /\ boardArchived' = boardArchived \cup {b}
  /\ UNCHANGED <<cardStatus, cardColumn, cardSpace, cardArchived, runVars, activeVars,
                 chainHops, wake, passVars, launchVars, requestVars, paneVars, crashes>>

BoardRestore(b) ==
  /\ "board_archive" \in Ops
  /\ b \in boardArchived
  /\ boardArchived' = boardArchived \ {b}
  /\ UNCHANGED <<cardStatus, cardColumn, cardSpace, cardArchived, runVars, activeVars,
                 chainHops, wake, passVars, launchVars, requestVars, paneVars, crashes>>

(* card.move to another column, on this board or another one.  Within the  *)
(* column it is a reorder.  A card with an open run moves and keeps it.    *)
CardMove(c, column) ==
  /\ "move" \in Ops
  /\ Present(c)
  /\ ~ Frozen(c)
  /\ BoardOf[column] \notin boardArchived
  /\ column # cardColumn[c]
  /\ BoardOf[column] # CardBoard(c) => column \notin BadColumns
  /\ cardColumn' = [cardColumn EXCEPT ![c] = column]
  /\ IF EntryEnqueues(column, cardStatus[c])
       THEN /\ column \notin BadColumns
            /\ OpenRuns(c) = {}
            /\ \E r \in RunIds : Enqueue(r, c, column)
            /\ chainHops' = [chainHops EXCEPT ![c] = 0]
       ELSE UNCHANGED <<cardStatus, runVars, chainHops, wake>>
  /\ UNCHANGED <<cardSpace, cardArchived, boardArchived, activeVars, passVars, launchVars,
                 requestVars, paneVars, crashes>>

-----------------------------------------------------------------------------
(* Client requests on runs (ops/runs.rs).  A request that closes a started *)
(* run decides under the locks and then calls finalize_run, which takes    *)
(* them again.                                                             *)

LifecycleFacts(r, supplied) ==
  [open |-> {r}, supplied |-> supplied, started |-> runState[r] = "started",
   configured |-> runColumn[r] \in Configured, status |-> cardStatus[runCard[r]]]

CallFinalize(r, plan, timeout) ==
  finalizing' = finalizing \cup
    {[run |-> r, outcome |-> plan.outcome, kill |-> plan.kill,
      transition |-> plan.transition, timeout |-> timeout]}

(* run.done.  The protocol admits the outcomes ok and fail.  The pane of   *)
(* the open run speaks for it whatever run id it was started with.         *)
RunDone(c, supplied, actorPane, outcome) ==
  /\ "done" \in Ops
  /\ Pending < MaxPending
  /\ \E r \in OpenRuns(c) :
       LET actor == IF actorPane # NoPane /\ actorPane = runPane[r] THEN {r} ELSE supplied IN
       \E plan \in DecideLifecycle(LifecycleFacts(r, actor),
                                   [kind |-> "done", outcome |-> outcome]) :
         CallFinalize(r, plan, FALSE)
  /\ UNCHANGED <<cardVars, runVars, activeVars, chainHops, wake, passVars, launchVars,
                 killing, creating, retrying, probing, paneVars, crashes>>

(* run.pane_exited, from the wrapper of a configured harness.              *)
RunPaneExited(c, supplied) ==
  /\ "pane_exited" \in Ops
  /\ Pending < MaxPending
  /\ \E r \in OpenRuns(c) :
       \E plan \in DecideLifecycle(LifecycleFacts(r, {supplied}), [kind |-> "pane_exited"]) :
         CallFinalize(r, plan, FALSE)
  /\ UNCHANGED <<cardVars, runVars, activeVars, chainHops, wake, passVars, launchVars,
                 killing, creating, retrying, probing, paneVars, crashes>>

(* run.cancel of a started run.                                            *)
RunCancel(c) ==
  /\ "cancel" \in Ops
  /\ Pending < MaxPending
  /\ \E r \in OpenRuns(c) :
       /\ runState[r] = "started"
       /\ CallFinalize(r, [outcome |-> "cancelled", kill |-> TRUE, transition |-> FALSE], FALSE)
  /\ UNCHANGED <<cardVars, runVars, activeVars, chainHops, wake, passVars, launchVars,
                 killing, creating, retrying, probing, paneVars, crashes>>

(* run.cancel of a queued run: verified and closed in one section.         *)
RunCancelQueued(c) ==
  /\ "cancel" \in Ops
  /\ \E r \in OpenRuns(c) :
       /\ runState[r] = "queued"
       /\ CloseRun(r, "cancelled", "failed")
  /\ chainHops' = [chainHops EXCEPT ![c] = 0]
  /\ wake' = TRUE
  /\ UNCHANGED <<cardColumn, cardSpace, cardArchived, boardArchived, activeVars, passVars,
                 launchVars, requestVars, paneVars, crashes>>

(* run.retry: the guards and the hop reset, then enqueue_run, which checks *)
(* everything again and that the card is still in the column it read.      *)
RunRetryCheck(c) ==
  /\ "retry" \in Ops
  /\ Pending < MaxPending
  /\ Present(c)
  /\ ~ Frozen(c)
  /\ OpenRuns(c) = {}
  /\ chainHops' = [chainHops EXCEPT ![c] = 0]
  /\ retrying' = retrying \cup {<<c, cardColumn[c]>>}
  /\ UNCHANGED <<cardVars, runVars, activeVars, wake, passVars, launchVars,
                 finalizing, killing, creating, probing, paneVars, crashes>>

RetryAllowedFrozen(c, column) ==    \* mutant: archival is not looked at again
  Present(c) /\ OpenRuns(c) = {} /\ cardColumn[c] = column /\ column \notin BadColumns
RetryAllowed(c, column) ==
  /\ Present(c)
  /\ ~ Frozen(c)
  /\ OpenRuns(c) = {}
  /\ cardColumn[c] = column
  /\ column \notin BadColumns

RunRetryEnqueue(c, column) ==
  /\ <<c, column>> \in retrying
  /\ retrying' = retrying \ {<<c, column>>}
  /\ RetryAllowed(c, column)
  /\ \E r \in RunIds : Enqueue(r, c, column)
  /\ UNCHANGED <<cardColumn, cardSpace, cardArchived, boardArchived, activeVars, chainHops,
                 passVars, launchVars, finalizing, killing, creating, probing, paneVars, crashes>>

RunRetryRefused(c, column) ==
  /\ <<c, column>> \in retrying
  /\ retrying' = retrying \ {<<c, column>>}
  /\ ~ RetryAllowed(c, column)
  /\ UNCHANGED <<cardVars, runVars, activeVars, chainHops, wake, passVars, launchVars,
                 finalizing, killing, creating, probing, paneVars, crashes>>

-----------------------------------------------------------------------------
(* finalize_run_inner (dispatch/finalize.rs).                              *)

FinalizeClaimsAwaiting(f) ==    \* mutant: the review of the card does not stop a timeout
  /\ runState[f.run] \in Open
  /\ f.timeout => activeCard[f.run] = runCard[f.run] /\ runState[f.run] = "started"
FinalizeClaimsRunning(f) ==    \* mutant: a blocked card stops a timeout
  /\ runState[f.run] \in Open
  /\ f.timeout => /\ activeCard[f.run] = runCard[f.run]
                  /\ runState[f.run] = "started"
                  /\ cardStatus[runCard[f.run]] = "running"

(* What the guards at the top of the critical section let through: the row *)
(* exists and is open, and a timeout still holds.  A deadline that moved   *)
(* after the classification is taken out of finalizing by Signal.          *)
FinalizeClaims(f) ==
  /\ runState[f.run] \in Open
  /\ f.timeout => /\ activeCard[f.run] = runCard[f.run]
                  /\ runState[f.run] = "started"
                  /\ cardStatus[runCard[f.run]] # "awaiting"

FinalizeTarget(f) ==
  IF f.transition THEN TransitionTarget(runColumn[f.run], CardBoard(runCard[f.run]), f.outcome)
                  ELSE NoColumn

(* The hop the finalization takes: none when the target is not automatic,  *)
(* when the card or its board is archived, or when the chain must stop.    *)
NextHop(f) ==
  LET c == runCard[f.run] IN
  IF TransitionEnqueues(FinalizeTarget(f)) /\ ~ Frozen(c) THEN DecideAutoHop(chainHops[c]) ELSE {}

FinalStatusPlanned(f) ==    \* mutant: a stopped chain keeps the planned status
  IF ~ f.transition THEN IF f.outcome = "ok" THEN "idle" ELSE "failed"
  ELSE TransitionStatus(FinalizeTarget(f), f.outcome)
FinalStatus(f) ==
  IF ~ f.transition THEN IF f.outcome = "ok" THEN "idle" ELSE "failed"
  ELSE IF TransitionEnqueues(FinalizeTarget(f)) THEN "failed"
  ELSE TransitionStatus(FinalizeTarget(f), f.outcome)

(* Whether a pane is closed: only that of an entry that was in the map.    *)
Kills(f) == f.kill /\ f.run \in Active

(* The writes every finalization shares: it drops the scheduler's entry,   *)
(* places the card, and, after the locks, closes the pane of the entry it  *)
(* dropped before it wakes the dispatcher.                                 *)
FinalizeEffects(f) ==
  /\ cardColumn' = IF FinalizeTarget(f) = NoColumn THEN cardColumn
                   ELSE [cardColumn EXCEPT ![runCard[f.run]] = FinalizeTarget(f)]
  /\ DropActive(f.run)
  /\ killing' = IF Kills(f) THEN killing \cup {activePane[f.run]} ELSE killing
  /\ wake' = IF Kills(f) THEN wake ELSE TRUE
  /\ finalizing' = finalizing \ {f}
  /\ UNCHANGED <<cardSpace, cardArchived, boardArchived, passVars, launchVars, creating,
                 retrying, probing, paneVars, crashes>>

FinalizeRest(f) ==
  /\ f \in finalizing
  /\ FinalizeClaims(f)
  /\ NextHop(f) = {}
  /\ CloseRun(f.run, f.outcome, FinalStatus(f))
  /\ chainHops' = [chainHops EXCEPT ![runCard[f.run]] = 0]
  /\ FinalizeEffects(f)

FinalizeHop(f) ==
  /\ f \in finalizing
  /\ FinalizeClaims(f)
  /\ FinalizeTarget(f) \notin BadColumns
  /\ \E hop \in NextHop(f), n \in RunIds :
       /\ InsertRow(n, runCard[f.run], FinalizeTarget(f), runChain[f.run] + 1)
       /\ runState' = [runState EXCEPT ![f.run] = f.outcome, ![n] = "queued"]
       /\ chainHops' = [chainHops EXCEPT ![runCard[f.run]] = hop]
  /\ cardStatus' = [cardStatus EXCEPT ![runCard[f.run]] = "queued"]
  /\ FinalizeEffects(f)

(* The call ends without effect: the run is closed or gone, the timeout no *)
(* longer holds, or the next hop cannot be prepared, which leaves the run  *)
(* open.                                                                   *)
FinalizeNothing(f) ==
  /\ f \in finalizing
  /\ \/ ~ FinalizeClaims(f)
     \/ NextHop(f) # {} /\ FinalizeTarget(f) \in BadColumns
  /\ finalizing' = finalizing \ {f}
  /\ UNCHANGED <<cardVars, runVars, activeVars, chainHops, wake, passVars, launchVars,
                 killing, creating, retrying, probing, paneVars, crashes>>

KillPaneSilently(p) ==    \* mutant: nothing wakes the dispatcher
  /\ p \in killing
  /\ killing' = killing \ {p}
  /\ ClosePane(p)
  /\ UNCHANGED <<cardVars, runVars, activeVars, chainHops, wake, passVars, launchVars, finalizing,
                 creating, retrying, probing, nextPane, crashes>>

(* The close of the pane, then wake_dispatch.                              *)
KillPane(p) ==
  /\ p \in killing
  /\ killing' = killing \ {p}
  /\ ClosePane(p)
  /\ wake' = TRUE
  /\ UNCHANGED <<cardVars, runVars, activeVars, chainHops, passVars, launchVars, finalizing,
                 creating, retrying, probing, nextPane, crashes>>

(* The ticker's classification of a run past its deadline.                 *)
TimeoutClassify(r) ==
  /\ r \in Active
  /\ runColumn[r] \in TimedColumns
  /\ ~ (Present(activeCard[r]) /\ cardStatus[activeCard[r]] = "awaiting")
  /\ \A f \in finalizing : ~ (f.run = r /\ f.timeout)
  /\ CallFinalize(r, [outcome |-> "fail", kill |-> TRUE, transition |-> TRUE], TRUE)
  /\ UNCHANGED <<cardVars, runVars, activeVars, chainHops, wake, passVars, launchVars,
                 killing, creating, retrying, probing, paneVars, crashes>>

-----------------------------------------------------------------------------
(* The dispatcher (dispatch/pass.rs, dispatch/launch_plan.rs).  Passes are *)
(* serialized; the launches of one pass run concurrently.                  *)

(* One message is taken from the channel, which may hold more; the pass    *)
(* reads the started runs.                                                 *)
PassBegin ==
  /\ wake
  /\ pass = "idle"
  /\ pass' = "claiming"
  /\ wake' \in BOOLEAN
  /\ passBusy' = {RunSpace(r) : r \in StartedRuns}
  /\ passCount' = Cardinality(StartedRuns)
  /\ UNCHANGED <<cardVars, runVars, activeVars, chainHops, launchVars, requestVars, paneVars,
                 crashes>>

HeadsOfAnySpace ==    \* mutant: a busy space is not left out
  {r \in QueuedRuns : \A q \in QueuedRuns : q < r => RunSpace(q) # RunSpace(r)}
(* The oldest queued run of each space that is not busy.                   *)
Heads ==
  {r \in QueuedRuns : /\ RunSpace(r) \notin passBusy
                      /\ \A q \in QueuedRuns : q < r => RunSpace(q) # RunSpace(r)}

ClaimedOverCap ==    \* mutant: the started runs are not counted
  {r \in Heads : Cardinality({h \in Heads : h < r}) < Capacity}
ClaimedUnderCap ==    \* mutant: one slot is never given away
  {r \in Heads : Cardinality({h \in Heads : h < r}) + 1 < Capacity - passCount}

(* It reads the queue and claims heads, oldest first, up to the capacity.  *)
Claimed == {r \in Heads : Cardinality({h \in Heads : h < r}) < Capacity - passCount}

PassClaim ==
  /\ pass = "claiming"
  /\ launchCard' = [r \in RunIds |-> IF r \in Claimed THEN runCard[r] ELSE NoCard]
  /\ launchRow' = [r \in RunIds |-> IF r \in Claimed THEN runRow[r] ELSE 0]
  /\ pass' = "launching" /\ passBusy' = {} /\ passCount' = 0
  /\ UNCHANGED <<cardVars, runVars, activeVars, chainHops, wake, launchPane, requestVars,
                 paneVars, crashes>>

ClearLaunch(r) ==
  /\ launchCard' = [launchCard EXCEPT ![r] = NoCard]
  /\ launchRow' = [launchRow EXCEPT ![r] = 0]
  /\ launchPane' = [launchPane EXCEPT ![r] = NoPane]

(* fail_queued_run: the session, the workspace or the spawn failed.  The   *)
(* hop counter is left alone; a run that is no longer open is left alone.  *)
SpawnFail(r) ==
  /\ "spawn_fails" \in Ops
  /\ r \in Launching
  /\ launchPane[r] = NoPane
  /\ IF runState[r] \in Open
       THEN CloseRun(r, "fail", "failed") /\ wake' = TRUE
       ELSE UNCHANGED <<runVars, cardStatus, wake>>
  /\ ClearLaunch(r)
  /\ UNCHANGED <<cardColumn, cardSpace, cardArchived, boardArchived, activeVars, chainHops,
                 passVars, requestVars, paneVars, crashes>>

(* The spawn ends with a fresh pane, or with the live pane of an earlier   *)
(* run of the card that the new run resumes.  Closing the card's other     *)
(* idle panes before a fresh split is PaneDies.                            *)
ReusablePanes(c) ==
  livePanes \cap {runPane[q] : q \in {x \in RunIds : runCard[x] = c /\ runState[x] \in Ended}}

SpawnOk(r) ==
  /\ r \in Launching
  /\ launchPane[r] = NoPane
  /\ \/ /\ nextPane \in Panes
        /\ launchPane' = [launchPane EXCEPT ![r] = nextPane]
        /\ livePanes' = livePanes \cup {nextPane}
        /\ nextPane' = nextPane + 1
     \/ /\ \E p \in ReusablePanes(launchCard[r]) : launchPane' = [launchPane EXCEPT ![r] = p]
        /\ UNCHANGED paneVars
  /\ UNCHANGED <<cardVars, runVars, activeVars, chainHops, wake, passVars, launchCard, launchRow,
                 requestVars, crashes>>

StillQueuedUnchecked(r) == runState[r] # "none"    \* mutant: any row is promoted
StillQueued(r) == runState[r] = "queued"

(* register_spawned_run: promote while the row is queued, else close the   *)
(* pane.                                                                   *)
Register(r) ==
  /\ r \in Launching
  /\ launchPane[r] # NoPane
  /\ IF StillQueued(r)
       THEN /\ runState' = [runState EXCEPT ![r] = "started"]
            /\ runPane' = [runPane EXCEPT ![r] = launchPane[r]]
            /\ cardStatus' = [cardStatus EXCEPT ![runCard[r]] = "running"]
            /\ AddActive(r, runCard[r], launchPane[r])
            /\ UNCHANGED livePanes
       ELSE /\ ClosePane(launchPane[r])
            /\ UNCHANGED <<runState, runPane, cardStatus, activeVars>>
  /\ ClearLaunch(r)
  /\ UNCHANGED <<cardColumn, cardSpace, cardArchived, boardArchived, runCard, runColumn, runRow,
                 runChain, chainHops, wake, passVars, requestVars, nextPane, crashes>>

PassEnd ==
  /\ pass = "launching"
  /\ Launching = {}
  /\ pass' = "idle"
  /\ UNCHANGED <<cardVars, runVars, activeVars, chainHops, wake, passBusy, passCount,
                 launchVars, requestVars, paneVars, crashes>>

-----------------------------------------------------------------------------
(* Herdr and its watchers (watchers/herdr.rs, watchers/signals.rs).        *)

(* A pane is closed by its user or ends with its process; the external     *)
(* runtime may do so at any time.                                          *)
PaneDies(p) ==
  /\ "pane_dies" \in Ops
  /\ p \in livePanes
  /\ livePanes' = livePanes \ {p}
  /\ UNCHANGED <<cardVars, runVars, activeVars, chainHops, wake, passVars, launchVars,
                 requestVars, nextPane, crashes>>

(* A status event of pane p, possibly late, applied to the entry           *)
(* find_run_by_pane returns.  Leaving awaiting moves the deadline, perhaps *)
(* past the instant at which the ticker classified the run.                *)
Signal(p, signal) ==
  /\ "signal" \in Ops
  /\ \E r \in Active :
       /\ activePane[r] = p
       /\ activeCard[r] = runCard[r]
       /\ runState[r] = "started"
       /\ \E status \in DecideSignal(cardStatus[runCard[r]], signal),
             moved \in SUBSET {f \in finalizing : f.run = r /\ f.timeout} :
            /\ moved # {} => cardStatus[runCard[r]] = "awaiting" /\ status # "awaiting"
            /\ cardStatus' = [cardStatus EXCEPT ![runCard[r]] = status]
            /\ finalizing' = finalizing \ moved
  /\ UNCHANGED <<cardColumn, cardSpace, cardArchived, boardArchived, runVars, activeVars,
                 chainHops, wake, passVars, launchVars, killing, creating, retrying, probing,
                 paneVars, crashes>>

(* pane.exited, or a snapshot without the pane after a reconnect.          *)
PaneEvent(p) ==
  /\ "pane_event" \in Ops
  /\ p \notin livePanes
  /\ \E r \in Active :
       /\ activePane[r] = p
       /\ runState[r] \in Open
       /\ CallFinalize(r, [outcome |-> "fail", kill |-> FALSE, transition |-> FALSE], FALSE)
  /\ UNCHANGED <<cardVars, runVars, activeVars, chainHops, wake, passVars, launchVars,
                 killing, creating, retrying, probing, paneVars, crashes>>

-----------------------------------------------------------------------------
(* The reconciler (supervisor.rs), at startup and every 5 s: a started run *)
(* is read, probed without locks, compared with the store again and then   *)
(* applied.  The status an adopted pane reports is a Signal.               *)

ProbeStep(o, after) ==
  /\ probing' = (probing \ {o}) \cup after
  /\ UNCHANGED <<cardVars, runVars, chainHops, wake, passVars, launchVars, killing, creating,
                 retrying, paneVars, crashes>>

ProbeRead(r) ==
  /\ "reconcile" \in Ops
  /\ \A o \in probing : o.run # r
  /\ runState[r] = "started"
  /\ probing' = probing \cup
       {[run |-> r, card |-> runCard[r], pane |-> runPane[r], stage |-> "read"]}
  /\ UNCHANGED <<cardVars, runVars, activeVars, chainHops, wake, passVars, launchVars,
                 finalizing, killing, creating, retrying, paneVars, crashes>>

ProbeAnswer(o) ==
  /\ o \in probing
  /\ o.stage = "read"
  /\ ProbeStep(o, {[o EXCEPT !.stage = IF o.pane \in livePanes THEN "alive" ELSE "gone"]})
  /\ UNCHANGED <<activeVars, finalizing>>

(* Herdr does not answer, answers late or answers nonsense.                *)
ProbeUnknown(o) ==
  /\ o \in probing
  /\ o.stage = "read"
  /\ ProbeStep(o, {})
  /\ UNCHANGED <<activeVars, finalizing>>

SameActiveRun(o) ==    \* mutant: only a run in the active map is closed
  o.run \in Active /\ runState[o.run] = "started" /\ runPane[o.run] = o.pane
SameOpenRun(o) ==
  /\ runState[o.run] = "started"
  /\ runCard[o.run] = o.card
  /\ runPane[o.run] = o.pane

ProbeStale(o) ==
  /\ o \in probing
  /\ o.stage \in {"alive", "gone"}
  /\ ~ SameOpenRun(o)
  /\ ProbeStep(o, {})
  /\ UNCHANGED <<activeVars, finalizing>>

ProbeGone(o) ==
  /\ o \in probing
  /\ o.stage = "gone"
  /\ SameOpenRun(o)
  /\ CallFinalize(o.run, [outcome |-> "fail", kill |-> FALSE, transition |-> FALSE], FALSE)
  /\ ProbeStep(o, {})
  /\ UNCHANGED activeVars

ProbeAlive(o) ==
  /\ o \in probing
  /\ o.stage = "alive"
  /\ SameOpenRun(o)
  /\ ProbeStep(o, {[o EXCEPT !.stage = "adopt"]})
  /\ UNCHANGED <<activeVars, finalizing>>

(* The insert into Sched.active, under the scheduler lock alone.           *)
AdoptAlive(o) ==
  /\ o \in probing
  /\ o.stage = "adopt"
  /\ IF o.run \in Active
       THEN UNCHANGED activeVars
       ELSE AddActive(o.run, o.card, o.pane)
  /\ ProbeStep(o, {})
  /\ UNCHANGED finalizing

-----------------------------------------------------------------------------
(* The daemon stops at any point and starts again: the store and the panes *)
(* survive, everything else is rebuilt, and recovery wakes the dispatcher. *)
(* Adoption of the started runs is the reconciler's.                       *)
Crash ==
  /\ crashes < MaxCrashes
  /\ crashes' = crashes + 1
  /\ activeCard' = [r \in RunIds |-> NoCard]
  /\ activePane' = [r \in RunIds |-> NoPane]
  /\ chainHops' = [c \in Cards |-> 0]
  /\ wake' = TRUE
  /\ pass' = "idle" /\ passBusy' = {} /\ passCount' = 0
  /\ launchCard' = [r \in RunIds |-> NoCard]
  /\ launchRow' = [r \in RunIds |-> 0]
  /\ launchPane' = [r \in RunIds |-> NoPane]
  /\ finalizing' = {} /\ killing' = {} /\ creating' = {} /\ retrying' = {} /\ probing' = {}
  /\ UNCHANGED <<cardVars, runVars, paneVars>>

-----------------------------------------------------------------------------
CardNext ==
  \/ \E column \in Columns : CardCreateCheck(column)
  \/ \E c \in Cards, column \in Columns, space \in Spaces : CardCreate(c, column, space)
  \/ \E q \in creating : CreateRefused(q)
  \/ \E c \in Cards : CardDuplicateCheck(c)
  \/ \E source, c \in Cards : CardDuplicate(source, c)
  \/ \E c \in Cards, space \in Spaces : CardUpdate(c, space)
  \/ \E c \in Cards : CardDelete(c)
  \/ \E c \in Cards : CardArchive(c)
  \/ \E c \in Cards : CardRestore(c)
  \/ \E b \in Boards : BoardArchive(b)
  \/ \E b \in Boards : BoardRestore(b)
  \/ \E c \in Cards, column \in Columns : CardMove(c, column)

RequestNext ==
  \/ \E c \in Cards, supplied \in {{}} \cup {{r} : r \in RunIds},
        pane \in Panes \cup {NoPane}, outcome \in {"ok", "fail"} :
       RunDone(c, supplied, pane, outcome)
  \/ \E c \in Cards, r \in RunIds : RunPaneExited(c, r)
  \/ \E c \in Cards : RunCancel(c)
  \/ \E c \in Cards : RunCancelQueued(c)
  \/ \E c \in Cards : RunRetryCheck(c)
  \/ \E c \in Cards, column \in Columns : RunRetryEnqueue(c, column)
  \/ \E c \in Cards, column \in Columns : RunRetryRefused(c, column)

ProbeApply(o) == ProbeStale(o) \/ ProbeGone(o) \/ ProbeAlive(o) \/ AdoptAlive(o)

Finalize(f) == FinalizeRest(f) \/ FinalizeHop(f) \/ FinalizeNothing(f)

FinalizeNext ==
  \/ \E f \in finalizing : FinalizeRest(f)
  \/ \E f \in finalizing : FinalizeHop(f)
  \/ \E f \in finalizing : FinalizeNothing(f)
  \/ \E p \in killing : KillPane(p)
  \/ \E r \in RunIds : TimeoutClassify(r)

DispatchNext ==
  \/ PassBegin
  \/ PassClaim
  \/ \E r \in RunIds : SpawnFail(r)
  \/ \E r \in RunIds : SpawnOk(r)
  \/ \E r \in RunIds : Register(r)
  \/ PassEnd

WatchNext ==
  \/ \E p \in Panes : PaneDies(p)
  \/ \E p \in Panes, signal \in AgentSignal : Signal(p, signal)
  \/ \E p \in Panes : PaneEvent(p)
  \/ \E r \in RunIds : ProbeRead(r)
  \/ \E o \in probing : ProbeAnswer(o)
  \/ \E o \in probing : ProbeUnknown(o)
  \/ \E o \in probing : ProbeStale(o)
  \/ \E o \in probing : ProbeGone(o)
  \/ \E o \in probing : ProbeAlive(o)
  \/ \E o \in probing : AdoptAlive(o)

Next == CardNext \/ RequestNext \/ FinalizeNext \/ DispatchNext \/ WatchNext \/ Crash

Spec == Init /\ [][Next]_vars

(* The daemon's own threads keep going: the dispatcher loop, each launch,  *)
(* each handler past its check, the ticker and the 5 s reconciler.  Herdr  *)
(* answers a probe of every run from time to time.  Nothing obliges a      *)
(* client, an agent, a pane or the event stream to do anything.            *)
Fairness ==
  /\ WF_vars(PassBegin) /\ WF_vars(PassClaim) /\ WF_vars(PassEnd)
  /\ \A r \in RunIds : WF_vars(SpawnFail(r) \/ SpawnOk(r)) /\ WF_vars(Register(r))
  /\ \A r \in RunIds : WF_vars(\E f \in finalizing : f.run = r /\ Finalize(f))
  /\ WF_vars(\E p \in killing : KillPane(p))
  /\ WF_vars(\E c \in Cards, column \in Columns :
               RunRetryEnqueue(c, column) \/ RunRetryRefused(c, column))
  /\ \A r \in RunIds : WF_vars(TimeoutClassify(r)) /\ SF_vars(ProbeRead(r))
  /\ \A r \in RunIds : SF_vars(\E o \in probing : o.run = r /\ ProbeAnswer(o))
  /\ \A r \in RunIds : WF_vars(\E o \in probing : o.run = r /\ ProbeApply(o))

FairSpec == Spec /\ Fairness

-----------------------------------------------------------------------------
(***************************************************************************)
(* Properties.                                                             *)
(***************************************************************************)

(* Every variable keeps its type, and a row that exists refers to columns, *)
(* cards and panes that do.                                                *)
CardTypeOK ==
  /\ cardStatus \in [Cards -> CardStatus \cup {"absent"}]
  /\ cardColumn \in [Cards -> Columns \cup {NoColumn}]
  /\ \A c \in Cards : Present(c) => cardColumn[c] \in Columns
  /\ cardSpace \in [Cards -> Spaces]
  /\ cardArchived \subseteq Cards
  /\ \A c \in cardArchived : Present(c)
  /\ boardArchived \subseteq Boards

RunTypeOK ==
  /\ runState \in [RunIds -> RunState]
  /\ runCard \in [RunIds -> Cards \cup {NoCard}]
  /\ runColumn \in [RunIds -> Columns \cup {NoColumn}]
  /\ runPane \in [RunIds -> Panes \cup {NoPane}]
  /\ \A r \in RunIds : runState[r] # "none" => runCard[r] \in Cards /\ runColumn[r] \in Columns
  /\ \A r \in RunIds : runState[r] = "started" => runPane[r] \in Panes
  /\ runRow \in [RunIds -> Nat]
  /\ runChain \in [RunIds -> Nat]

SchedTypeOK ==
  /\ activeCard \in [RunIds -> Cards \cup {NoCard}]
  /\ activePane \in [RunIds -> Panes \cup {NoPane}]
  /\ \A r \in RunIds : activeCard[r] \in Cards => activePane[r] \in Panes
  /\ chainHops \in [Cards -> Nat]

DispatchTypeOK ==
  /\ wake \in BOOLEAN
  /\ pass \in {"idle", "claiming", "launching"}
  /\ passBusy \subseteq Spaces
  /\ passCount \in Nat
  /\ launchCard \in [RunIds -> Cards \cup {NoCard}]
  /\ launchRow \in [RunIds -> Nat]
  /\ launchPane \in [RunIds -> Panes \cup {NoPane}]

HandlerTypeOK ==
  /\ finalizing \subseteq FinalizeCall
  /\ killing \subseteq Panes
  /\ creating \subseteq CreateRequest
  /\ retrying \subseteq Cards \X Columns
  /\ probing \subseteq Observation

HerdrTypeOK ==
  /\ livePanes \subseteq Panes
  /\ nextPane \in Nat
  /\ crashes \in Nat

TypeOK ==
  /\ CardTypeOK
  /\ RunTypeOK
  /\ SchedTypeOK
  /\ DispatchTypeOK
  /\ HandlerTypeOK
  /\ HerdrTypeOK

(* A card has at most one open run, whatever requests, hops, retries and   *)
(* restarts interleave (the unique index idx_runs_one_open_per_card never  *)
(* has to refuse a commit).                                                *)
OneOpenRunPerCard ==
  \A q, r \in RunIds :
    runState[q] \in Open /\ runState[r] \in Open /\ runCard[q] = runCard[r] => q = r

(* A card's status and its open run agree in every committed state:        *)
(* queued, live and resting cards are exactly those with a queued run, a   *)
(* started run and no open run.                                            *)
StatusMatchesRun ==
  /\ \A r \in RunIds : runState[r] = "queued" => cardStatus[runCard[r]] = "queued"
  /\ \A r \in RunIds : runState[r] = "started" => cardStatus[runCard[r]] \in LiveStatus
  /\ \A c \in Cards : cardStatus[c] = "queued" =>
       \E r \in RunIds : runState[r] = "queued" /\ runCard[r] = c
  /\ \A c \in Cards : cardStatus[c] \in LiveStatus =>
       \E r \in RunIds : runState[r] = "started" /\ runCard[r] = c

(* Two started runs never share a space, although the pass reads the       *)
(* started runs and the queue under separate locks and promotes later.     *)
SpaceExclusive ==
  \A q, r \in StartedRuns : RunSpace(q) = RunSpace(r) => q = r

(* The started runs never exceed max_concurrent, launches of the current   *)
(* pass included.                                                          *)
ConcurrencyCap ==
  Cardinality(StartedRuns \cup {r \in QueuedRuns : r \in Launching}) <= Capacity

(* No chain of automatic hops is longer than MAX_AUTO_HOPS.                *)
HopsBounded ==
  \A r \in RunIds : runState[r] \in Open => runChain[r] <= MaxAutoHops

(* The in-memory counter never falls behind the chain it stands for while  *)
(* the daemon has not been restarted, and the chain is not longer than     *)
(* MAX_AUTO_HOPS.                                                          *)
HopCounterCovers ==
  crashes = 0 => \A r \in RunIds :
    runState[r] \in Open => runChain[r] <= chainHops[runCard[r]] /\ runChain[r] <= MaxAutoHops

(* A queued run that the next pass would launch is never left without a    *)
(* message in the channel or a finalizer that is about to send one.        *)
Dispatchable(r) ==
  /\ r \in QueuedRuns
  /\ Cardinality(StartedRuns) < Capacity
  /\ \A q \in StartedRuns : RunSpace(q) # RunSpace(r)

NoLostWake ==
  pass = "idle" /\ ~ wake /\ killing = {} => \A r \in RunIds : ~ Dispatchable(r)

(* While the daemon is up no pane is leaked: every pane it has obtained    *)
(* and that still exists is recorded on a run or belongs to a launch in    *)
(* flight, also when the run was cancelled or completed while its launch   *)
(* was under way.  A cancelled run leaves no live pane behind: it is       *)
(* closed, or its close is the next effect of the finalization.            *)
PanesAccounted ==
  crashes = 0 =>
    /\ \A p \in livePanes : \E r \in RunIds : runPane[r] = p \/ launchPane[r] = p
    /\ \A r \in RunIds : runState[r] = "cancelled" /\ runPane[r] \in livePanes =>
         runPane[r] \in killing

(* The store and the active map part in one way only.  As long as the      *)
(* daemon has not restarted, a started run has an entry with its card and  *)
(* its pane, so that a signal, a timeout or a cancel finds it.  A run that *)
(* ends takes its entry along, whoever ends it: the entry of a run that is *)
(* not started can only be the late insert of an adoption which found the  *)
(* run alive and lost the race to insert it.                               *)
StraysAreAdopted ==
  \A r \in Active' \ StartedRuns' :
    \/ r \in Active \ StartedRuns
    \/ \E o \in probing \ probing' : o.run = r /\ o.stage = "adopt"

ActiveAgrees ==
  /\ [](crashes = 0 => \A r \in StartedRuns :
          activeCard[r] = runCard[r] /\ activePane[r] = runPane[r])
  /\ [][StraysAreAdopted]_vars

(* An archived card has no open run.                                       *)
ArchivedCardQuiet == \A c \in cardArchived : OpenRuns(c) = {}

(* A board that is archived has no card with an open run.                  *)
ArchivedBoardQuiet ==
  \A c \in Cards : Present(c) /\ CardBoard(c) \in boardArchived => OpenRuns(c) = {}

(* The outcome of a closed run is final: a late exit event, timeout,       *)
(* cancel or duplicate board done never rewrites it.  The row only goes    *)
(* with its card.                                                          *)
EndedIsFinal ==
  [][\A r \in RunIds : runState[r] \in Ended =>
       runState'[r] = runState[r] \/ cardStatus'[runCard[r]] = "absent"]_vars

(* finalize_run_timeout closes a run only where the engine's own timeout   *)
(* rule would, with the plan the engine gives, although the daemon codes   *)
(* the rule by hand and classified the run earlier.                        *)
TimeoutAgreesWithEngine ==
  [][\A f \in finalizing :
       f.timeout /\ runState[f.run] \in Open /\ runState'[f.run] \in Ended /\ f \notin finalizing'
         => [outcome |-> f.outcome, kill |-> f.kill, transition |-> f.transition]
              \in DecideLifecycle(LifecycleFacts(f.run, {}), [kind |-> "timeout"])]_vars

(* register_spawned_run promotes the row its launch was claimed from, not  *)
(* another row that has been given the same id since.                      *)
RegistersClaimedRow ==
  [][\A r \in RunIds : runState[r] = "queued" /\ runState'[r] = "started" =>
       launchRow[r] = runRow[r]]_vars

(* Closing the pane of a finished run never closes the pane of a run that  *)
(* is running.                                                             *)
KillSparesStarted ==
  [][\A p \in killing : p \notin killing' /\ p \in livePanes =>
       \A r \in StartedRuns : runPane[r] # p]_vars

(* A run that heads the queue and that the free capacity and its free      *)
(* space would admit does not wait for ever: the channel, the pass or a    *)
(* finalizer about to wake the dispatcher gets to it.                      *)
HeadIsServed ==
  \A r \in RunIds :
    LET head == Dispatchable(r) /\ \A q \in QueuedRuns : q >= r IN head ~> ~ head

(* A started run whose pane is gone is closed in the end, also when its    *)
(* exit event was lost or the daemon was down when the pane ended.         *)
DeadPaneCloses ==
  \A r \in RunIds :
    (runState[r] = "started" /\ runPane[r] \notin livePanes) ~> runState[r] # "started"

(* A run does not stay past its timeout for ever, unless it awaits review. *)
Overdue(r) ==
  /\ runState[r] = "started"
  /\ r \in Active
  /\ runColumn[r] \in TimedColumns
  /\ cardStatus[runCard[r]] # "awaiting"

OverdueCloses == \A r \in RunIds : []<> ~ Overdue(r)
=============================================================================

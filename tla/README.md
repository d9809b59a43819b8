# A formal model of the board

`boardd` keeps a kanban board in SQLite and runs a coding agent, in a Herdr pane, for every card that
enters an automatic column; `board` is its terminal interface and command line, and a second mode of it
shows the issues of a Linear project.  This directory holds TLA+ modules that model the parts where
processes, requests and screens meet.  The centre is the life of a run, from the request that enqueues it
to the transaction that closes it and sends the card on; around it stand smaller modules, one for each
component with a state of its own.  TLC checks the modules on small instances; TLAPS proves theorems about
them for every value of the constants.

## The system

| part | state | operations | interacts with |
|---|---|---|---|
| decision engine (`board-core/src/engine`) | none | `decide_lifecycle`, `decide_signal`, `decide_transition`, `decide_auto_hop`, `decide_entry`, validations | called by the daemon under its locks |
| store (`board-core/src/db`, `schema.sql`) | cards, runs, columns, boards, projects, comments | one transaction per method | every handler, behind one mutex |
| scheduler state (`board-daemon/src/state.rs`) | `Sched.active`, `Sched.chain_hops`, the watch set, the dispatch channel | insert, remove, wake | every handler, behind a second mutex, always taken first |
| client requests (`ops/`) | none | create, duplicate, update, delete, archive, move; done, pane_exited, cancel, retry | store, scheduler, finalization, dispatch channel |
| dispatcher (`dispatch/pass.rs`, `launch_plan.rs`) | the claims of a pass | read started runs, read queue, claim, launch concurrently, register or fail | store, spawner, scheduler |
| finalization (`dispatch/finalize.rs`) | none | close a run, move its card, maybe enqueue the next run, then close the pane and wake the dispatcher | everything |
| watchers (`watchers/`) | the event stream, the ticker | status signals, exits, snapshots, timeouts | scheduler, finalization |
| reconciler and recovery (`supervisor.rs`, `recovery.rs`) | none | read started runs, probe Herdr, revalidate, adopt or close | store, Herdr, scheduler, finalization |
| spawner and placement (`spawner/`) | tabs of cards | spawn, reuse, kill | Herdr |
| agent launch (`spawner/herdr/managed.rs`) | retry budgets | start, wait, prompt, capture | Herdr, the agent |
| rescue (`rescue.rs`, `spawner/rescue.rs`) | none | find or open the pane of an ended run | the tab of the card, the store |
| comments, links, questions (`db/cards_comments.rs`, `db/linear_*.rs`) | rows and their history | one transaction per method | requests of people and agents, `watchers/expiry.rs` |
| migrations (`db/migrations.rs`) | the stamp and shape of the file | open | the file, a daemon that stops |
| Linear cache (`linear/cache.rs`, `ops/linear/native.rs`) | entries, fetches in flight, passes | read, invalidate, remove, refetch | Linear, the store |
| event stream (`server.rs`, `client/unix.rs`, `board-tui/src/runtime.rs`) | broadcast ring, outbound queues, signals | emit, forward, overflow, resubscribe | every board that is open |
| socket and lock (`lib.rs`, `singleton.rs`, `board-cli/src/daemon.rs`) | `<db>.lock`, the socket path | start, stop | commands, other daemons |
| board panes (`ops/panes.rs`, `engine/caller.rs`) | recorded panes, confirmed callers | open, close, resolve | Herdr sessions, agents |
| grouping (`engine/grouping.rs`) | none | tabs, columns, lanes of issues | the daemon and the Linear board |
| terminal interface (`board-tui/`) | screens, cursors, staged orders, forms, pages | keys, clicks, answers | the daemon, by request and event |

What is hard here:

* **two locks, many critical sections.**  A handler checks under the locks, releases them and commits
  under a second acquisition (`run.done` then `finalize_run`; `run.retry`; `card.create`; the pass's two
  reads; the reconciler around its probe).  Everything it read may be stale by then;
* **effects after the commit.**  The pane is closed and the dispatcher woken after the locks are gone;
* **spawns take seconds**, during which the run may be cancelled, completed, or deleted with its card;
* **several judges of one run**: `board done`, the exit of the pane, a cancel, a timeout, the reconciler;
* **a restart** keeps the store and the panes and forgets everything else, the hop counter included;
* **events get lost**: the stream is rebuilt after a disconnect, and only a snapshot or the reconciler
  notices what it missed; a board whose queue overflows is hung up on and must read everything again;
* **Herdr answers late, or not at all**: a lost answer does not say whether the pane was split, the agent
  started or the prompt typed, and people close and split panes in between;
* **one fetch serves many readers** of a Linear project while writes are reported, bindings change and
  the fetch itself may panic;
* **screens hold copies**: a place that was staged, an issue under the cursor, a form half filled in or a
  read that answers late meets a board that somebody else has changed;
* **ids are reused**: neither cards nor runs have `AUTOINCREMENT`.

`PROJECT.json` lists every such hazard at its line, with the properties that cover it or the reason why
none does.

What makes each part correct: the engine's timeout rule is the one the daemon applies; the store never
holds two open runs of a card, and a card's status agrees with its open run; the dispatcher respects the
queue order, one run per space and `max_concurrent`, and serves what it can; finalization rewrites no
closed run, stops a chain at `MAX_AUTO_HOPS` and leaves no pane of a cancelled run; watchers, reconciler
and recovery close every run whose pane is gone and every run that is overdue.  A placement closes only
panes that are the board's and spent, a rescue opens one pane, an agent is told its task once.  No reader of
the cache is stranded or served what a report has overtaken; no board at rest shows an old version.  Rows
that hold an order keep it, stay on their board, and keep their history; an upgrade can be resumed; one
daemon owns the socket.  A screen can always be left, a drop lands where it was seen to land, a form
changes only what was touched, the cursor stays on its issue.

## The modules

**`BoardEngine`** translates `engine/`: pure operators over constants for the columns.  A decision that
may refuse is the set of its answers, so that its callers write `\E plan \in DecideLifecycle(...)`.

**`RunLifecycle`** extends it with the state.

| variables | code |
|---|---|
| `cardStatus`, `cardColumn`, `cardSpace`, `cardArchived`, `boardArchived` | rows of `cards` and `boards` |
| `runState`, `runCard`, `runColumn`, `runPane` | rows of `runs`; the state folds `started_at`, `ended_at`, `outcome` |
| `activeCard`, `activePane`, `chainHops` | `Sched.active`, `Sched.chain_hops` |
| `wake` | the dispatch channel, empty or not: a pass reads everything, so further messages only repeat it |
| `pass`, `passBusy`, `passCount`, `launchCard`, `launchRow`, `launchPane` | the locals of `dispatch_pass` and of each `spawn_one` in its `JoinSet` |
| `finalizing`, `killing`, `creating`, `retrying`, `probing` | handlers between two critical sections, with what they read |
| `livePanes`, `nextPane` | Herdr (external) |
| `runRow`, `runChain` | history, read by properties only: rows inserted under an id, hops since a human enqueue |

One action is one critical section together with the effects that follow it before the next one.  A
request that is refused changes nothing and is no action.  The kill and the wake-up after a finalization
are an action of their own, `KillPane`, because other threads run in between; without a kill nothing
happens between commit and wake that another thread could observe apart from the missing wake, and a
pass that has not begun cannot tell the difference.

`FinalizeRest`, `FinalizeHop` and `FinalizeNothing` are the three ways through `finalize_run_inner`: the
run closes and the card rests; it closes and its next run is enqueued in the same transaction; or an
early return writes nothing (closed already, a timeout that no longer holds, settings of the next column
that are refused).

The reconciler is `ProbeRead` (store), `ProbeAnswer` or `ProbeUnknown` (no lock), `ProbeStale`,
`ProbeGone`, `ProbeAlive` (revalidation), `AdoptAlive` (insert, under a second acquisition).  Startup
recovery and the 5 s loop are the same actions, and several runs may be between two of them at once.

**`RunProtocol`** is the promise, without the machinery: runs are submitted, start, close or hop in a
queue per space, oldest first, one at a time, at most `Capacity` over all spaces; a card changes its space
or goes only while it has no open run.  It has three variables and knows no dispatcher, launch, pane,
scheduler, request in flight or restart, and it translates no code: `RunLifecycle` is compared with it.

**`RunRefinement`** instantiates it with `runState`, `runCard` and `cardSpace`, and states
`ImplementsRunProtocol`.  What makes it more than a renaming is `Start`: the abstract step looks at the
queue, the started runs and the capacity at once, while the daemon reads them in two critical sections,
spawns for seconds and then promotes in a third, looking only at the row itself.

**`MCRunLifecycle`** gives TLC a board: `todo` (manual), `work` and `review` (automatic, success leads
from one to the other and back), and `side`, a column of another board whose success column is `work`.

### Tables of the store

| module | variables | actions | code |
|---|---|---|---|
| `BoardLayout` | `cols`, `stock`, `ran`: columns and cards with their positions and targets, the runs that pin a column | create, update, reorder, delete a column; create, duplicate, delete, move, transfer a card | `db/boards_columns.rs`, `db/cards_comments.rs` |
| `Selection` | `proj`, `bds`, `selection`, `chosen`, recency lists, `asked` | open, select, archive, restore, create, rename; a selection is a check and a write | `db/projects.rs`, `ops/boards.rs`, `ops/projects.rs` |
| `Migrations` | `stamp`, `shape`, `step` | open, one action per step of the chain, stamp, stop | `db/migrations.rs` |
| `Comments` | `stint`, `credential`, `remarks`, `snapshots` | a run starts and ends in a terminal; add, edit, delete by a person or an agent; deletion of the card | `db/cards_comments.rs`, `ops/comments.rs` |
| `LinearLinks` | `spaceBound`, `held`, `marks`, `notes`, `activity`, `seen` | bind, unbind, mark, clear, suggest, note, record, import | `db/linear_writes.rs`, `db/linear_state.rs`, `import.rs` |
| `ShowRequests` | `time`, `requests`, `drawn` | ask, withdraw, accept, dismiss, expire, draw | `db/linear_writes.rs`, `watchers/expiry.rs` |

An action is one transaction; where a request checks under one acquisition of the lock and writes under
the next (`Selection`), it is two.  In `BoardLayout` the deletion of a card renumbers in a
second transaction, and a column created or updated with a position takes it in one: the action may stop after the first.
`LinearLinks` and `Comments` give out row ids as SQLite does, the newest one again after a deletion.

### Screens

| module | variables | actions | code |
|---|---|---|---|
| `BoardOrder` | `served` (the daemon's board), `app` (snapshot, selection, filter, staged move) | cursor, filter, the modes that move a column or a card, drags, refetch, other clients' changes | `app/nav.rs`, `board.rs`, `move_column.rs`, `reorder_card.rs`, `drag.rs` |
| `BoardScreens` | `sheets`: screen, picker, confirmation, form, switcher | a key in each sheet, with the success and failure of the call it leads to | `app/picker.rs`, `app/mod.rs`, `driver/dispatch.rs`, `driver/load.rs` |
| `Grouping` | none: operators | `group_board`, held against a definition by sets | `engine/grouping.rs` |
| `LinearBoard` | `issues`, `config`, `view`, `board` | cursor keys, tabs, clicks, a new snapshot, a new mapping, an import | `app/linear.rs`, `app/linear_cursor.rs`, `db/linear_state.rs` |
| `CardForm` | `stored`, `form`, `touched` | open, one action per selector or text, failed fetches, save, the daemon's merge and validation | `forms/`, `capability.rs`, `engine/validation.rs` |
| `IssuePage` | `page`, `doc`, `walk`, `loading`, `running` | open, follow a link, step back, leave, retry, the landing of each read | `app/linear.rs`, `app/session.rs` |

`Sublists` has what `BoardOrder` and `CardForm` make of a `filter` over a list: the elements that lie in a set, in their
order, by rank and without recursion.

### Conversations between processes

| module | variables | actions | code |
|---|---|---|---|
| `LinearCache` | `entry`, `call` (of each reader and the refetch thread), `pass`, `binding` | read: fresh, wait, fetch, finish, unwind; report, schedule, refetch, lose a pass, remove | `linear/cache.rs`, `ops/linear/native.rs` |
| `BoardFeed` | `value`, `ring`, `outbox`, `client`, `signals`, `read`, `shown` | write, emit, forward, overflow, subscribe, deliver, drain, answer, crash | `server.rs`, `client/unix.rs`, `runtime.rs`, `driver/` |
| `CardTabs` | `panes`, `rows`, `registry`, `job` | plan, make a workspace, lock, look, choose, reclaim, split, start, register, abandon, against users, agents and restarts | `dispatch/space.rs`, `spawner/placement/`, `spawner/card_tabs.rs`, `dispatch/ownership.rs`, `rescue.rs`, `spawner/rescue.rs` |
| `PaneWatch` | `active`, `refresh`, `watched`, `sock`, `exits` | register, finalize, the two halves of `refresh_watch`, subscribe, snapshot, poll, break | `state.rs`, `watchers/herdr.rs`, `events/stream.rs` |
| `DaemonSocket` | `daemon`, `lock`, `path`, `inode`, `command` | acquire, clear, bind, stop, crash; start, ask, wait, connect again, compare twice, unlink, look again | `lib.rs`, `singleton.rs`, `board-cli/src/daemon.rs` |
| `ManagedLaunch` | `phase`, `budget`, `file`, `agent`, `told`, `captured` | place, start, waits, prompt, capture, with refused and lost answers | `spawner/herdr/managed.rs` |
| `BoardPanes` | `live`, `table`, `serial`, `request`, `remembered` | open (check, open, record), close, resolve a caller, stop of the daemon | `ops/panes.rs`, `engine/caller.rs` |

These modules share no state: in the code they meet through a request or an event whose content the other
side does not depend on, or through rows that a second module would only repeat.  The run modules, where
components do share state, are one state machine.

**`MCStores`** and **`MCConversations`** check them together: the variable `world` names the component a
behaviour belongs to, all others keep their initial state, and each property is the one its module states.

**Proof modules**: `RunLifecycleProofs`, `RunSchedulerProofs` (about `RunLifecycle`), `RunRefinementProofs`
(about the dispatcher); `DaemonProofs` (about `LinearCache`, `DaemonSocket`, `IssuePage`,
`BoardFeed`), `PaneProofs` (`PaneWatch`, `ManagedLaunch`, `CardTabs`, `BoardPanes`), `TableProofs` (`BoardLayout`, `Comments`,
`Selection`, `Migrations`, `LinearLinks`, `ShowRequests`), `InterfaceProofs` (`BoardScreens`, `BoardOrder`, `CardForm`);
`NaturalOrder` holds what these use of the least and the greatest of a set of numbers and of its ranks.

### Abstractions

* A position, a text, a comment, a link or an argv is left out: no transition depends on it.
* Settings that `prepare_enqueue_values` refuses are a set of columns, `BadColumns`.
* Time is left out: a timed run in the active map may be found overdue whenever its card does not await
  review, and a signal that ends the review may move the deadline past the classification of a timeout
  that is on its way (`Signal` then drops the call).
* A `SpaceKey` is a model value; a `CardUpdate` may change it while the card has no open run.
* Panes are numbered and never come back; a spawn takes a fresh one or a live one of an earlier run of
  the same card.  The code reuses a pane for a resumed conversation and not for one a retry forks off; the
  model allows both, which only adds behaviours, and the one violation run that needs a reuse has no retry.
* A kill succeeds.  Panes die whenever they like, which also stands for the daemon closing old child
  panes of a card before a fresh split.
* Projects are folded into boards: an archived project freezes what an archived board freezes.
* `board done` gives `ok` or `fail`, as the protocol document says.
* A crash stops between two actions; a transaction is atomic.
* In the modules besides: what a read returns is a version number (`LinearCache`, `BoardFeed`, `IssuePage`);
  a pane stands for what runs in it (`PaneWatch`); waits and back-offs end when they like; a text is one of
  a few values, and names, labels and geometry are left out.  The catalogs, mappings, views and stored
  cards of `CardForm` and `LinearBoard` are chosen in `MCStores` so that every kind of answer occurs:
  a model that is offered or not, efforts by model, a closed list, a workspace that is gone, labels of a
  group and outside it, a grouping that cannot be drawn.
* In `CardTabs` every workspace carries the label of the card's space, and the first one in Herdr's list is the
  oldest; Herdr's refusal of an agent name that is taken, which may stop some second launches, is left out, so
  that the model has more behaviours than the code.  A pane or a workspace that a call names and that is gone is an
  error of that call.
* In `DaemonSocket` a file is the daemon that bound it, and its inode one that the file system chooses, an inode that
  an unlinked file had included.
* `spawn_one` has early exits by `?` that leave the run queued without a wake-up of their own; a launch of the
  model registers or fails.
* A driver runs the calls of a key to the end before the next key, as the code does; a refetch brings the
  whole snapshot at once.

## The runs

`Ops` names the requests and events of an instance, so that a run can concentrate on one question.
`MaxRows`, `MaxRuns`, `MaxCards`, `MaxPanes`, `MaxBorn`, `MaxCrashes` and `MaxPending` bound ids, panes, restarts
and client calls in flight; the daemon's own calls (timeouts, probes, launches) are not bounded.  The
runs stop when they have used up their ids, so deadlock is not checked: an idle board with nothing to
do is a legitimate end.  `MaxAutoHops` is 1 instead of 8: a chain needs two hops to pass it, and the code
compares with the constant only.

| run | instance | question |
|---|---|---|
| `Core` | two cards of one space in two columns that feed each other, 3 runs | `OneOpenRunPerCard`, `StatusMatchesRun`, `SpaceExclusive`, `HopCounterCovers`, `NoLostWake`, `PanesAccounted` |
| `Races` | one card, a timed column, two boards, archives, signals, dying panes | `ArchivedCardQuiet`, `ArchivedBoardQuiet`; `TimeoutAgreesWithEngine`: the rule coded by hand in the daemon is the engine's |
| `Restart` | two cards, two spaces, reused ids, one restart, the reconciler | `TypeOK`, `ConcurrencyCap`, `ImplementsRunProtocol` |
| `Serve` | two cards, one slot, a restart, dying panes; fair | `HeadIsServed`, `DeadPaneCloses` |
| `Overdue` | one timed card, signals, cancels, retries, the reconciler, a restart; fair | `OverdueCloses`; `ActiveAgrees`: what a late adoption may put into the active map and nothing else may |
| `Stores` | the tables and the screens drawn from them, one `world` at a time | see below |
| `Conversations` | the modules between processes, one `world` at a time | see below |

| property of `Stores` | what it says, and the smallest instance that can break it |
|---|---|
| `TablesTypeOK` | types of every component, distinct positions, a file that is served has every step of its upgrade |
| `BoardBoundary` | a card's column and a column's targets lie on its board: two boards, three columns, one target, two cards |
| `SelectedResolves` | the selected project and board exist and are not archived, unless an archive overtook the check of a selection: two projects, three boards, two clients; one board (`Renamable`) loses and takes the name `main` |
| `GuardedOpenRecovers` | an upgrade from a version whose steps are guarded opens after two stops anywhere |
| `HistoryEndsInComment` | the last snapshot of a comment is its text: two cards, two terminals, two runs |
| `OneHolder` | two worktrees never hold one issue: binds, reported writes and imports |
| `OnePendingPerOwner` | an agent has one question about an issue: an expiry before the sweep, an ask again |
| `CommitKeepsOrder` | a staged card or column lands between the neighbours the person saw, unless another client or an active filter intervened: three cards, two columns |
| `EscapesToBoard` | four times Esc leads from every sheet to the board, whatever covers what |
| `GroupsAsDefined` | columns, rows, cells and subgroups are those of a definition by sets, for three issues and every kind of content |
| `CursorKept` | a snapshot or a regrouping leaves the cursor on its issue while that is drawn, and a tab remembers its own |
| `OnlyTouchedChange` | saving a form changes only fields the person touched and those that depend on them, except values that an answer of the harness excludes, an empty workspace and the directory of an open one: every catalog, served or not, and two keys |

| property of `Conversations` | what it says |
|---|---|
| `NoStrandedWaiter`, `ReadsSeeReports`, `RefetchFollowsReport` | a waiter of the cache has a fetch in flight; a read holds every write reported before it; a report has a pass ahead unless the refetch panics |
| `NoWriteUnseen` | a board at rest and connected shows the last write, with overflows, lags, crashes and late reads; a Linear board that lagged is excepted |
| `NoStuckPage`, `NoOlderCopy` | an issue page that waits has a read under way or can be asked again, and never shows an older reading after a newer |
| `OneRescuePane`, `ClosesOnlySpent` | one pane for a rescued run in a workspace, and a second workspace only if one was made beside another; nothing is closed but panes of the board whose runs have ended, and a workspace that its rescue abandons |
| `NoMissedExit` | the exit of a watched pane is delivered or found by a snapshot |
| `ToldOnce` | no agent is told its task or its instructions twice |
| `OneBoardPane` | a context has one board beside its agents, except one whose request was cut off before it recorded it |
| `ServedPathIsMine` | the path of a daemon that listens is removed by nobody but a stop command between its last look and its unlink, and not if that look saw this file under another inode than the stale one |

Bounds.  Three runs are the least that show a hop beside another card's run, and two cards the least that
compete for a space; one client call in flight beside the daemon's own, which are not bounded, is the least in
which a late one meets a closed run, and the inductive proof covers any number.  In `Stores` the bounds are those at which each mutant in
`PROJECT.json` is caught, with one more where the time allows; worktrees are interchangeable there, and
so are clients, and both are declared symmetric.  In `Conversations` one reader beside the refetch thread and three
writes or changes of the binding show every overlap of a fetch with a report; two writes fill a queue of one and overrun a ring of one; two connections
that ask for a rescue meet each other and a launch, and five panes are two workspaces with a shell and a pane each and
one that was there before; two daemons let one bind between the check of a stop and its unlink.  Connections and
agents are interchangeable there.
`Stores` has 637,000 distinct states and `Conversations` 1,507,000 (some four minutes each), `Overdue` 173,000
(two to three minutes); `Core` takes less than a minute.

What the code does not keep is excepted in the property itself, and each exception is reached in its run.
`ActiveAgrees`: `adopt_alive` revalidates a run and inserts it under a second acquisition, so that a run that ends in
between stays in the active map.  `SelectedResolves`: an archive between the check of `board_select` and its write.
`RefetchFollowsReport`: a refetch that panics.  `NoWriteUnseen`: a Linear board that lagged.  `OneRescuePane` and
`ClosesOnlySpent`: a workspace made twice, and one that is abandoned.  `ServedPathIsMine`: a stop command past its last
look.  Other properties hold in the instances named only: `Core` has one daemon lifetime, since a restart between a
commit and its kill leaves the pane of a cancelled run; `Restart` deletes cards and has neither cancels nor
completions, which the theorem `DaemonImplementsProtocol` covers without deletions; `NoMissedExit` speaks of a pane's
first run and of streams that did not break, while `DeadPaneCloses` holds with every exit lost; `CommitKeepsOrder`
leaves out what another client changes after the last refresh.  `ReadsSeeReports` ends at the first removal of an
entry.

### Fairness

The dispatcher loop, every launch, every handler past its check, the ticker and the kill after a commit
are threads of the daemon that nothing blocks for ever: weak fairness.  A launch is fair because the
spawner's calls have time-outs and its retries are counted.  The reconciler runs every 5 s and Herdr
answers a probe of each run from time to time: strong fairness of `ProbeRead` and `ProbeAnswer` for each
run, since a probe may also remain unanswered.  No client, agent, pane or event owes anything, so that
`DeadPaneCloses` and `HeadIsServed` hold with every exit event lost.

### Disagreements

Five runs end in a violation; each shows a behaviour of the code that a sentence of the repository
denies.  `PROJECT.json` quotes the sentences.

* `HopsAcrossRestart`: the hop counter lives in memory, so a restart inside a chain starts the count again.
* `OverdueAbort`: a timed-out run whose `on_fail` column has settings that are refused is never closed and
  its pane never killed; the ticker repeats the attempt for ever.
* `RowReuse`: the launch of a deleted card's run promotes the row that was given its id since.
* `ArchiveRace`: `card.create` enqueues on a board that was archived after its check.
* `KillSuccessor`: the pane of a cancelled run is closed after the commit, when the next run of the card
  may already work in it.

Smaller disagreements were met while modelling and have no run of their own; the models follow the code.

* Esc in a project or board picker that was reached by drilling down, or after `v`, returns to a picker
  screen whose picker is gone: it is blank until the next key (`EscapesToBoard` admits
  the extra key).
* A staged place is an index into the filtered list, while the daemon counts all cards of the column, the
  archived ones included; a card that another client has moved is pulled back by Enter, although
  `reorder_card.rs` says that Enter is never a change of column.  The highlight of a staged card drifts when its
  column shrinks or grows meanwhile.
* The chips of the mouse in the mode that places a card: the one drawn as up sends `j`, the one drawn as down
  `k` (`mouse.rs:528`, `overlays.rs:398`).
* Forms: saving a card that runs is refused even if only its title changed, since the form also sends the
  locked fields; opening and saving a column clears a permission override without a harness override; a card
  whose workspace is empty gets the first one that is open; a harness of the configuration loses its
  permission; a failed fetch of the target columns of a move leaves the old columns under the new board.
* A card of an open workspace may name a directory (`space_cwd`, `docs/protocol.md:237`, used at
  `dispatch/space.rs:49`).  The edit form hides it then and a save clears it (`forms/submit.rs:75`, `260`), although
  `docs/protocol.md:213` says that an edit submits the current value unless the user clears it.  `OnlyTouchedChange`
  excepts it: the proof of it would not go through otherwise, and TLC then finds the cleared directory.
* Forms, confirmations and boards hold row ids, which SQLite gives out again: accepting a suggestion may clear a
  newer mark.  An imported link does not clear the suggestions that name its worktree.
* `docs/protocol.md:436-438` says that a rescue takes the same allocation lock as a dispatch, so that two "cannot each
  split a pane or each create a second `card-<id>` tab", and `spawner/rescue.rs:163` calls the rescue idempotent.  The lock is
  keyed by the workspace, and when the recorded one is gone each request may make a workspace (`dispatch/space.rs:91`) before
  it takes a lock: two requests that both find none make two, and the run gets a pane in each.  `OneRescuePane`
  excepts a second workspace that was made beside the first; TLC reaches it.
* `spawner/rescue.rs:452-458` says of the workspace that an abandoned rescue made that "everything in it is ours" and that its
  guard keeps a concurrent placement from being torn down.  A launch that found the workspace by its label, even a run that
  has started, and a pane that the user opened there are closed with it.  `ClosesOnlySpent` excepts that one step;
  TLC reaches it.
* `linear/cache.rs:216` promises a call that lands while `work` runs one more pass.  When that `work` panics, `ClearPass`
  (`cache.rs:285`) removes the mark with its `again`, and the report waits for the next one.
* `docs/protocol.md:44-45` says that a lag of the broadcast becomes a coarse `board_changed` refresh "rather than silently losing
  the refresh signal".  A Linear board ignores `board_changed` (`driver/linear.rs:531`): what it shows stays old
  until the next event of that topic or a new subscription.
* `ops/boards.rs:76` says that archived boards and projects cannot be selected.  The check and the write of a selection
  are two acquisitions of the lock, and an archive between them leaves the archived one selected.
* `board-cli/src/daemon.rs:111` and `140` say that live listeners and replacements of the path are never unlinked.  A daemon that binds
  between the last comparison and the unlink loses its path, and so does one whose file got the inode of the stale one
  before it, which no comparison can tell; the daemon keeps its lock, so that no new one can start until it ends.
* `caller_resolve` skips a session that does not answer, so that a pane id that two sessions use resolves to
  the other's pane.

## The proofs

### The life of a run

`RunLifecycleProofs` assumes only `EngineAssumption` and `LifecycleAssumption`, which type the constants:
any finite number of cards, runs, panes and restarts, any columns and boards, any set of operations.

`IInv` joins the type invariant to `OneOpenRunPerCard` and `StatusMatchesRun`.  Neither of the two is
inductive alone.  A close puts THE card at rest, which is right only if no other run of it is open; a
move decides on the card's status whether it may enqueue, which is right only if the status tells whether
a run is open; and a new card's id owns no run only because the status of a missing card matches none.
The types are part of it because what a handler, a launch or a probe carries across its gap is written
later: it must be a run, a pane and a plan even when it is stale.

The step is proved by group of actions (`CardNextStep`, `RequestNextStep`, `FinalizeNextStep`,
`DispatchNextStep`, `WatchNextStep`, `CrashStep`), one step per action; what happens in the store is a
lemma per kind of transaction (`CloseRunStore`, `EnqueueStore`, `FinalizeHopStore`, `RegisterStore`,
`SignalStore`, `NewCardStore`).  From it follow

* `TypeCorrect`, `OneOpenRun`, `StatusAgrees`: the invariants of the runs, for every instance;
* `ArchivedCardsQuiet` (`ArchivedCardQuiet`): by a second induction beside `IInv`;
* `ArchivedBoardsQuiet` (`ArchivedBoardQuiet`), for requests other than the creation of a card: a board is archived in the transaction that
  looks for open runs on it, and every enqueue asks for a board that is not archived.  `card.create` asks
  before it awaits (the run `ArchiveRace`), so the theorem assumes `"create" \notin Ops`;
* `TimeoutsAgree` (`TimeoutAgreesWithEngine`): `finalize_run_timeout` sends no plan of its own, it closes the run where and as the
  engine would, because it reads the card and the run in one critical section with the close;
* `LaunchesKeepTheirRow`: a launch promotes the row it was claimed from.  It assumes `"delete" \notin Ops`;
  with deletions the run `RowReuse` refutes it;
* `OutcomesFinal`: no step rewrites the outcome of a closed run (`EndedIsFinal`).

(`EndedIsFinal` is no run's property of its own: `ImplementsRunProtocol` already refutes what
would break it on the instances.  What `LaunchesKeepTheirRow` states is a property of the violation run alone.)

### The queue it implements

`RunRefinementProofs` proves, under the one further assumption that no card is deleted
(`"delete" \notin Ops`),

* `DaemonImplementsProtocol`: `Spec => ImplementsRunProtocol`;
* `SpacesExclusive` and `CapRespected`: the invariants `SpaceExclusive` and `ConcurrencyCap`;
* `LaunchesStayValid`: the invariant `LaunchInv` the three rest on.

`LaunchInv` says what stays true between the reads of a pass and its last promotion: no launch is in
flight outside the launching phase; a launch's row exists; while it is queued its space has no started
run and no older queued one; between the two reads every started run lies in a space the pass holds
for busy and there are no more of them than it counted; and started runs plus launches fit the capacity.
Every step but those of the dispatcher is `Quiet`: it starts nothing, moves no open run to another space
and adds rows younger than all others, and one lemma shows that whatever the pass knows survives such a
step.  The claim needs counting: `OldestFirstBound` maps each claimed head to the number of older ones,
which is an injection into the free slots.

The assumption is needed: the run `RowReuse` shows a launch whose row has been deleted and whose id
belongs to another card's run, perhaps of another space, which it then promotes.  `Restart` checks the
protocol with deletions in an instance without cancels, where the row of a launch in flight cannot go.

### The scheduler's memory, the panes and the wake-ups

`RunSchedulerProofs` adds three inductions beside `IInv`, each about one daemon lifetime (`crashes = 0`):

* `HopsCounted` (`HopCounterCovers`): `HopInv` says that the chain of every open run is at most the counter of
  its card, and within the limit.  It is inductive because a hop sets the counter with the row it inserts, a human enqueue
  starts both at zero, and a counter is reset otherwise only when the card's run closes without a successor;
* `ChainsBounded`: no chain of automatic hops is longer than `MAX_AUTO_HOPS`, which `HopInv` implies.  It
  assumes `MaxCrashes = 0`: the counters are not stored, and the run `HopsAcrossRestart` shows a chain that a
  restart lets grow past the limit;
* `ActiveMapAgrees` (`ActiveAgrees`): a started run is active, with its card and pane, because the map and the store
  are written in one critical section; no step but the late insert of an adoption puts in an entry of another run.
  `ActiveInv` adds that a launch in flight never belongs to a started run, so that its failure cannot
  close one.  No operation is excluded;
* `PanesNotLeaked` (`PanesAccounted`, without deletions): `PaneInv` joins
  it to what the two halves rest on: a cancel on its way will kill, and a pane in a row or a launch was obtained
  before the next number.

The second part of `RunRefinementProofs` proves `NoWakeLost` (`NoLostWake`) with deletions, probes and restarts included.  `WakeInv`
says: in a state in which nothing asks, or is about to ask, for a pass (`Settled`), a pass between its reads
knows no space for busy and counts no run that is not started, and at any other time every queued run is
`Served`: its space is held by a started or claimed run, or such runs fill the capacity.  Whatever enqueues or
closes a run makes the state unsettled; whatever does neither leaves spaces and slots as they were.  That each
space with a queued run has an oldest one rests on the library's well-founded orderings.

### What the daemon shares: `DaemonProofs`

* The Linear read, for any readers, projects, clock and number of writes: `NobodyStranded`: a waiter
  needs the in-flight mark, and the mark a fetch.  `ReportsAreSeen`: until the entry is removed there is one
  fetch at a time; a fetch that started after the last invalidation saw every reported write, an entry
  that would count as fresh holds them, and a report dates the entry so that a fetch it has overtaken cannot
  make it fresh.  `ReportsAreFollowed`: the debouncer's mark alone is inductive, and only the step that drops it
  while a refetch unwinds loses a report.  The first two assume that
  the refetch thread is not one of the readers.
* The socket, `ListeningPathKept`: from the lock to the exit a process is the only one there
  (`HolderOnly`), so that no other daemon can clear the path while it listens.  A stop command comes to its unlink only if
  the file at which its connect failed was of a daemon that will not listen again (`Silent`), and if its last look saw a file
  with the inode it read at first (`ShapedCommand`).
* The way from a write to the screen, `WritesAreSeen` (`NoWriteUnseen`), for any number of writes, crashes,
  reconnections and queue sizes.  `FeedInv` names everything that may still bring a topic to the screen
  (`Coming`): an event not yet broadcast, in the ring or in the outbox; a signal; a read that is asked for,
  queued, or has answered with the value of now; a stream that is not up; a lag, which stands for
  `board_changed`.  Every step either keeps one of these or replaces it by the next.  A read that answered
  with less than what was written is not among them: it is the write's own event that is.  `ReadsFit` adds
  that a document never lands behind one that is newer, without which a landing could undo what the screen
  has.  The Linear board ignores the `board_changed` that stands for a lag, so for it a topic may also be lost
  to a lag of the present subscription (`overrun`).
* The page of an issue, for any issues, walks and number of reads: `PagesNotStuck` (`NoStuckPage`) and
  `CopiesOnlyNewer` (`NoOlderCopy`).  `PageInv`: the read that is waited for is the last one that was started,
  it is newer than what is shown and than every document on the walk, and a page on the walk was left with
  the document of its own issue.  `NoIssue` must not be an issue.

### Panes and agents: `PaneProofs`

* `ExitsNotMissed` (`NoMissedExit`), for any number of panes, sockets and tasks: once the subscription stands, the exit of a
  followed pane under its first run is in the snapshot that is being applied or in the stream (`ExitKnown`), because the
  subscription comes before the snapshot.  The property speaks of a pane's first run and of
  streams that did not break, as the code does: a stream that breaks is opened again and reconciled.
* `NeverToldTwice` (`ToldOnce`), for any number of retries and refused or lost answers: what the agent was told
  is fixed by the phase the launch is in (`ToldSoFar`), because only a refused prompt is sent again.
* `RescuedOnce` (`OneRescuePane`), for any connections: whoever looks for the marker and then places a pane
  holds the lock of the workspace in between, and a pane never changes its workspace.  Two workspaces carry a marker only if
  `doubled`: all panes lie in one workspace (`OneSpace`) until a request that had found none makes another.
* `ClosesSpentOnly` (`ClosesOnlySpent`), for any connections, runs and panes: a placement goes by ids that it read
  before it had the lock.  Every id the board keeps names a pane the board made, because an id is never given
  out twice; and the ids of shells and rescues (anchors in the registry, in rows and in
  placements under way, panes with a marker) are never those of runs, whatever is closed or split meanwhile.
  Shells and rescues may then be closed at any time, panes of runs only by the dispatcher, which launches
  while no run of the card is open.  The abandonment of a workspace is the exception, as in the code.  The
  theorem assumes that the dispatcher is not one of the focusers.
* `OneBoardBeside` (`OneBoardPane`), for any sessions, agents and contexts: `BOARD_PANES` admits one request at a time
  (`OneServed`); the request that has found no live record knows that its context has no row, and that the pane it opened is
  in none, until it records it (`RequestShaped`), because the others wait and people only close panes; a row is
  removed only when its pane is gone, and no later pane has its id (`GivenOut`).  `Nil` is neither an agent nor a row.

### The tables: `TableProofs`

* `OneHolderAlways` (`OneHolder`): every way to bind a worktree checks the other holders in the
  transaction that binds.
* `OneQuestionEach` and `AnswersFinal`, for any time to live: an owner's pending row is refreshed, and
  a row is added only when none is pending; a closed row is never written again.
* `BoundaryKept` (`BoardBoundary`), for any number of columns, cards and moves: every transaction checks the
  board of what it writes, and a deletion clears the targets and rehomes the cards with the row.
* `HistoryKept` (`HistoryEndsInComment`), for any comments and edits: each comment has a last snapshot, which agrees
  with it, and no snapshot of it before that is marked deleted; snapshots name comments that exist, so that a
  comment whose id was given out before starts without a history.
* `ContextResolves` (`SelectedResolves`), for any number of clients: a request is let through when what it checks holds,
  and its write keeps the context resolving unless an archive has overtaken it (`Overtaken`).  It assumes that projects are
  numbers, none of them `Nobody`, and that the global one exists.
* `GuardedOpensRecover` (`GuardedOpenRecovers`), for any number of interrupted opens of files stamped 0 to 16:
  the open of a file stamped 6 or more is in the fixed chain or at a later step, and both look before they write.

### What a person sees: `InterfaceProofs`

* `EscAlwaysLeads` (`EscapesToBoard`): sheets cover one another only in certain ways (`ScreensTypeOK`, which is
  inductive): pickers, questions and forms return to the board, a card, the switcher or a picker, and the help to
  anything but itself and a form.  The help is thus never under another sheet, Esc in a picker takes the picker away with
  it, and no screen is further than four from the board.
* `OrderTypeCorrect`, for any finite board: `OrderTypeOK` is the shape of the board as served and as shown.  A card lies in one
  column at one place, a column stands at one place, and each mode has what it moves.  It rests on lemmas about taking an element out of a list, putting it back
  elsewhere and keeping those in a set, none of which loses or repeats one.
* `CommitShowsWhatWasStaged` (`CommitKeepsOrder`): what a mode draws is the permutation that the daemon applies (`Rotated`
  in `cards_of` and in `reorder`), so the answer shows it once more, given that the snapshot was current and the
  column hides nothing.  Both theorems assume that `Columns` and `Cards` are finite (`BoardIsFinite`) and that `Nil` is
  not the state of a mode (`NothingMoves`): `None` against a record.
* `SavingChangesWhatWasTouched` (`OnlyTouchedChange`), for any harnesses, catalogs, stored rows, workspaces and texts:
  `FormInv` says that a field is what is stored until a key changes it or what it depends on.  A field could be lost wherever
  a selector is built again, because a value that is not among the options becomes the first one; the lemmas
  `EffortStays`, `PermissionStays` and `CardBuilt` show that the stored one always is, before the catalog is served,
  with it, and after a fetch that failed.  `HarnessCatalogs` assumes what the catalogs of `capability.rs` are: a built-in harness
  offers by default the efforts and the modes of all that it may serve, and a model narrows the efforts of its
  harness.  `StoredIsValid` assumes that what is edited was accepted by the daemon when it was written, and that a
  text is not the option of a selector.

`TablesTypeOK` contains `OrderTypeOK`, `ScreensTypeOK` and `FormTypeOK` (`FormInv` and that selectors are on their
options): each of these inductive invariants is checked by the run `Stores`.

The least and the greatest number of a set of positions or ids (`NaturalOrder`) come from the library's well-founded
orderings.

### Only model-checked

All liveness (`HeadIsServed`, `DeadPaneCloses`, `OverdueCloses`): fairness and ENABLED are beyond the prover.
`GroupsAsDefined` compares lists that the code builds by folding over the issues and by sorting with a definition by
sets, and `CursorKept` speaks of the places in those lists: what a fold or a sort returns for every input needs an
induction over data.  `TablesTypeOK` joins the types of all components of its run; those that the theorems rest on are
proved with them.  That the daemon implements `RunProtocol` with deletions, if row ids are not reused, is
model-checked as well.

## Not modelled

* **Time**: the arithmetic of deadlines, their pauses and their reconstruction from the wall clock after a restart
  (`state.rs:81`).  A deadline is past or not.
* **Failed writes** of the store: a promotion that fails after its spawn (`launch_plan.rs:440`) closes the pane and
  leaves the run queued without a wake-up of its own, as do the other early exits of `spawn_one`.
* **The local runtime** (`spawner/local.rs`), a development spawner that starts a process and waits for it.
* **Columns against open runs**: `BoardLayout` deletes and retargets columns among ended runs; the columns of
  `RunLifecycle` are constants.
* Row conversions of migrations, `template.apply`, session scopes, and the commands of the command line and of the MCP
  server other than the start and the stop of a daemon: single requests without a state of their own.
* Parsing, rendering, prompts, harness command lines, labels and the geometry of splits: sequential conversions.
* Herdr, git, Linear and the agents themselves are external: modelled as far as the code sees them.

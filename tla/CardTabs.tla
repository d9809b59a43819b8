------------------------------ MODULE CardTabs ------------------------------
(***************************************************************************)
(* The Herdr tab of one card: the dispatcher's launches and the `run.focus` *)
(* rescues that place panes into it (board-daemon/src/spawner/).            *)
(*                                                                          *)
(* A placement finds or makes a workspace and reads the run rows, then      *)
(* takes the lock of the card in that workspace, chooses a pane, splits,    *)
(* and starts the harness.  Between any two of its Herdr calls the user may *)
(* close, split or use a pane and the daemon may stop.  The locks and the   *)
(* registry are memory of the daemon, the rows are durable, and panes       *)
(* belong to Herdr.                                                         *)
(*                                                                          *)
(* A pane is a number, a tab or a workspace the number of its first pane; a *)
(* workspace without panes is gone.  Every workspace carries the label in   *)
(* the card's space.  Geometry, other labels than that and the rescue's     *)
(* marker, and environments are left out.                                   *)
(***************************************************************************)
EXTENDS Naturals, Sequences, FiniteSets, SequencesExt

CONSTANTS Focusers,   \* connections that ask `run.focus`
          MaxPanes,   \* bound: panes ever made
          MaxRuns,    \* bound: run rows of the card
          MaxActs     \* bound: acts of the user on panes

VARIABLES panes,      \* Herdr's live panes: their tab, maker, agent, marker
          made,       \* panes made so far
          rows,       \* the card's run rows, oldest first
          registry,   \* CardTabRegistry.owned: a workspace's exact tab and anchor
          job,        \* what each placer is doing
          doubled,    \* history: a workspace was made although there was one
          acts

tabVars == <<panes, made, rows, registry, job, doubled, acts>>

Dispatch == "dispatch"
Placers == {Dispatch} \cup Focusers
None == 0

Unknown == [tab |-> None, anchor |-> None]
NoJob == [at |-> "idle", managed |-> FALSE, reuse |-> None, run |-> None,
         space |-> None, proof |-> None, durable |-> <<>>, anchors |-> <<>>,
         spent |-> {}, boot |-> FALSE, retried |-> FALSE, fresh |-> FALSE,
         tab |-> None, anchor |-> None, pane |-> None, close |-> {}]

(* Pane 1 was of a workspace that was closed: the card has no run yet, or *)
(* one that ran there, whose close is the first of the acts.              *)
TabInit ==
    /\ panes = <<>> /\ made = 1
    /\ \/ rows = <<>> /\ acts = 0
       \/ /\ acts = 1
          /\ \E managed \in BOOLEAN :
                rows = <<[space |-> 1, pane |-> 1, anchor |-> None, managed |-> managed,
                         ended |-> TRUE]>>
    /\ registry = <<>> /\ doubled = FALSE
    /\ job = [p \in Placers |-> NoJob]

----------------------------------------------------------------------------
(* Herdr's side of a call. *)

NewPane(space, tab, maker) ==
    [q \in DOMAIN panes \cup {made + 1} |->
        IF q = made + 1
        THEN [space |-> space, tab |-> tab, maker |-> maker, agent |-> "none",
              mark |-> None]
        ELSE panes[q]]

Without(gone) == [q \in DOMAIN panes \ gone |-> panes[q]]

Live(q) == q \in DOMAIN panes

SpaceOf(w) == {q \in DOMAIN panes : panes[q].space = w}

TabOf(w, t) == {q \in SpaceOf(w) : panes[q].tab = t}

(* The workspaces that workspace.list names. *)
Spaces == {panes[q].space : q \in DOMAIN panes}

----------------------------------------------------------------------------
(* What the rows prove of the panes of workspace w. *)

(* The ids of a column, newest run first; one that is not set, or is of *)
(* another workspace, is None.                                          *)
owned_pane_ids(w) ==
    [k \in DOMAIN rows |-> LET row == rows[Len(rows) + 1 - k]
                           IN IF row.space = w THEN row.pane ELSE None]

owned_anchor_ids(w) ==
    [k \in DOMAIN rows |-> LET row == rows[Len(rows) + 1 - k]
                           IN IF row.space = w THEN row.anchor ELSE None]

(* The first id of a list that is one of S. *)
FirstIn(seq, S) ==
    LET hits == {k \in DOMAIN seq : seq[k] \in S}
    IN IF hits = {} THEN None ELSE seq[Min(hits)]

EndedIn(w) == {i \in DOMAIN rows : rows[i].ended /\ rows[i].space = w}

reclaimable_ids(w) == {rows[i].pane : i \in EndedIn(w)} \ {None}

reconstruct_owned_tab_id(w) ==
    LET proof == FirstIn(owned_anchor_ids(w) \o owned_pane_ids(w), SpaceOf(w))
    IN IF proof = None THEN None ELSE panes[proof].tab

(* The pane of the newest ended run: the candidate of a hop that resumes *)
(* the conversation.                                                     *)
reuse_pane_id(w) ==
    IF EndedIn(w) = {} THEN None ELSE rows[Max(EndedIn(w))].pane

----------------------------------------------------------------------------
(* Planning, before the lock. *)

With(old, fields) ==
    [f \in DOMAIN old \cup DOMAIN fields |-> IF f \in DOMAIN fields THEN fields[f] ELSE old[f]]

Set(p, fields) == job' = [job EXCEPT ![p] = With(@, fields)]

Planned(w) == [at |-> "planned", space |-> w, proof |-> reconstruct_owned_tab_id(w),
               durable |-> owned_pane_ids(w), anchors |-> owned_anchor_ids(w)]

(* resolve_space: the first workspace of the label in Herdr's list, its oldest, *)
(* or one still to be made.                                                    *)
resolve_space(draft) == IF Spaces = {} THEN [at |-> "vacant"] ELSE draft

(* launch_run: a queued run of the card, no other run being open. *)
PlanLaunch(managed, resumes) ==
    LET w == Min(Spaces)
        draft == With(Planned(w), [spent |-> reclaimable_ids(w),
                                  reuse |-> IF resumes THEN reuse_pane_id(w) ELSE None])
    IN /\ job[Dispatch].at = "idle"
       /\ Len(rows) < MaxRuns
       /\ \A i \in DOMAIN rows : rows[i].ended
       /\ Set(Dispatch, With(resolve_space(draft), [managed |-> managed]))
       /\ UNCHANGED <<panes, made, rows, registry, doubled, acts>>

(* Row i's run is reopened, which writes no row: beside its card's panes in  *)
(* the workspace it ran in, or, that one being gone, in the card's present   *)
(* one, where the rows prove nothing.                                        *)
rescue_run(i) ==
    LET place == IF rows[i].space \in Spaces THEN Planned(rows[i].space)
                 ELSE resolve_space([at |-> "planned", space |-> Min(Spaces)])
    IN With(place, [managed |-> rows[i].managed, run |-> i])

(* run_focus: a recorded pane that still exists is focused, nothing else; *)
(* otherwise the run is rescued.                                          *)
PlanRescue(p, i) ==
    /\ job[p].at = "idle"
    /\ ~Live(rows[i].pane)
    /\ Set(p, rescue_run(i))
    /\ UNCHANGED <<panes, made, rows, registry, doubled, acts>>

(* workspace.create, before any lock is taken: another placer may have made *)
(* one since the list was read.  The one shell is the hint `bootstrap`.      *)
CreateSpace(p) ==
    /\ job[p].at = "vacant" /\ made < MaxPanes
    /\ panes' = NewPane(made + 1, made + 1, "board") /\ made' = made + 1
    /\ doubled' = (doubled \/ Spaces # {})
    /\ Set(p, [at |-> "planned", space |-> made + 1, boot |-> TRUE])
    /\ UNCHANGED <<rows, registry, acts>>

RememberTab(w, tab, anchor) ==
    registry' = With(registry, [v \in {w} |-> [tab |-> tab, anchor |-> anchor]])

RememberedTab(w) == IF w \in DOMAIN registry THEN registry[w] ELSE Unknown

(* The steps under the allocation lock of the card in the job's workspace. *)
Placing == {"look", "choose", "recover", "reclaim", "create", "split", "start", "trim"}

(* Only a dispatch remembers the workspace's shell before it allocates. *)
TakeLock(p) ==
    /\ job[p].at = "planned"
    /\ \A q \in Placers : job[q].at \in Placing => job[q].space # job[p].space
    /\ IF p = Dispatch /\ job[p].boot
       THEN RememberTab(job[p].space, job[p].space, job[p].space)
       ELSE UNCHANGED registry
    /\ Set(p, [at |-> IF p = Dispatch THEN "choose" ELSE "look"])
    /\ UNCHANGED <<panes, made, rows, doubled, acts>>

Release(p) == job' = [job EXCEPT ![p] = NoJob]

(* Herdr refuses a call about a workspace that is gone, which ends the *)
(* placement.                                                          *)
Refused(p) ==
    /\ job[p].at \in {"look", "choose", "create"} /\ job[p].space \notin Spaces
    /\ Release(p)
    /\ UNCHANGED <<panes, made, rows, registry, doubled, acts>>

(* Mistaken: the rescue does not look for an earlier one. *)
LookElsewhere(p) ==
    /\ job[p].at = "look" /\ job[p].space \in Spaces
    /\ Set(p, [at |-> "choose"])
    /\ UNCHANGED <<panes, made, rows, registry, doubled, acts>>

(* rescue_run_pane: the marker of an earlier rescue in this workspace.  A    *)
(* live one is focused; a dead one is closed unless it is at work.           *)
Look(p) ==
    LET marked == {q \in SpaceOf(job[p].space) : panes[q].mark = job[p].run}
        alive == {q \in marked : ~job[p].managed \/ panes[q].agent # "none"}
    IN /\ job[p].at = "look" /\ job[p].space \in Spaces
       /\ IF alive # {}
          THEN Release(p) /\ UNCHANGED panes
          ELSE /\ panes' = Without({q \in marked : panes[q].agent # "busy"})
               /\ Set(p, [at |-> "choose"])
       /\ UNCHANGED <<made, rows, registry, doubled, acts>>

----------------------------------------------------------------------------
(* allocate_card_pane, under the lock. *)

(* The tab: the one the rows proved, else the one the registry remembers. *)
OwnedTab(p) ==
    IF job[p].proof # None THEN job[p].proof ELSE RememberedTab(job[p].space).tab

CardTab(p) == TabOf(job[p].space, OwnedTab(p))

(* An exact anchor id that is still a shell of that tab, and never a run's. *)
Anchor(p) ==
    FirstIn(<<RememberedTab(job[p].space).anchor>> \o job[p].anchors,
            {q \in CardTab(p) : panes[q].agent = "none"} \ ToSet(job[p].durable))

Recovery(p) ==
    FirstIn(job[p].durable, {q \in CardTab(p) : panes[q].agent # "busy"})

Reusable(p) ==
    /\ job[p].managed
    /\ job[p].reuse \in CardTab(p)
    /\ panes[job[p].reuse].agent # "none"

(* Mistaken: every quiet pane of the tab is a leftover. *)
ReclaimEveryPane(p, kept) ==
    {q \in CardTab(p) : q \notin kept /\ panes[q].agent # "busy"}

reclaim_prior_children(p, kept) ==
    {q \in job[p].spent \cap CardTab(p) : q \notin kept /\ panes[q].agent # "busy"}

(* adopt_bootstrap_tab: the new workspace's shell, if it is still the only *)
(* pane of its tab and runs no agent.                                      *)
Adopts(p) ==
    LET w == job[p].space
    IN job[p].boot /\ TabOf(w, w) = {w} /\ panes[w].agent = "none"

Choose(p) ==
    LET anchor == Anchor(p)
        place(step, t, a, pane, close) ==
            Set(p, [at |-> step, tab |-> t, anchor |-> a, pane |-> pane, close |-> close,
                    fresh |-> step = "create" \/ t # OwnedTab(p)])
        chosen(step, a, pane, close) == place(step, OwnedTab(p), a, pane, close)
    IN /\ job[p].at = "choose" /\ job[p].space \in Spaces
       /\ CASE Adopts(p) -> place("split", job[p].space, job[p].space, None, {})
            [] ~Adopts(p) /\ Reusable(p) ->
                 chosen("reclaim", anchor, job[p].reuse,
                        reclaim_prior_children(p, {anchor, job[p].reuse}))
            [] ~Adopts(p) /\ ~Reusable(p) /\ anchor # None ->
                 chosen("reclaim", anchor, None, reclaim_prior_children(p, {anchor}))
            [] OTHER ->
                 IF Recovery(p) # None
                 THEN chosen("recover", Recovery(p), None,
                             reclaim_prior_children(p, {}))
                 ELSE chosen("create", None, None, {})
       /\ UNCHANGED <<panes, made, rows, registry, doubled, acts>>

(* A pane vanished between two calls: a dispatch starts the placement over *)
(* once, a rescue gives up.                                                *)
Raced(p) ==
    IF p = Dispatch /\ ~job[p].retried
    THEN Set(p, [at |-> "choose", retried |-> TRUE])
    ELSE Release(p)

(* pane.split names the workspace and the pane to split. *)
CanSplit(p) == job[p].anchor \in SpaceOf(job[p].space)

(* The anchor split off a run's pane when no anchor is left. *)
Reanchor(p) ==
    /\ job[p].at = "recover" /\ made < MaxPanes
    /\ IF CanSplit(p)
       THEN /\ panes' = NewPane(job[p].space, job[p].tab, "board") /\ made' = made + 1
            /\ Set(p, [at |-> "reclaim", anchor |-> made + 1])
       ELSE Raced(p) /\ UNCHANGED <<panes, made>>
    /\ UNCHANGED <<rows, registry, doubled, acts>>

Reclaim(p) ==
    /\ job[p].at = "reclaim"
    /\ panes' = Without(job[p].close)
    /\ Set(p, [at |-> IF job[p].pane # None THEN "start" ELSE "split"])
    /\ UNCHANGED <<made, rows, registry, doubled, acts>>

(* create_card_tab: the root becomes the anchor. *)
CreateTab(p) ==
    /\ job[p].at = "create" /\ job[p].space \in Spaces /\ made < MaxPanes
    /\ panes' = NewPane(job[p].space, made + 1, "board") /\ made' = made + 1
    /\ Set(p, [at |-> "split", tab |-> made + 1, anchor |-> made + 1])
    /\ UNCHANGED <<rows, registry, doubled, acts>>

(* split_run_child, and the ids remembered once a placement has its pane. *)
SplitChild(p) ==
    /\ job[p].at = "split" /\ made < MaxPanes
    /\ IF CanSplit(p)
       THEN /\ panes' = NewPane(job[p].space, job[p].tab, "board") /\ made' = made + 1
            /\ RememberTab(job[p].space, job[p].tab, job[p].anchor)
            /\ Set(p, [at |-> "start", pane |-> made + 1])
       ELSE Raced(p) /\ UNCHANGED <<panes, made, registry>>
    /\ UNCHANGED <<rows, doubled, acts>>

(* launch_managed, launch_configured, launch_rescue: the rescue labels its *)
(* pane with the run's marker before it starts the harness.                *)
Start(p) ==
    /\ job[p].at = "start" /\ Live(job[p].pane)
    /\ panes' = [panes EXCEPT ![job[p].pane].agent =
                                  IF job[p].managed THEN "busy" ELSE "none",
                              ![job[p].pane].mark =
                                  IF p = Dispatch THEN @ ELSE job[p].run]
    /\ Set(p, [at |-> "trim"])
    /\ UNCHANGED <<made, rows, registry, doubled, acts>>

(* The launch fails on a pane that is gone: the dispatch retries. *)
StartOnGonePane(p) ==
    /\ job[p].at = "start" /\ p = Dispatch /\ ~Live(job[p].pane)
    /\ Raced(p)
    /\ UNCHANGED <<panes, made, rows, registry, doubled, acts>>

(* Any other failure: a dispatch closes the pane it was given. *)
StartFails ==
    /\ job[Dispatch].at = "start" /\ Live(job[Dispatch].pane) /\ acts < MaxActs
    /\ panes' = Without({job[Dispatch].pane}) /\ Release(Dispatch)
    /\ acts' = acts + 1
    /\ UNCHANGED <<made, rows, registry, doubled>>

(* workspace.close of a workspace that this rescue made. *)
ClosesSpace(p) == job[p].fresh /\ job[p].boot

(* abandon_rescue: the pane; the tab if this rescue made it; and then all of *)
(* the workspace if this rescue made that.                                   *)
AbandonRescue(p) ==
    /\ job[p].at = "start" /\ p # Dispatch
    /\ Live(job[p].pane) => acts < MaxActs
    /\ acts' = IF Live(job[p].pane) THEN acts + 1 ELSE acts
    /\ panes' = Without({job[p].pane}
                           \cup (IF job[p].fresh THEN {job[p].anchor} ELSE {})
                           \cup (IF ClosesSpace(p) THEN SpaceOf(job[p].space) ELSE {}))
    /\ registry' = IF job[p].fresh
                   THEN [v \in DOMAIN registry \ {job[p].space} |-> registry[v]]
                   ELSE registry
    /\ Release(p)
    /\ UNCHANGED <<made, rows, doubled>>

(* A managed launch closes the anchor, and the lock is released: the row of *)
(* the dispatched run is written afterwards.                                *)
TrimAnchor(p) ==
    /\ job[p].at = "trim"
    /\ panes' = Without(IF job[p].managed THEN {job[p].anchor} ELSE {})
    /\ IF p = Dispatch THEN Set(p, [at |-> "register"]) ELSE Release(p)
    /\ UNCHANGED <<made, rows, registry, doubled, acts>>

(* register_spawned_run: the run is open in its pane. *)
Register ==
    /\ job[Dispatch].at = "register"
    /\ rows' = Append(rows, [pane |-> job[Dispatch].pane, ended |-> FALSE,
                             space |-> job[Dispatch].space,
                             managed |-> job[Dispatch].managed,
                             anchor |-> IF job[Dispatch].managed THEN None
                                        ELSE job[Dispatch].anchor])
    /\ Release(Dispatch)
    /\ UNCHANGED <<panes, made, registry, doubled, acts>>

----------------------------------------------------------------------------
(* Runs, agents, the user and the daemon's process. *)

RunEnds(i) ==
    /\ ~rows[i].ended
    /\ rows' = [rows EXCEPT ![i].ended = TRUE]
    /\ UNCHANGED <<panes, made, registry, doubled, job, acts>>

(* An agent goes to work, rests, or exits; a user may start one in a shell. *)
AgentActs(q) ==
    /\ acts < MaxActs /\ acts' = acts + 1
    /\ \E a \in {"none", "idle", "busy"} \ {panes[q].agent} :
          panes' = [panes EXCEPT ![q].agent = a]
    /\ UNCHANGED <<made, rows, registry, doubled, job>>

(* One pane, or all of its workspace. *)
UserCloses(q) ==
    /\ acts < MaxActs /\ acts' = acts + 1
    /\ \E gone \in {{q}, SpaceOf(panes[q].space)} : panes' = Without(gone)
    /\ UNCHANGED <<made, rows, registry, doubled, job>>

UserSplits(q) ==
    /\ acts < MaxActs /\ acts' = acts + 1 /\ made < MaxPanes
    /\ panes' = NewPane(panes[q].space, panes[q].tab, "user") /\ made' = made + 1
    /\ UNCHANGED <<rows, registry, doubled, job>>

DaemonRestarts ==
    /\ acts < MaxActs /\ acts' = acts + 1
    /\ registry' = <<>>
    /\ job' = [p \in Placers |-> NoJob]
    /\ UNCHANGED <<panes, made, rows, doubled>>

TabNext ==
    \/ \E managed, resumes \in BOOLEAN : PlanLaunch(managed, resumes)
    \/ \E p \in Focusers, i \in DOMAIN rows : PlanRescue(p, i)
    \/ \E p \in Focusers : Look(p) \/ AbandonRescue(p)
    \/ \E p \in Placers :
          \/ CreateSpace(p) \/ TakeLock(p) \/ Refused(p) \/ Choose(p) \/ Reanchor(p)
          \/ Reclaim(p) \/ CreateTab(p) \/ SplitChild(p) \/ Start(p) \/ StartOnGonePane(p)
          \/ TrimAnchor(p)
    \/ StartFails \/ Register \/ DaemonRestarts
    \/ \E i \in DOMAIN rows : RunEnds(i)
    \/ \E q \in DOMAIN panes : AgentActs(q) \/ UserCloses(q) \/ UserSplits(q)

TabSpec == TabInit /\ [][TabNext]_tabVars

----------------------------------------------------------------------------
(* Properties. *)

TabTypeOK ==
    /\ made \in 0 .. MaxPanes /\ DOMAIN panes \subseteq 1 .. made
    /\ \A q \in DOMAIN panes :
          panes[q] \in [space : 1 .. made, tab : 1 .. made, maker : {"board", "user"},
                        agent : {"none", "idle", "busy"}, mark : 0 .. MaxRuns]
    /\ \A i \in DOMAIN rows :
          rows[i] \in [space : 1 .. made, pane : 1 .. made, anchor : 0 .. made,
                       managed : BOOLEAN, ended : BOOLEAN]
    /\ \A w \in DOMAIN registry : registry[w] \in [tab : 1 .. made, anchor : 1 .. made]
    /\ doubled \in BOOLEAN /\ acts \in 0 .. MaxActs

(* However many connections ask to focus a run whose pane is gone, and    *)
(* whatever the user closes meanwhile, one pane carries the run's marker: *)
(* the second request finds the first one's pane.  In one workspace this  *)
(* always holds.  Two workspaces may carry a pane each, but only if one   *)
(* was made for the card while it had another: the allocation lock is per *)
(* workspace, so it does not cover two placers that find none.            *)
OneRescuePane ==
    \A q, r \in DOMAIN panes :
        panes[q].mark # None /\ panes[q].mark = panes[r].mark =>
            q = r \/ (doubled /\ panes[q].space # panes[r].space)

(* The board closes only panes it made, and never the pane of a run that  *)
(* is open: reclaiming goes by ids read before the lock was taken.  The   *)
(* exception is a rescue that made its workspace and whose start fails:   *)
(* it closes that workspace with all that others opened there since.      *)
ClosesOnlySpent ==
    [][\A q \in DOMAIN panes \ DOMAIN panes' :
          job' # job =>
             \/ /\ panes[q].maker = "board"
                /\ \A i \in DOMAIN rows : rows[i].pane = q => rows[i].ended
             \/ \E p \in Focusers :
                   /\ AbandonRescue(p) /\ ClosesSpace(p)
                   /\ panes[q].space = job[p].space]_tabVars
=============================================================================

------------------------------ MODULE Comments ------------------------------
(***************************************************************************)
(* The comments of cards and their audit history.  An agent's terminal     *)
(* carries the id of the run that started it (BOARD_RUN_ID); when a later  *)
(* run of the card reuses the terminal the credential is stale, and the    *)
(* terminal itself vouches for the open run.  Comments are edited in place *)
(* and deleted softly; the history keeps a snapshot per text.              *)
(*                                                                         *)
(* Left out: the queue and the launch of runs (RunLifecycle), the fake     *)
(* harness without run rows, and the callers that claim an author without  *)
(* a credential, which the store takes at their word.                      *)
(***************************************************************************)
EXTENDS Naturals, SequencesExt

CONSTANTS
    Cases,        \* the cards that are commented
    Shells,       \* terminals
    MaxStints,    \* run rows
    MaxSnapshots, \* rows of the history, and with them the comments
    MaxErased     \* cards deleted

VARIABLES
    stint,      \* the run rows: [card, shell, open]
    credential, \* shell -> the run its agent was started for
    remarks,    \* comment id -> [card, author, text, deleted]
    snapshots,  \* history id -> [remark, text, deleted]
    erased

comVars == <<stint, credential, remarks, snapshots, erased>>

NoStint == 0
User    == 0        \* no credential: the user

ComInit ==
    /\ stint = << >>
    /\ credential = [s \in Shells |-> NoStint]
    /\ remarks = << >>
    /\ snapshots = << >>
    /\ erased = 0

NewId(rows) == 1 + (IF DOMAIN rows = {} THEN 0 ELSE Max(DOMAIN rows))
WithRow(rows, row) == [i \in DOMAIN rows \cup {NewId(rows)} |->
                          IF i = NewId(rows) THEN row ELSE rows[i]]
OnlyRows(rows, kept) == [i \in kept |-> rows[i]]

OpenOf(c) == {r \in DOMAIN stint : stint[r].card = c /\ stint[r].open}

----------------------------------------------------------------------------
\* A run of the card starts in a terminal; one that is reused keeps its agent.
StartStint(c, s) ==
    /\ NewId(stint) <= MaxStints
    /\ OpenOf(c) = {}
    /\ \A r \in DOMAIN stint : stint[r].shell = s => stint[r].card = c
    /\ stint' = WithRow(stint, [card |-> c, shell |-> s, open |-> TRUE])
    /\ credential' = IF credential[s] = NoStint
                     THEN [credential EXCEPT ![s] = NewId(stint)]
                     ELSE credential
    /\ UNCHANGED <<remarks, snapshots, erased>>

EndStint(r) ==
    /\ r \in DOMAIN stint /\ stint[r].open
    /\ stint' = [stint EXCEPT ![r].open = FALSE]
    /\ UNCHANGED <<credential, remarks, snapshots, erased>>

require_agent_run(r, c) == r \in DOMAIN stint /\ stint[r].card = c /\ stint[r].open

\* The row and, by the trigger on the table, its first snapshot.
add_comment(c, author) ==
    /\ NewId(snapshots) <= MaxSnapshots
    /\ remarks' = WithRow(remarks, [card |-> c, author |-> author,
                                    text |-> 0, deleted |-> FALSE])
    /\ snapshots' = WithRow(snapshots, [remark |-> NewId(remarks),
                                        text |-> 0, deleted |-> FALSE])
    /\ UNCHANGED <<stint, credential, erased>>

UserComments(c) == add_comment(c, User)

\* The terminal of the card's open run speaks for it, whatever it carries;
\* another needs a credential of an open run of the card.
AgentComments(c, s) ==
    \/ \E r \in OpenOf(c) : stint[r].shell = s /\ add_comment(c, r)
    \/ /\ ~ \E r \in OpenOf(c) : stint[r].shell = s
       /\ credential[s] # NoStint
       /\ require_agent_run(credential[s], c)
       /\ add_comment(c, credential[s])

\* An agent may touch what its credential signed, while that run is open.
comment_for_mutation(m, actor) ==
    actor = User \/ /\ remarks[m].author = actor
                    /\ require_agent_run(actor, remarks[m].card)

Actors == {User} \cup {credential[s] : s \in Shells}

\* A mutant: a deletion marks the newest snapshot of the whole table.
LastSnapshotOfAll(m) == Max(DOMAIN snapshots)

LastSnapshot(m) == Max({h \in DOMAIN snapshots : snapshots[h].remark = m})

UpdateComment(m, actor) ==
    /\ m \in DOMAIN remarks /\ ~remarks[m].deleted
    /\ comment_for_mutation(m, actor)
    /\ NewId(snapshots) <= MaxSnapshots
    /\ remarks' = [remarks EXCEPT ![m].text = @ + 1]
    /\ snapshots' = WithRow(snapshots, [remark |-> m, text |-> remarks[m].text + 1,
                                        deleted |-> FALSE])
    /\ UNCHANGED <<stint, credential, erased>>

SoftDeleteComment(m, actor) ==
    /\ m \in DOMAIN remarks /\ ~remarks[m].deleted
    /\ comment_for_mutation(m, actor)
    /\ remarks' = [remarks EXCEPT ![m].deleted = TRUE]
    /\ snapshots' = [snapshots EXCEPT ![LastSnapshot(m)].deleted = TRUE]
    /\ UNCHANGED <<stint, credential, erased>>

\* A card without an open run is deleted, with its runs, its comments and their
\* history; the ids of the newest rows are given again.
DeleteCase(c) ==
    LET kept == {m \in DOMAIN remarks : remarks[m].card # c}
    IN /\ erased < MaxErased
       /\ OpenOf(c) = {}
       /\ remarks' = OnlyRows(remarks, kept)
       /\ snapshots' = OnlyRows(snapshots, {h \in DOMAIN snapshots : snapshots[h].remark \in kept})
       /\ erased' = erased + 1
       /\ stint' = OnlyRows(stint, {r \in DOMAIN stint : stint[r].card # c})
       /\ UNCHANGED credential

ComNext ==
    \/ \E c \in Cases, s \in Shells : StartStint(c, s)
    \/ \E r \in DOMAIN stint : EndStint(r)
    \/ \E c \in Cases : UserComments(c)
    \/ \E c \in Cases, s \in Shells : AgentComments(c, s)
    \/ \E m \in DOMAIN remarks, a \in Actors : UpdateComment(m, a)
    \/ \E m \in DOMAIN remarks, a \in Actors : SoftDeleteComment(m, a)
    \/ \E c \in Cases : DeleteCase(c)

ComSpec == ComInit /\ [][ComNext]_comVars

----------------------------------------------------------------------------
ComTypeOK ==
    /\ DOMAIN stint \subseteq 1..MaxStints
    /\ credential \in [Shells -> 0..MaxStints]
    /\ DOMAIN remarks \subseteq 1..MaxSnapshots
    /\ DOMAIN snapshots \subseteq 1..MaxSnapshots

\* The history of a comment ends in the comment: every comment has snapshots,
\* the last one carries its text and its deletion, and no earlier one is marked.
HistoryEndsInComment ==
    \A m \in DOMAIN remarks :
        LET mine == {h \in DOMAIN snapshots : snapshots[h].remark = m}
        IN /\ mine # {}
           /\ \A h \in mine :
                 IF h = Max(mine)
                 THEN /\ snapshots[h].text = remarks[m].text
                      /\ snapshots[h].deleted = remarks[m].deleted
                 ELSE ~snapshots[h].deleted
=============================================================================

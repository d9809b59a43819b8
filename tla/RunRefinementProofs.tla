------------------------- MODULE RunRefinementProofs -------------------------
(***************************************************************************)
(* Proof that the daemon implements RunProtocol, for every value of the    *)
(* constants without card.delete, and with it that no two runs share a     *)
(* space and that max_concurrent is respected.                             *)
(*                                                                         *)
(* Only one step is delicate: register_spawned_run starts a run that the   *)
(* pass chose from a queue and a set of started runs it read earlier.      *)
(* LaunchInv says what remains true of that choice in the meantime: new    *)
(* rows are younger, nothing else starts, and the space of a card with an  *)
(* open run is frozen.  Every other step is Quiet: it starts nothing.      *)
(* A deletion is excluded because the row of a launch in flight may be     *)
(* deleted with its card and its id given to a row of another space (run   *)
(* RowReuse), whose promotion the pass has not considered.                 *)
(*                                                                         *)
(* The second part proves that no wake of the dispatcher is lost.          *)
(***************************************************************************)
EXTENDS RunRefinement, RunLifecycleProofs, WellFoundedInduction

(* What the first k elements of a set of rows are, as PassClaim takes them. *)
OldestFirst(S, k) == {r \in S : Cardinality({h \in S : h < r}) < k}

(* Every set of rows is finite.                                            *)
LEMMA RowsFinite ==
  \A T : T \subseteq RunIds => IsFiniteSet(T) /\ Cardinality(T) \in Nat
<1>1. IsFiniteSet(RunIds)
  BY FS_Interval, LifecycleAssumption DEF RunIds
<1> QED
  BY <1>1, FS_Subset, FS_CardinalityType

(* A pass with k free slots claims at most k heads: the number of older    *)
(* heads tells the claimed ones apart and is less than k.                  *)
LEMMA OldestFirstBound ==
  ASSUME NEW S \in SUBSET RunIds, NEW k \in Int
  PROVE  /\ k <= 0 => OldestFirst(S, k) = {}
         /\ k >= 0 => Cardinality(OldestFirst(S, k)) <= k
<1> DEFINE Before(r) == {h \in S : h < r}
           C == OldestFirst(S, k)
           rank == [r \in C |-> Cardinality(Before(r))]
<1>1. \A r : Before(r) \subseteq RunIds
  OBVIOUS
<1>2. \A r \in S : Cardinality(Before(r)) \in Nat /\ IsFiniteSet(Before(r))
  BY <1>1, RowsFinite
<1>3. k <= 0 => OldestFirst(S, k) = {}
  BY <1>2 DEF OldestFirst
<1>4. rank \in [C -> 0 .. k - 1]
  BY <1>2 DEF OldestFirst
<1>5. ASSUME NEW q \in C, NEW r \in C, q < r PROVE rank[q] # rank[r]
  <2>0. q \in S /\ r \in S /\ S \subseteq Int
    BY DEF OldestFirst, RunIds
  <2>1. Before(q) \subseteq Before(r)
    <3>1. ASSUME NEW h \in S, h < q PROVE h < r
      BY <1>5, <2>0, <3>1
    <3> QED
      BY <3>1
  <2>2. q \in Before(r) /\ q \notin Before(q)
    BY <1>5, <2>0
  <2>3. IsFiniteSet(Before(r)) /\ Before(q) # Before(r)
    BY <1>2, <2>0, <2>2
  <2> HIDE DEF Before
  <2>4. Cardinality(Before(q)) # Cardinality(Before(r))
    BY <2>1, <2>3, FS_Subset
  <2> QED
    BY <2>4
<1>6. \A q, r \in C : rank[q] = rank[r] => q = r
  <2>1. \A q, r \in C : q < r \/ r < q \/ q = r
    BY DEF OldestFirst, RunIds
  <2> HIDE DEF rank, C
  <2> QED
    BY <1>5, <2>1
<1> HIDE DEF rank, C
<1>7. rank \in Injection(C, 0 .. k - 1)
  BY <1>4, <1>6 DEF Injection, IsInjective
<1>8. k >= 0 => IsFiniteSet(0 .. k - 1) /\ Cardinality(0 .. k - 1) = k
  BY FS_Interval
<1>9. k >= 0 => Cardinality(C) <= k
  BY <1>7, <1>8, FS_Injection
<1> QED
  BY <1>3, <1>9 DEF C

-----------------------------------------------------------------------------
(* Launches that would still promote their row.                            *)
Promotable == Launching \cap QueuedRuns

(* What stays true between the reads of a pass and its last promotion.     *)
LaunchInv ==
  /\ pass # "launching" => Launching = {}
  /\ \A r \in Launching : runState[r] # "none"
  /\ \A r \in Promotable, q \in StartedRuns : RunSpace(q) # RunSpace(r)
  /\ \A r \in Promotable, q \in QueuedRuns : q < r => RunSpace(q) # RunSpace(r)
  /\ pass = "claiming" => /\ \A q \in StartedRuns : RunSpace(q) \in passBusy
                          /\ Cardinality(StartedRuns) <= passCount
  /\ SpaceExclusive
  /\ ConcurrencyCap

(* A step that starts nothing: a run that is open after it was already so, *)
(* in the same space, or is a new row, younger than all; no row goes.      *)
Quiet ==
  /\ \A x \in RunIds : runState'[x] \in Open =>
       \/ runState'[x] = runState[x] /\ RunSpace(x)' = RunSpace(x)
       \/ /\ runState'[x] = "queued" /\ runState[x] = "none"
          /\ \A q \in RunIds : runState[q] # "none" => q < x
  /\ \A x \in RunIds : runState[x] # "none" => runState'[x] # "none"

(* Whatever the pass has read or claimed survives a quiet step.            *)
LEMMA QuietKeepsLaunchInv ==
  ASSUME LaunchInv, Quiet, passCount \in Nat, UNCHANGED passVars,
         \A x \in RunIds : launchCard'[x] # NoCard => launchCard[x] # NoCard
  PROVE  LaunchInv'
<1>1. StartedRuns' \subseteq StartedRuns /\ \A q \in StartedRuns' : RunSpace(q)' = RunSpace(q)
  BY DEF Quiet, StartedRuns, Open
<1>2. Launching' \subseteq Launching
  BY DEF Launching
<1>3. /\ Promotable' \subseteq Promotable
      /\ \A r \in Promotable' : RunSpace(r)' = RunSpace(r)
  BY <1>2 DEF Quiet, LaunchInv, Promotable, QueuedRuns, Launching, Open
<1>4. \A q \in QueuedRuns' : \/ q \in QueuedRuns /\ RunSpace(q)' = RunSpace(q)
                            \/ \A r \in Promotable' : ~ (q < r)
  <2>1. \A r \in Promotable' : r \in Int /\ r \in RunIds /\ runState[r] # "none"
    BY <1>3 DEF Promotable, QueuedRuns, RunIds
  <2>2. \A q \in QueuedRuns' : q \in Int
    BY DEF QueuedRuns, RunIds
  <2> QED
    BY <2>1, <2>2 DEF Quiet, QueuedRuns, Open
<1>5. pass' = pass /\ passBusy' = passBusy /\ passCount' = passCount
  BY DEF passVars
<1>6. Cardinality(StartedRuns') <= Cardinality(StartedRuns)
  BY <1>1, RowsFinite, FS_Subset DEF StartedRuns
<1>7. ConcurrencyCap'
  <2> DEFINE Held == StartedRuns \cup Promotable
  <2>1. (ConcurrencyCap <=> Cardinality(Held) <= Capacity)
    BY DEF ConcurrencyCap, Promotable
  <2>2. (ConcurrencyCap <=> Cardinality(Held) <= Capacity)'
    BY DEF ConcurrencyCap, Promotable
  <2>3. Held' \subseteq Held /\ Held \subseteq RunIds /\ Held' \subseteq RunIds
    BY <1>1, <1>3 DEF StartedRuns, Promotable, Launching
  <2> HIDE DEF Held
  <2>4. /\ Cardinality(Held') <= Cardinality(Held)
        /\ Cardinality(Held') \in Nat /\ Cardinality(Held) \in Nat
    BY <2>3, RowsFinite, FS_Subset
  <2>5. Capacity \in Int /\ Capacity' = Capacity
    BY LifecycleAssumption DEF Capacity
  <2> QED
    BY <2>1, <2>2, <2>4, <2>5 DEF LaunchInv
<1>8. SpaceExclusive'
  BY <1>1 DEF LaunchInv, SpaceExclusive
<1>9. pass' = "claiming" => /\ \A q \in StartedRuns' : RunSpace(q)' \in passBusy'
                           /\ Cardinality(StartedRuns') <= passCount'
  <2>1. Cardinality(StartedRuns) \in Nat /\ Cardinality(StartedRuns') \in Nat
    BY RowsFinite DEF StartedRuns
  <2>2. pass = "claiming" => Cardinality(StartedRuns') <= passCount
    BY <1>6, <2>1 DEF LaunchInv
  <2>3. pass = "claiming" => \A q \in StartedRuns' : RunSpace(q)' \in passBusy
    BY <1>1 DEF LaunchInv
  <2> QED
    BY <1>5, <2>2, <2>3
<1>10. \A r \in Launching' : runState'[r] # "none"
  BY <1>2 DEF LaunchInv, Quiet, Launching
<1>11. pass' # "launching" => Launching' = {}
  BY <1>2, <1>5 DEF LaunchInv
<1>12. /\ \A r \in Promotable', q \in StartedRuns' : RunSpace(q)' # RunSpace(r)'
       /\ \A r \in Promotable', q \in QueuedRuns' : q < r => RunSpace(q)' # RunSpace(r)'
  BY <1>1, <1>3, <1>4 DEF LaunchInv
<1> QED
  BY <1>7, <1>8, <1>9, <1>10, <1>11, <1>12 DEF LaunchInv
-----------------------------------------------------------------------------
(* A step of the daemon as the protocol sees it.                           *)
ProtocolStep == [Protocol!Next]_(Protocol!vars)

(* A new row for a card without an open run, whose space may be set with   *)
(* it: card.create, card.move and run.retry.                               *)
LEMMA SubmitQuiet ==
  ASSUME StoreInv, NEW r \in RunIds, NEW c \in Cards, NEW s \in Spaces,
         OpenRuns(c) = {}, IsNextRunId(r),
         runState' = [runState EXCEPT ![r] = "queued"],
         runCard' = [runCard EXCEPT ![r] = c],
         cardSpace' = [cardSpace EXCEPT ![c] = s]
  PROVE  ProtocolStep /\ Quiet
<1>1. Protocol!Submit(r, c, s)
  BY DEF IsNextRunId, OpenRuns, Open, Protocol!Submit, Protocol!IsNext, Protocol!OpenRuns,
         Protocol!Queued, Protocol!Started
<1>2. ProtocolStep
  BY <1>1 DEF ProtocolStep, Protocol!Next
<1>3. runState[r] = "none" /\ \A q \in RunIds : runState[q] # "none" => q < r
  BY DEF IsNextRunId, RunIds
<1>4. \A x \in RunIds : x # r /\ runState[x] \in Open => RunSpace(x)' = RunSpace(x)
  BY DEF StoreInv, CardTypeOK, RunTypeOK, OpenRuns, RunSpace
<1>5. Quiet
  BY <1>3, <1>4, RunStates DEF StoreInv, RunTypeOK, Quiet
<1> QED
  BY <1>2, <1>5

(* A run closes and nothing takes its place.                               *)
LEMMA CloseQuiet ==
  ASSUME StoreInv, NEW r \in RunIds, runState[r] \in Open, NEW outcome \in Outcome,
         runState' = [runState EXCEPT ![r] = outcome], UNCHANGED <<runCard, cardSpace>>
  PROVE  ProtocolStep /\ Quiet
<1>1. Protocol!Close(r, outcome)
  BY DEF Open, Protocol!Close, Protocol!Queued, Protocol!Started
<1>2. ProtocolStep
  BY <1>1 DEF ProtocolStep, Protocol!Next
<1>3. Quiet
  BY RunStates DEF StoreInv, RunTypeOK, Quiet, RunSpace
<1> QED
  BY <1>2, <1>3

(* A run closes and its card is queued again in the same transaction.      *)
LEMMA HopQuiet ==
  ASSUME StoreInv, NEW r \in RunIds, runState[r] \in Open, NEW outcome \in Outcome,
         NEW n \in RunIds, IsNextRunId(n),
         runState' = [runState EXCEPT ![r] = outcome, ![n] = "queued"],
         runCard' = [runCard EXCEPT ![n] = runCard[r]], UNCHANGED cardSpace
  PROVE  ProtocolStep /\ Quiet
<1>1. Protocol!Hop(r, outcome, n)
  BY DEF IsNextRunId, Open, Protocol!Hop, Protocol!IsNext, Protocol!Queued, Protocol!Started
<1>2. ProtocolStep
  BY <1>1 DEF ProtocolStep, Protocol!Next
<1>3. runState[n] = "none" /\ \A q \in RunIds : runState[q] # "none" => q < n
  BY DEF IsNextRunId, RunIds
<1>4. Quiet
  BY <1>3, RunStates DEF StoreInv, RunTypeOK, Quiet, RunSpace
<1> QED
  BY <1>2, <1>4

(* A card without an open run gets its space or another one.               *)
LEMMA RelocateQuiet ==
  ASSUME StoreInv, NEW c \in Cards, NEW s \in Spaces, OpenRuns(c) = {},
         cardSpace' = [cardSpace EXCEPT ![c] = s], UNCHANGED <<runState, runCard>>
  PROVE  ProtocolStep /\ Quiet
<1>1. Protocol!Relocate(c, s)
  BY DEF OpenRuns, Open, Protocol!Relocate, Protocol!OpenRuns, Protocol!Queued, Protocol!Started
<1>2. ProtocolStep
  BY <1>1 DEF ProtocolStep, Protocol!Next
<1>3. Quiet
  BY DEF StoreInv, CardTypeOK, RunTypeOK, OpenRuns, Quiet, RunSpace
<1> QED
  BY <1>2, <1>3

(* A step that writes neither rows nor spaces is none of the protocol's.   *)
LEMMA StutterQuiet ==
  ASSUME UNCHANGED <<runState, runCard, cardSpace>>
  PROVE  ProtocolStep /\ Quiet
  BY DEF ProtocolStep, Protocol!vars, Quiet, RunSpace
-----------------------------------------------------------------------------
(* A run enqueued where its card has no open run and keeps its space.      *)
LEMMA EnqueueQuiet ==
  ASSUME StoreInv, NEW r \in RunIds, NEW c \in Cards, NEW column,
         OpenRuns(c) = {}, Enqueue(r, c, column), UNCHANGED cardSpace
  PROVE  ProtocolStep /\ Quiet
<1>1. cardSpace[c] \in Spaces /\ cardSpace' = [cardSpace EXCEPT ![c] = cardSpace[c]]
  BY DEF StoreInv, CardTypeOK
<1>2. /\ IsNextRunId(r)
      /\ runState' = [runState EXCEPT ![r] = "queued"]
      /\ runCard' = [runCard EXCEPT ![r] = c]
  BY DEF Enqueue, InsertRow
<1> QED
  BY <1>1, <1>2, SubmitQuiet

(* A fresh card id has no run.                                             *)
LEMMA NewCardNoRuns ==
  ASSUME StoreInv, NEW c \in Cards, IsNextCardId(c)
  PROVE  OpenRuns(c) = {}
<1>1. ~ Present(c)
  BY DEF IsNextCardId, Cards
<1> QED
  BY <1>1, OpenRunCard, RunStates DEF StoreInv, RunTypeOK, OpenRuns

(* Requests on cards submit, relocate or do nothing to the queue: a space  *)
(* is changed by card.update only while the card has no open run.          *)
LEMMA CardNextQuiet ==
  ASSUME StoreInv, "delete" \notin Ops, CardNext
  PROVE  ProtocolStep /\ Quiet /\ UNCHANGED <<passVars, launchVars>>
<1>1. ASSUME NEW c \in Cards, NEW column \in Columns, NEW space \in Spaces,
             CardCreate(c, column, space)
      PROVE  ProtocolStep /\ Quiet
  <2>1. OpenRuns(c) = {} /\ cardSpace' = [cardSpace EXCEPT ![c] = space]
    BY <1>1, NewCardNoRuns DEF CardCreate
  <2>2. CASE EntryEnqueues(column, "idle")
    <3>1. PICK r \in RunIds : Enqueue(r, c, column)
      BY <1>1, <2>2 DEF CardCreate
    <3>2. /\ IsNextRunId(r)
          /\ runState' = [runState EXCEPT ![r] = "queued"]
          /\ runCard' = [runCard EXCEPT ![r] = c]
      BY <3>1 DEF Enqueue, InsertRow
    <3> QED
      BY <2>1, <3>2, SubmitQuiet
  <2>3. CASE ~ EntryEnqueues(column, "idle")
    BY <1>1, <2>1, <2>3, RelocateQuiet DEF CardCreate, runVars
  <2> QED
    BY <2>2, <2>3
<1>2. ASSUME NEW source \in Cards, NEW c \in Cards, CardDuplicate(source, c)
      PROVE  ProtocolStep /\ Quiet
  <2>1. OpenRuns(c) = {} /\ cardSpace' = [cardSpace EXCEPT ![c] = cardSpace[source]]
    BY <1>2, NewCardNoRuns DEF CardDuplicate
  <2>2. cardSpace[source] \in Spaces
    BY DEF StoreInv, CardTypeOK
  <2> QED
    BY <1>2, <2>1, <2>2, RelocateQuiet DEF CardDuplicate, runVars
<1>3. ASSUME NEW c \in Cards, NEW space \in Spaces, CardUpdate(c, space)
      PROVE  ProtocolStep /\ Quiet
  BY <1>3, RelocateQuiet DEF CardUpdate, runVars
<1>4. ASSUME NEW c \in Cards, NEW column \in Columns, CardMove(c, column)
      PROVE  ProtocolStep /\ Quiet
  <2>1. CASE EntryEnqueues(column, cardStatus[c])
    BY <1>4, <2>1, EnqueueQuiet DEF CardMove
  <2>2. CASE ~ EntryEnqueues(column, cardStatus[c])
    BY <1>4, <2>2, StutterQuiet DEF CardMove, runVars
  <2> QED
    BY <2>1, <2>2
<1>5. ASSUME NEW column \in Columns, CardCreateCheck(column) PROVE ProtocolStep /\ Quiet
  BY <1>5, StutterQuiet DEF CardCreateCheck, cardVars, runVars
<1>6. ASSUME NEW q \in creating, CreateRefused(q) PROVE ProtocolStep /\ Quiet
  BY <1>6, StutterQuiet DEF CreateRefused, cardVars, runVars
<1>7. ASSUME NEW c \in Cards, CardDuplicateCheck(c) PROVE ProtocolStep /\ Quiet
  BY <1>7, StutterQuiet DEF CardDuplicateCheck, cardVars, runVars
<1>8. ASSUME NEW c \in Cards, CardArchive(c) \/ CardRestore(c) PROVE ProtocolStep /\ Quiet
  BY <1>8, StutterQuiet DEF CardArchive, CardRestore, runVars
<1>9. ASSUME NEW b \in Boards, BoardArchive(b) \/ BoardRestore(b) PROVE ProtocolStep /\ Quiet
  BY <1>9, StutterQuiet DEF BoardArchive, BoardRestore, runVars
<1>10. \A c \in Cards : ~ CardDelete(c)
  BY DEF CardDelete
<1>11. UNCHANGED <<passVars, launchVars>>
  BY DEF CardNext, CardCreateCheck, CardCreate, CreateRefused, CardDuplicateCheck, CardDuplicate,
         CardUpdate, CardDelete, CardArchive, CardRestore, BoardArchive, BoardRestore, CardMove
<1> QED
  BY <1>1, <1>2, <1>3, <1>4, <1>5, <1>6, <1>7, <1>8, <1>9, <1>10, <1>11 DEF CardNext

(* Requests on runs close a queued run, submit one, or only note a call.   *)
LEMMA RequestNextQuiet ==
  ASSUME StoreInv, RequestNext
  PROVE  ProtocolStep /\ Quiet /\ UNCHANGED <<passVars, launchVars>>
<1>1. ASSUME NEW c \in Cards, RunCancelQueued(c) PROVE ProtocolStep /\ Quiet
  <2>1. PICK r \in OpenRuns(c) : CloseRun(r, "cancelled", "failed")
    BY <1>1 DEF RunCancelQueued
  <2>2. r \in RunIds /\ runState[r] \in Open /\ "cancelled" \in Outcome
    BY DEF OpenRuns, Outcome
  <2> QED
    BY <1>1, <2>1, <2>2, CloseQuiet DEF RunCancelQueued, CloseRun
<1>2. ASSUME NEW c \in Cards, NEW column \in Columns, RunRetryEnqueue(c, column)
      PROVE  ProtocolStep /\ Quiet
  <2>1. PICK r \in RunIds : Enqueue(r, c, column)
    BY <1>2 DEF RunRetryEnqueue
  <2>2. OpenRuns(c) = {} /\ UNCHANGED cardSpace
    BY <1>2 DEF RunRetryEnqueue, RetryAllowed
  <2> QED
    BY <2>1, <2>2, EnqueueQuiet
<1>3. ASSUME NEW c \in Cards, NEW supplied, NEW pane, NEW outcome, RunDone(c, supplied, pane, outcome)
      PROVE  ProtocolStep /\ Quiet
  BY <1>3, StutterQuiet DEF RunDone, cardVars, runVars
<1>4. ASSUME NEW c \in Cards, NEW r \in RunIds, RunPaneExited(c, r) PROVE ProtocolStep /\ Quiet
  BY <1>4, StutterQuiet DEF RunPaneExited, cardVars, runVars
<1>5. ASSUME NEW c \in Cards, RunCancel(c) \/ RunRetryCheck(c) PROVE ProtocolStep /\ Quiet
  BY <1>5, StutterQuiet DEF RunCancel, RunRetryCheck, cardVars, runVars
<1>6. ASSUME NEW c \in Cards, NEW column \in Columns, RunRetryRefused(c, column)
      PROVE  ProtocolStep /\ Quiet
  BY <1>6, StutterQuiet DEF RunRetryRefused, cardVars, runVars
<1>7. UNCHANGED <<passVars, launchVars>>
  BY DEF RequestNext, RunDone, RunPaneExited, RunCancel, RunCancelQueued, RunRetryCheck,
         RunRetryEnqueue, RunRetryRefused
<1> QED
  BY <1>1, <1>2, <1>3, <1>4, <1>5, <1>6, <1>7 DEF RequestNext

(* A finalization closes its run, with or without a hop.                   *)
LEMMA FinalizeNextQuiet ==
  ASSUME StoreInv, HandlerTypeOK, FinalizeNext
  PROVE  ProtocolStep /\ Quiet /\ UNCHANGED <<passVars, launchVars>>
<1>1. ASSUME NEW f \in finalizing, FinalizeRest(f) PROVE ProtocolStep /\ Quiet
  BY <1>1, FinalizeFacts, CloseQuiet DEF FinalizeRest, FinalizeEffects, CloseRun
<1>2. ASSUME NEW f \in finalizing, FinalizeHop(f) PROVE ProtocolStep /\ Quiet
  <2>1. f.run \in RunIds /\ f.outcome \in Outcome /\ runState[f.run] \in Open
    BY <1>2, FinalizeFacts DEF FinalizeHop
  <2>2. PICK n \in RunIds :
          /\ InsertRow(n, runCard[f.run], FinalizeTarget(f), runChain[f.run] + 1)
          /\ runState' = [runState EXCEPT ![f.run] = f.outcome, ![n] = "queued"]
    BY <1>2 DEF FinalizeHop
  <2>3. UNCHANGED cardSpace
    BY <1>2 DEF FinalizeHop, FinalizeEffects
  <2> QED
    BY <2>1, <2>2, <2>3, HopQuiet DEF InsertRow
<1>3. ASSUME NEW f \in finalizing, FinalizeNothing(f) PROVE ProtocolStep /\ Quiet
  BY <1>3, StutterQuiet DEF FinalizeNothing, cardVars, runVars
<1>4. ASSUME NEW p \in killing, KillPane(p) PROVE ProtocolStep /\ Quiet
  BY <1>4, StutterQuiet DEF KillPane, cardVars, runVars
<1>5. ASSUME NEW r \in RunIds, TimeoutClassify(r) PROVE ProtocolStep /\ Quiet
  BY <1>5, StutterQuiet DEF TimeoutClassify, cardVars, runVars
<1>6. UNCHANGED <<passVars, launchVars>>
  BY DEF FinalizeNext, FinalizeRest, FinalizeHop, FinalizeEffects, FinalizeNothing, KillPane,
         TimeoutClassify
<1> QED
  BY <1>1, <1>2, <1>3, <1>4, <1>5, <1>6 DEF FinalizeNext

(* Watchers and probes write no row.                                       *)
LEMMA WatchNextQuiet ==
  ASSUME WatchNext
  PROVE  ProtocolStep /\ Quiet /\ UNCHANGED <<passVars, launchVars>>
<1>1. UNCHANGED <<runVars, cardSpace, passVars, launchVars>>
  BY DEF WatchNext, PaneDies, Signal, PaneEvent, ProbeRead, ProbeStep, ProbeAnswer, ProbeUnknown,
         ProbeStale, ProbeGone, ProbeAlive, AdoptAlive, cardVars
<1> QED
  BY <1>1, StutterQuiet DEF runVars
-----------------------------------------------------------------------------
(* The cap, on the started runs and the launches that may still start.     *)
LEMMA CapForm ==
  ConcurrencyCap <=> Cardinality(StartedRuns \cup Promotable) <= Capacity
  BY DEF ConcurrencyCap, Promotable

(* Between two passes no launch is in flight, so that what PassBegin reads *)
(* is all there is to count.                                               *)
LEMMA PassBeginLaunchInv ==
  ASSUME IInv, LaunchInv, PassBegin
  PROVE  LaunchInv'
<1>1. /\ pass = "idle" /\ pass' = "claiming"
      /\ passBusy' = {RunSpace(r) : r \in StartedRuns}
      /\ passCount' = Cardinality(StartedRuns)
      /\ UNCHANGED <<runState, runCard, cardSpace, launchCard>>
  BY DEF PassBegin, cardVars, runVars, launchVars
<1>2. /\ StartedRuns' = StartedRuns /\ QueuedRuns' = QueuedRuns
      /\ Launching' = Launching /\ Promotable' = Promotable
      /\ \A r \in RunIds : RunSpace(r)' = RunSpace(r)
  BY <1>1 DEF StartedRuns, QueuedRuns, Launching, Promotable, RunSpace
<1>3. Launching = {} /\ Promotable = {}
  BY <1>1 DEF LaunchInv, Promotable
<1>4. /\ \A q \in StartedRuns : RunSpace(q)' = RunSpace(q) /\ RunSpace(q) \in passBusy'
      /\ Cardinality(StartedRuns) \in Nat
  BY <1>1, <1>2, RowsFinite DEF StartedRuns
<1>5. ConcurrencyCap'
  BY <1>1, <1>2 DEF LaunchInv, ConcurrencyCap, Capacity
<1>6. SpaceExclusive'
  BY <1>2, <1>4 DEF LaunchInv, SpaceExclusive
<1>7. pass' = "claiming" => /\ \A q \in StartedRuns' : RunSpace(q)' \in passBusy'
                           /\ Cardinality(StartedRuns') <= passCount'
  BY <1>1, <1>2, <1>4
<1> QED
  BY <1>2, <1>3, <1>5, <1>6, <1>7 DEF LaunchInv

(* The claim: heads of spaces that were free when the pass began and have  *)
(* not been taken since, as many as there are slots.                       *)
LEMMA PassClaimLaunchInv ==
  ASSUME IInv, LaunchInv, PassClaim
  PROVE  LaunchInv'
<1>1. /\ pass = "claiming" /\ pass' = "launching"
      /\ launchCard' = [r \in RunIds |-> IF r \in Claimed THEN runCard[r] ELSE NoCard]
      /\ UNCHANGED <<runState, runCard, cardSpace>>
  BY DEF PassClaim, cardVars, runVars
<1>2. /\ StartedRuns' = StartedRuns /\ QueuedRuns' = QueuedRuns
      /\ \A r \in RunIds : RunSpace(r)' = RunSpace(r)
  BY <1>1 DEF StartedRuns, QueuedRuns, RunSpace
<1>3. Claimed \subseteq Heads /\ Heads \subseteq QueuedRuns /\ QueuedRuns \subseteq RunIds
  BY DEF Claimed, Heads, QueuedRuns
<1>4. Launching' \subseteq Claimed /\ Promotable' \subseteq Claimed
  BY <1>1, <1>3 DEF Launching, Promotable
<1>5. \A r \in Launching' : runState'[r] # "none"
  BY <1>1, <1>3, <1>4 DEF QueuedRuns
<1>6. \A r \in Promotable', q \in StartedRuns' : RunSpace(q)' # RunSpace(r)'
  <2>1. \A r \in Heads, q \in StartedRuns : RunSpace(q) # RunSpace(r)
    BY <1>1 DEF LaunchInv, Heads
  <2>2. StartedRuns \subseteq RunIds
    BY DEF StartedRuns
  <2> QED
    BY <1>2, <1>3, <1>4, <2>1, <2>2
<1>7. \A r \in Promotable', q \in QueuedRuns' : q < r => RunSpace(q)' # RunSpace(r)'
  <2>1. \A r \in Heads, q \in QueuedRuns : q < r => RunSpace(q) # RunSpace(r)
    BY DEF Heads
  <2> QED
    BY <1>2, <1>3, <1>4, <2>1
<1>8. SpaceExclusive'
  BY <1>2 DEF LaunchInv, SpaceExclusive, StartedRuns
<1>9. ConcurrencyCap'
  <2>1. StartedRuns \subseteq RunIds /\ Claimed \subseteq RunIds
    BY <1>3 DEF StartedRuns
  <2>2. /\ IsFiniteSet(StartedRuns) /\ IsFiniteSet(Claimed)
        /\ Cardinality(StartedRuns) \in Nat /\ Cardinality(Claimed) \in Nat
    BY <2>1, RowsFinite
  <2>3. Capacity \in Int /\ passCount \in Int /\ Capacity' = Capacity
    BY LifecycleAssumption DEF Capacity, IInv, DispatchTypeOK
  <2>4. Claimed = OldestFirst(Heads, Capacity - passCount)
    BY DEF Claimed, OldestFirst
  <2>5. /\ Capacity - passCount <= 0 => Claimed = {}
        /\ Capacity - passCount >= 0 => Cardinality(Claimed) <= Capacity - passCount
    <3>1. Heads \in SUBSET RunIds
      BY <1>3
    <3>2. Capacity - passCount \in Int
      BY <2>3
    <3> QED
      BY <2>4, <3>1, <3>2, OldestFirstBound
  <2>6. Cardinality(StartedRuns \cup Claimed) <= Capacity
    <3>1. CASE Claimed = {}
      <4>1. Launching = {} /\ Promotable = {}
        BY <1>1 DEF LaunchInv, Promotable
      <4> QED
        BY <3>1, <4>1, CapForm DEF LaunchInv
    <3>2. CASE Claimed # {}
      <4>1. Cardinality(Claimed) <= Capacity - passCount
        BY <2>3, <2>5, <3>2
      <4>2. Cardinality(StartedRuns) <= passCount
        BY <1>1 DEF LaunchInv
      <4>3. /\ Cardinality(StartedRuns \cup Claimed)
                 = Cardinality(StartedRuns) + Cardinality(Claimed)
                   - Cardinality(StartedRuns \cap Claimed)
            /\ Cardinality(StartedRuns \cap Claimed) \in Nat
        BY <2>1, <2>2, RowsFinite, FS_Union
      <4> QED
        BY <2>2, <2>3, <4>1, <4>2, <4>3
    <3> QED
      BY <3>1, <3>2
  <2>7. StartedRuns' \cup Promotable' \subseteq StartedRuns \cup Claimed
    BY <1>2, <1>4
  <2>8. /\ Cardinality(StartedRuns' \cup Promotable') <= Cardinality(StartedRuns \cup Claimed)
        /\ Cardinality(StartedRuns' \cup Promotable') \in Nat
        /\ Cardinality(StartedRuns \cup Claimed) \in Nat
    BY <2>1, <2>7, RowsFinite, FS_Subset
  <2>9. Cardinality(StartedRuns' \cup Promotable') <= Capacity'
    BY <2>3, <2>6, <2>8
  <2>10. (ConcurrencyCap <=> Cardinality(StartedRuns \cup Promotable) <= Capacity)'
    BY CapForm, PTL
  <2> QED
    BY <2>9, <2>10
<1> QED
  BY <1>1, <1>5, <1>6, <1>7, <1>8, <1>9 DEF LaunchInv

(* The protocol counts as the daemon does.                                 *)
LEMMA CountSame ==
  \A S : Protocol!Cardinality(S) = Cardinality(S)
  BY DEF Protocol!Cardinality, Cardinality

(* register_spawned_run of a row that is still queued starts the oldest    *)
(* run of a free space, within the capacity.                               *)
LEMMA RegisterStarts ==
  ASSUME IInv, LaunchInv, NEW r \in RunIds, Register(r), runState[r] = "queued"
  PROVE  ProtocolStep /\ LaunchInv'
<1>1. /\ launchCard[r] # NoCard
      /\ runState' = [runState EXCEPT ![r] = "started"]
      /\ launchCard' = [launchCard EXCEPT ![r] = NoCard]
      /\ UNCHANGED <<runCard, cardSpace, pass, passBusy, passCount>>
  BY DEF Register, StillQueued, ClearLaunch, Launching, passVars
<1>2. runState \in [RunIds -> RunState] /\ launchCard \in [RunIds -> Cards \cup {NoCard}]
  BY DEF IInv, StoreInv, RunTypeOK, DispatchTypeOK
<1>3. /\ StartedRuns' = StartedRuns \cup {r} /\ QueuedRuns' = QueuedRuns \ {r}
      /\ Launching' = Launching \ {r} /\ Promotable' = Promotable \ {r}
      /\ \A x \in RunIds : RunSpace(x)' = RunSpace(x)
      /\ r \in Promotable /\ r \notin StartedRuns /\ r \in QueuedRuns
  BY <1>1, <1>2 DEF StartedRuns, QueuedRuns, Launching, Promotable, RunSpace
<1>4. pass = "launching"
  BY <1>3 DEF LaunchInv, Promotable
<1>5. /\ \A q \in StartedRuns : RunSpace(q) # RunSpace(r)
      /\ \A q \in QueuedRuns : q < r => RunSpace(q) # RunSpace(r)
  BY <1>3 DEF LaunchInv
<1>6. Cardinality(StartedRuns) < Capacity
  <2>1. /\ StartedRuns \subseteq RunIds /\ StartedRuns \cup {r} \subseteq StartedRuns \cup Promotable
        /\ StartedRuns \cup Promotable \subseteq RunIds
    BY <1>3 DEF StartedRuns, Promotable, QueuedRuns
  <2>2. Cardinality(StartedRuns \cup {r}) = Cardinality(StartedRuns) + 1
    BY <1>3, <2>1, RowsFinite, FS_AddElement
  <2>3. /\ Cardinality(StartedRuns \cup {r}) <= Cardinality(StartedRuns \cup Promotable)
        /\ Cardinality(StartedRuns) \in Nat
        /\ Cardinality(StartedRuns \cup Promotable) \in Nat
    BY <2>1, RowsFinite, FS_Subset
  <2>4. Cardinality(StartedRuns \cup Promotable) <= Capacity /\ Capacity \in Int
    BY CapForm, LifecycleAssumption DEF LaunchInv, Capacity
  <2> QED
    BY <2>2, <2>3, <2>4
<1>7. Protocol!Start(r)
  <2>1. Protocol!Queued = QueuedRuns /\ Protocol!Started = StartedRuns
    BY DEF Protocol!Queued, Protocol!Started, QueuedRuns, StartedRuns
  <2>2. \A q : Protocol!SpaceOf(q) = RunSpace(q)
    BY DEF Protocol!SpaceOf, RunSpace
  <2>3. r \in Protocol!Queued /\ Protocol!Cardinality(Protocol!Started) < Capacity
    BY <1>3, <1>6, <2>1, CountSame
  <2>4. \A q \in Protocol!Queued : q < r => Protocol!SpaceOf(q) # Protocol!SpaceOf(r)
    BY <1>5, <2>1, <2>2
  <2>5. \A q \in Protocol!Started : Protocol!SpaceOf(q) # Protocol!SpaceOf(r)
    BY <1>5, <2>1, <2>2
  <2> QED
    BY <1>1, <2>3, <2>4, <2>5 DEF Protocol!Start
<1>8. ProtocolStep
  BY <1>7 DEF ProtocolStep, Protocol!Next
<1>9. SpaceExclusive'
  <2>1. StartedRuns \subseteq RunIds
    BY DEF StartedRuns
  <2> QED
    BY <1>3, <1>5, <2>1 DEF LaunchInv, SpaceExclusive
<1>10. ConcurrencyCap'
  <2>1. StartedRuns' \cup Promotable' = StartedRuns \cup Promotable /\ Capacity' = Capacity
    BY <1>3 DEF Capacity
  <2>2. (ConcurrencyCap <=> Cardinality(StartedRuns \cup Promotable) <= Capacity)'
    BY CapForm, PTL
  <2> QED
    BY <2>1, <2>2, CapForm DEF LaunchInv
<1>11. \A x \in Promotable' : \A q \in StartedRuns' : RunSpace(q)' # RunSpace(x)'
  <2>1. ASSUME NEW x \in Promotable, x # r PROVE RunSpace(x) # RunSpace(r)
    <3>1. x \in QueuedRuns /\ (x < r \/ r < x)
      BY <2>1 DEF Promotable, QueuedRuns, RunIds
    <3> QED
      BY <1>3, <1>5, <3>1 DEF LaunchInv
  <2>2. StartedRuns \subseteq RunIds /\ Promotable \subseteq RunIds
    BY DEF StartedRuns, Promotable, QueuedRuns
  <2> QED
    BY <1>3, <2>1, <2>2 DEF LaunchInv
<1>12. \A x \in Promotable' : \A q \in QueuedRuns' : q < x => RunSpace(q)' # RunSpace(x)'
  <2>1. QueuedRuns \subseteq RunIds /\ Promotable \subseteq RunIds
    BY DEF Promotable, QueuedRuns
  <2> QED
    BY <1>3, <2>1 DEF LaunchInv
<1>13. \A x \in Launching' : runState'[x] # "none"
  BY <1>1, <1>2, <1>3 DEF LaunchInv, Launching
<1>14. pass' = "launching"
  BY <1>1, <1>4
<1> QED
  BY <1>8, <1>9, <1>10, <1>11, <1>12, <1>13, <1>14 DEF LaunchInv

(* A pass and its launches start runs by registration only.                *)
LEMMA DispatchNextImplements ==
  ASSUME IInv, LaunchInv, DispatchNext
  PROVE  ProtocolStep /\ LaunchInv'
<1>0. passCount \in Nat /\ StoreInv
  BY DEF IInv, DispatchTypeOK
<1>1. CASE PassBegin
  BY <1>1, PassBeginLaunchInv, StutterQuiet DEF PassBegin, cardVars, runVars
<1>2. CASE PassClaim
  BY <1>2, PassClaimLaunchInv, StutterQuiet DEF PassClaim, cardVars, runVars
<1>3. ASSUME NEW r \in RunIds, SpawnFail(r) PROVE ProtocolStep /\ LaunchInv'
  <2>1. ProtocolStep /\ Quiet
    <3>1. CASE runState[r] \in Open
      <4>1. CloseRun(r, "fail", "failed") /\ "fail" \in Outcome
        BY <1>3, <3>1 DEF SpawnFail, Outcome
      <4>2. UNCHANGED cardSpace
        BY <1>3 DEF SpawnFail
      <4> QED
        BY <1>0, <3>1, <4>1, <4>2, CloseQuiet DEF CloseRun
    <3>2. CASE runState[r] \notin Open
      BY <1>3, <3>2, StutterQuiet DEF SpawnFail, runVars
    <3> QED
      BY <3>1, <3>2
  <2>2. /\ UNCHANGED passVars
        /\ \A x \in RunIds : launchCard'[x] # NoCard => launchCard[x] # NoCard
    BY <1>3 DEF SpawnFail, ClearLaunch, IInv, DispatchTypeOK
  <2> QED
    BY <1>0, <2>1, <2>2, QuietKeepsLaunchInv
<1>4. ASSUME NEW r \in RunIds, SpawnOk(r) PROVE ProtocolStep /\ LaunchInv'
  <2>1. ProtocolStep /\ Quiet
    BY <1>4, StutterQuiet DEF SpawnOk, cardVars, runVars
  <2>2. UNCHANGED passVars /\ launchCard' = launchCard
    BY <1>4 DEF SpawnOk
  <2> QED
    BY <1>0, <2>1, <2>2, QuietKeepsLaunchInv
<1>5. ASSUME NEW r \in RunIds, Register(r) PROVE ProtocolStep /\ LaunchInv'
  <2>1. CASE runState[r] = "queued"
    BY <1>5, <2>1, RegisterStarts
  <2>2. CASE runState[r] # "queued"
    <3>1. ProtocolStep /\ Quiet
      BY <1>5, <2>2, StutterQuiet DEF Register, StillQueued
    <3>2. /\ UNCHANGED passVars
          /\ \A x \in RunIds : launchCard'[x] # NoCard => launchCard[x] # NoCard
      BY <1>5 DEF Register, ClearLaunch, IInv, DispatchTypeOK
    <3> QED
      BY <1>0, <3>1, <3>2, QuietKeepsLaunchInv
  <2> QED
    BY <2>1, <2>2
<1>6. CASE PassEnd
  <2>1. ProtocolStep
    BY <1>6, StutterQuiet DEF PassEnd, cardVars, runVars
  <2>2. /\ pass' = "idle" /\ Launching = {}
        /\ UNCHANGED <<runState, runCard, cardSpace, launchCard>>
    BY <1>6 DEF PassEnd, cardVars, runVars, launchVars
  <2>3. LaunchInv'
    BY <2>2
    DEF LaunchInv, Promotable, Launching, StartedRuns, QueuedRuns, RunSpace, SpaceExclusive,
        ConcurrencyCap, Capacity
  <2> QED
    BY <2>1, <2>3
<1> QED
  BY <1>1, <1>2, <1>3, <1>4, <1>5, <1>6 DEF DispatchNext
-----------------------------------------------------------------------------
(* The daemon starts with an empty queue and no launch.                    *)
LEMMA InitImplements ==
  ASSUME Init
  PROVE  Protocol!Init /\ LaunchInv
<1>1. Protocol!Init
  BY DEF Init, Protocol!Init
<1>2. StartedRuns = {} /\ QueuedRuns = {} /\ Launching = {} /\ Promotable = {} /\ pass = "idle"
  BY DEF Init, StartedRuns, QueuedRuns, Launching, Promotable
<1>3. ConcurrencyCap
  <2>1. StartedRuns \cup Promotable = {} /\ Capacity \in Int /\ 0 <= Capacity
    BY <1>2, LifecycleAssumption DEF Capacity
  <2> QED
    BY <2>1, FS_EmptySet, CapForm
<1> QED
  BY <1>1, <1>2, <1>3 DEF LaunchInv, SpaceExclusive

(* Every step of the daemon is a step of the protocol or none, and what    *)
(* the passes rely on is kept.  A restart forgets every launch.            *)
LEMMA NextImplements ==
  ASSUME IInv, LaunchInv, "delete" \notin Ops, [Next]_vars
  PROVE  ProtocolStep /\ LaunchInv'
<1>0. StoreInv /\ HandlerTypeOK /\ passCount \in Nat
  BY DEF IInv, DispatchTypeOK
<1>1. CASE CardNext \/ RequestNext \/ FinalizeNext \/ WatchNext
  <2>1. ProtocolStep /\ Quiet /\ UNCHANGED <<passVars, launchVars>>
    BY <1>0, <1>1, CardNextQuiet, RequestNextQuiet, FinalizeNextQuiet, WatchNextQuiet
  <2>2. UNCHANGED passVars /\ launchCard' = launchCard
    BY <2>1 DEF launchVars
  <2> QED
    BY <1>0, <2>1, <2>2, QuietKeepsLaunchInv
<1>2. CASE Crash
  <2>1. ProtocolStep
    BY <1>2, StutterQuiet DEF Crash, cardVars, runVars
  <2>2. /\ UNCHANGED <<runState, runCard, cardSpace>> /\ pass' = "idle"
        /\ launchCard' = [r \in RunIds |-> NoCard]
    BY <1>2 DEF Crash, cardVars, runVars
  <2>3. /\ StartedRuns' = StartedRuns /\ SpaceExclusive'
        /\ Launching' = {} /\ Promotable' = {}
    BY <2>2 DEF LaunchInv, SpaceExclusive, StartedRuns, RunSpace, Launching, Promotable
  <2>4. ConcurrencyCap'
    <3>1. StartedRuns' \cup Promotable' \subseteq StartedRuns \cup Promotable
      BY <2>3
    <3>2. StartedRuns \cup Promotable \subseteq RunIds
      BY DEF StartedRuns, Promotable, QueuedRuns
    <3>3. /\ Cardinality(StartedRuns' \cup Promotable') <= Cardinality(StartedRuns \cup Promotable)
          /\ Cardinality(StartedRuns' \cup Promotable') \in Nat
          /\ Cardinality(StartedRuns \cup Promotable) \in Nat
      BY <3>1, <3>2, RowsFinite, FS_Subset
    <3>4. Capacity \in Int /\ Capacity' = Capacity
      BY LifecycleAssumption DEF Capacity
    <3>5. (ConcurrencyCap <=> Cardinality(StartedRuns \cup Promotable) <= Capacity)'
      BY CapForm, PTL
    <3> QED
      BY <3>3, <3>4, <3>5, CapForm DEF LaunchInv
  <2>5. LaunchInv'
    BY <2>2, <2>3, <2>4 DEF LaunchInv
  <2> QED
    BY <2>1, <2>5
<1>3. CASE UNCHANGED vars
  <2>1. UNCHANGED <<runState, runCard, cardSpace>>
    BY <1>3 DEF vars, cardVars, runVars
  <2>2. UNCHANGED passVars /\ launchCard' = launchCard
    BY <1>3 DEF vars, launchVars
  <2>3. ProtocolStep /\ Quiet
    BY <2>1, StutterQuiet
  <2> QED
    BY <1>0, <2>2, <2>3, QuietKeepsLaunchInv
<1> QED
  BY <1>1, <1>2, <1>3, DispatchNextImplements DEF Next

(* As long as no card is deleted, what a pass has read or claimed stays    *)
(* valid until register_spawned_run acts on it.                            *)
THEOREM LaunchesStayValid ==
  ASSUME "delete" \notin Ops
  PROVE  Spec => []LaunchInv
<1>1. Init => LaunchInv
  BY InitImplements
<1>2. IInv /\ LaunchInv /\ [Next]_vars => LaunchInv'
  BY NextImplements
<1> QED
  BY <1>1, <1>2, IInvAlways, PTL DEF Spec

(* As long as no card is deleted, the daemon implements RunProtocol: every *)
(* promotion by register_spawned_run starts the oldest queued run of a     *)
(* free space within max_concurrent, whatever happened since its pass read *)
(* the queue, and every other handler submits, closes, hops, relocates a   *)
(* card without an open run, or leaves the queue alone.                    *)
THEOREM DaemonImplementsProtocol ==
  ASSUME "delete" \notin Ops
  PROVE  Spec => ImplementsRunProtocol
<1>1. Init => Protocol!Init
  BY InitImplements
<1>2. IInv /\ LaunchInv /\ [Next]_vars => [Protocol!Next]_(Protocol!vars)
  BY NextImplements DEF ProtocolStep
<1> QED
  BY <1>1, <1>2, IInvAlways, LaunchesStayValid, PTL
  DEF Spec, ImplementsRunProtocol, Protocol!Spec

(* As long as no card is deleted, two started runs never share a space,    *)
(* although pass.rs reads the started runs and the queue under separate    *)
(* locks and register_spawned_run promotes later without looking again.    *)
THEOREM SpacesExclusive ==
  ASSUME "delete" \notin Ops
  PROVE  Spec => []SpaceExclusive
<1>1. LaunchInv => SpaceExclusive
  BY DEF LaunchInv
<1> QED
  BY <1>1, LaunchesStayValid, PTL

(* As long as no card is deleted, started runs and launches in flight      *)
(* together never exceed max_concurrent.                                   *)
THEOREM CapRespected ==
  ASSUME "delete" \notin Ops
  PROVE  Spec => []ConcurrencyCap
<1>1. LaunchInv => ConcurrencyCap
  BY DEF LaunchInv
<1> QED
  BY <1>1, LaunchesStayValid, PTL

-----------------------------------------------------------------------------
(* No wake of the dispatcher is lost, deletions, probes and restarts       *)
(* included.  The channel holds a message, or a finalizer is about to send *)
(* one, whenever a run was enqueued or closed since the pass read the      *)
(* store.  In a state with neither (Settled) the pass has therefore read   *)
(* what is still there, and each queued run was claimed, or its space or   *)
(* the capacity is taken by what was started or claimed.                   *)

\* Nothing has asked, or is about to ask, for a pass.
Settled == ~ wake /\ killing = {}

\* The runs that hold a space and a slot while the pass goes on.
Holding == StartedRuns \cup Launching

Served(r) ==
  \/ \E q \in Holding : RunSpace(q) = RunSpace(r)
  \/ Cardinality(Holding) >= Capacity

WakeInv ==
  /\ pass # "launching" => Launching = {}
  /\ Settled =>
       /\ Launching \subseteq QueuedRuns
       /\ pass = "claiming" => /\ \A s \in passBusy : \E q \in StartedRuns : RunSpace(q) = s
                               /\ passCount <= Cardinality(StartedRuns)
       /\ pass # "claiming" => \A r \in QueuedRuns : Served(r)

-----------------------------------------------------------------------------
(* A set of rows has an oldest one: the sets of older rows of its members  *)
(* are ordered by inclusion, and one of them is smallest.                  *)
LEMMA OldestRow ==
  ASSUME NEW T \in SUBSET RunIds, T # {}
  PROVE  \E m \in T : \A t \in T : ~ (t < m)
<1> DEFINE Older(t) == {q \in T : q < t}
           U == {Older(t) : t \in T}
<1>1. IsFiniteSet(T)
  BY RowsFinite
<1>2. IsWellFoundedOn(StrictSubsetOrdering(T), SUBSET T)
  BY <1>1, FS_StrictSubsetOrderingWellFounded, FS_FiniteSubsetsOfFinite
<1>3. U \subseteq SUBSET T /\ U # {}
  OBVIOUS
<1>4. PICK u \in U : \A v \in U : ~ (<<v, u>> \in StrictSubsetOrdering(T))
  <2> HIDE DEF U
  <2> QED
    BY <1>2, <1>3, WFMin
<1>5. PICK m \in T : u = Older(m)
  BY <1>4
<1>6. ASSUME NEW t \in T, t < m PROVE FALSE
  <2>1. Older(t) \in U /\ Older(t) \in SUBSET T /\ Older(m) \in SUBSET T
    OBVIOUS
  <2>2. \A q \in T : q < t => q < m
    BY <1>6 DEF RunIds
  <2>3. Older(t) \subseteq Older(m)
    BY <2>2
  <2>4. t \in Older(m) /\ t \notin Older(t)
    BY <1>6 DEF RunIds
  <2>5. <<Older(t), Older(m)>> \in StrictSubsetOrdering(T)
    <3> HIDE DEF Older
    <3> QED
      BY <2>1, <2>3, <2>4 DEF StrictSubsetOrdering
  <2> QED
    BY <1>4, <1>5, <2>1, <2>5
<1> QED
  BY <1>6

(* When a pass with k free slots leaves a head out, it has claimed at      *)
(* least k: all that are older than the oldest one left out.               *)
LEMMA OldestFirstFull ==
  ASSUME NEW S \in SUBSET RunIds, NEW k \in Int, NEW x \in S, x \notin OldestFirst(S, k)
  PROVE  Cardinality(OldestFirst(S, k)) >= k
<1> DEFINE Out == {r \in S : r \notin OldestFirst(S, k)}
           Before(r) == {h \in S : h < r}
<1>1. Out \in SUBSET RunIds /\ Out # {}
  OBVIOUS
<1>2. PICK m \in Out : \A t \in Out : ~ (t < m)
  BY <1>1, OldestRow
<1>3. Before(m) \subseteq OldestFirst(S, k)
  BY <1>2
<1>4. Cardinality(Before(m)) \in Nat
  <2>1. Before(m) \subseteq RunIds
    OBVIOUS
  <2> QED
    BY <2>1, RowsFinite
<1>5. ~ (Cardinality(Before(m)) < k)
  BY <1>2 DEF OldestFirst
<1>6. OldestFirst(S, k) \subseteq RunIds
  BY DEF OldestFirst
<1> HIDE DEF Before, Out
<1>7. /\ IsFiniteSet(OldestFirst(S, k)) /\ Cardinality(OldestFirst(S, k)) \in Nat
      /\ Cardinality(Before(m)) <= Cardinality(OldestFirst(S, k))
  BY <1>3, <1>6, RowsFinite, FS_Subset
<1> QED
  BY <1>4, <1>5, <1>7

-----------------------------------------------------------------------------
(* A step after which a message or a finalizer is there needs no more.     *)
LEMMA AwakeStep ==
  ASSUME WakeInv, ~ Settled', pass' = pass, \A r \in RunIds : launchCard'[r] # NoCard => launchCard[r] # NoCard
  PROVE  WakeInv'
  BY DEF WakeInv, Launching

(* A step that opens, starts and ends no run, and leaves the pass, its     *)
(* launches and the spaces of open runs alone.                             *)
LEMMA UndisturbedStep ==
  ASSUME IInv, WakeInv, Settled' => Settled,
         UNCHANGED <<passVars, launchCard>>,
         \A r \in RunIds : runState'[r] \in Open <=> runState[r] \in Open,
         \A r \in RunIds : runState[r] \in Open =>
           runState'[r] = runState[r] /\ RunSpace(r)' = RunSpace(r)
  PROVE  WakeInv'
<1>1. StartedRuns' = StartedRuns /\ QueuedRuns' = QueuedRuns
  BY RunStates DEF StartedRuns, QueuedRuns
<1>2. /\ Launching' = Launching /\ Holding' = Holding /\ Capacity' = Capacity
      /\ UNCHANGED <<pass, passBusy, passCount>>
  BY <1>1 DEF Launching, Holding, passVars, Capacity
<1>3. \A r \in StartedRuns \cup QueuedRuns : RunSpace(r)' = RunSpace(r)
  BY RunStates DEF StartedRuns, QueuedRuns
<1> SUFFICES ASSUME Settled'
             PROVE  /\ Launching' \subseteq QueuedRuns'
                    /\ pass' = "claiming" =>
                         /\ \A s \in passBusy' : \E q \in StartedRuns' : RunSpace(q)' = s
                         /\ passCount' <= Cardinality(StartedRuns')
                    /\ pass' # "claiming" => \A r \in QueuedRuns' : Served(r)'
  BY <1>2 DEF WakeInv
<1>4. Launching \subseteq QueuedRuns /\ Holding \subseteq StartedRuns \cup QueuedRuns
  BY DEF WakeInv, Holding
<1>5. ASSUME pass # "claiming", NEW r \in QueuedRuns PROVE Served(r)'
  <2>1. Served(r)
    BY <1>5 DEF WakeInv
  <2> QED
    BY <1>2, <1>3, <1>4, <2>1 DEF Served
<1> QED
  BY <1>1, <1>2, <1>3, <1>4, <1>5 DEF WakeInv

(* A step that writes no run row and no card's space.                      *)
LEMMA NoRunStep ==
  ASSUME IInv, WakeInv, Settled' => Settled,
         UNCHANGED <<runVars, cardSpace, passVars, launchCard>>
  PROVE  WakeInv'
  BY UndisturbedStep DEF runVars, RunSpace

(* Enqueues and closes send a message.                                     *)
LEMMA SentStep ==
  ASSUME WakeInv, wake' = TRUE, UNCHANGED passVars,
         \A r \in RunIds : launchCard'[r] # NoCard => launchCard[r] # NoCard
  PROVE  WakeInv'
  BY AwakeStep DEF Settled, passVars

-----------------------------------------------------------------------------
(* Requests on cards: a card with an open run keeps its space and its      *)
(* rows.                                                                   *)
LEMMA CardNextWake ==
  ASSUME IInv, WakeInv, CardNext
  PROVE  WakeInv'
<1>1. ASSUME NEW c \in Cards, NEW column \in Columns, NEW space \in Spaces,
             CardCreate(c, column, space)
      PROVE  WakeInv'
  <2>1. CASE EntryEnqueues(column, "idle")
    BY <1>1, <2>1, SentStep DEF CardCreate, Enqueue, launchVars
  <2>2. CASE ~ EntryEnqueues(column, "idle")
    <3>1. /\ UNCHANGED <<runVars, passVars, launchCard, wake, killing>>
          /\ cardSpace' = [cardSpace EXCEPT ![c] = space]
          /\ ~ Present(c)
      BY <1>1, <2>2 DEF CardCreate, launchVars, IsNextCardId, Cards
    <3>2. ASSUME NEW r \in RunIds, runState[r] \in Open PROVE RunSpace(r)' = RunSpace(r)
      BY <3>1, <3>2, OpenRunCard DEF RunSpace, runVars, IInv, StoreInv, CardTypeOK
    <3> QED
      BY <3>1, <3>2, UndisturbedStep DEF Settled, runVars
  <2> QED
    BY <2>1, <2>2
<1>2. ASSUME NEW source \in Cards, NEW c \in Cards, CardDuplicate(source, c) PROVE WakeInv'
  <2>1. /\ UNCHANGED <<runVars, passVars, launchCard, wake, killing>>
        /\ cardSpace' = [cardSpace EXCEPT ![c] = cardSpace[source]]
        /\ ~ Present(c)
    BY <1>2 DEF CardDuplicate, launchVars, IsNextCardId, Cards
  <2>2. ASSUME NEW r \in RunIds, runState[r] \in Open PROVE RunSpace(r)' = RunSpace(r)
    BY <2>1, <2>2, OpenRunCard DEF RunSpace, runVars, IInv, StoreInv, CardTypeOK
  <2> QED
    BY <2>1, <2>2, UndisturbedStep DEF Settled, runVars
<1>3. ASSUME NEW c \in Cards, NEW space \in Spaces, CardUpdate(c, space) PROVE WakeInv'
  <2>1. /\ UNCHANGED <<runVars, passVars, launchCard, wake, killing>>
        /\ cardSpace' = [cardSpace EXCEPT ![c] = space]
        /\ OpenRuns(c) = {}
    BY <1>3 DEF CardUpdate, launchVars, requestVars
  <2>2. ASSUME NEW r \in RunIds, runState[r] \in Open PROVE RunSpace(r)' = RunSpace(r)
    BY <2>1, <2>2, OpenRunCard DEF RunSpace, OpenRuns, runVars, IInv, StoreInv, CardTypeOK
  <2> QED
    BY <2>1, <2>2, UndisturbedStep DEF Settled, runVars
<1>4. ASSUME NEW c \in Cards, CardDelete(c) PROVE WakeInv'
  <2>1. ASSUME NEW r \in RunIds
        PROVE  /\ runState'[r] \in Open <=> runState[r] \in Open
               /\ runState[r] \in Open => runState'[r] = runState[r] /\ RunSpace(r)' = RunSpace(r)
    BY <1>4, RunStates DEF CardDelete, OpenRuns, RunSpace
  <2> QED
    BY <1>4, <2>1, UndisturbedStep DEF CardDelete, Settled, launchVars, requestVars
<1>5. ASSUME NEW c \in Cards, NEW column \in Columns, CardMove(c, column) PROVE WakeInv'
  <2>1. CASE EntryEnqueues(column, cardStatus[c])
    BY <1>5, <2>1, SentStep DEF CardMove, Enqueue, launchVars
  <2>2. CASE ~ EntryEnqueues(column, cardStatus[c])
    BY <1>5, <2>2, NoRunStep DEF CardMove, launchVars, requestVars, Settled
  <2> QED
    BY <2>1, <2>2
<1>6. ASSUME NEW c \in Cards, CardArchive(c) PROVE WakeInv'
  BY <1>6, NoRunStep DEF CardArchive, launchVars, requestVars, Settled
<1>7. ASSUME NEW column \in Columns, CardCreateCheck(column) PROVE WakeInv'
  BY <1>7, NoRunStep DEF CardCreateCheck, cardVars, launchVars, Settled
<1>8. ASSUME NEW q \in creating, CreateRefused(q) PROVE WakeInv'
  BY <1>8, NoRunStep DEF CreateRefused, cardVars, launchVars, Settled
<1>9. ASSUME NEW c \in Cards, CardDuplicateCheck(c) PROVE WakeInv'
  BY <1>9, NoRunStep DEF CardDuplicateCheck, cardVars, launchVars, Settled
<1>10. ASSUME NEW c \in Cards, CardRestore(c) PROVE WakeInv'
  BY <1>10, NoRunStep DEF CardRestore, launchVars, requestVars, Settled
<1>11. ASSUME NEW b \in Boards, BoardArchive(b) PROVE WakeInv'
  BY <1>11, NoRunStep DEF BoardArchive, launchVars, requestVars, Settled
<1>12. ASSUME NEW b \in Boards, BoardRestore(b) PROVE WakeInv'
  BY <1>12, NoRunStep DEF BoardRestore, launchVars, requestVars, Settled
<1> QED
  BY <1>1, <1>2, <1>3, <1>4, <1>5, <1>6, <1>7, <1>8, <1>9, <1>10, <1>11, <1>12 DEF CardNext

(* Requests on runs.                                                       *)
LEMMA RequestNextWake ==
  ASSUME IInv, WakeInv, RequestNext
  PROVE  WakeInv'
<1>1. ASSUME NEW c \in Cards, RunCancelQueued(c) PROVE WakeInv'
  BY <1>1, SentStep DEF RunCancelQueued, launchVars
<1>2. ASSUME NEW c \in Cards, NEW column \in Columns, RunRetryEnqueue(c, column) PROVE WakeInv'
  BY <1>2, SentStep DEF RunRetryEnqueue, Enqueue, launchVars
<1>3. ASSUME NEW c \in Cards, NEW supplied, NEW pane, NEW outcome, RunDone(c, supplied, pane, outcome)
      PROVE  WakeInv'
  BY <1>3, NoRunStep DEF RunDone, cardVars, launchVars, Settled
<1>4. ASSUME NEW c \in Cards, NEW r \in RunIds, RunPaneExited(c, r) PROVE WakeInv'
  BY <1>4, NoRunStep DEF RunPaneExited, cardVars, launchVars, Settled
<1>5. ASSUME NEW c \in Cards, RunCancel(c) PROVE WakeInv'
  BY <1>5, NoRunStep DEF RunCancel, cardVars, launchVars, Settled
<1>6. ASSUME NEW c \in Cards, RunRetryCheck(c) PROVE WakeInv'
  BY <1>6, NoRunStep DEF RunRetryCheck, cardVars, launchVars, Settled
<1>7. ASSUME NEW c \in Cards, NEW column \in Columns, RunRetryRefused(c, column) PROVE WakeInv'
  BY <1>7, NoRunStep DEF RunRetryRefused, cardVars, launchVars, Settled
<1> QED
  BY <1>1, <1>2, <1>3, <1>4, <1>5, <1>6, <1>7 DEF RequestNext

(* A finalization wakes the dispatcher at once, or is about to close a     *)
(* pane and wakes it then.                                                 *)
LEMMA FinalizeNextWake ==
  ASSUME IInv, WakeInv, FinalizeNext
  PROVE  WakeInv'
<1>1. ASSUME NEW f \in finalizing, FinalizeEffects(f) PROVE WakeInv'
  <2>1. ~ Settled'
    BY <1>1 DEF FinalizeEffects, Settled
  <2> QED
    BY <1>1, <2>1, AwakeStep DEF FinalizeEffects, passVars, launchVars
<1>2. ASSUME NEW f \in finalizing, FinalizeNothing(f) PROVE WakeInv'
  BY <1>2, NoRunStep DEF FinalizeNothing, cardVars, launchVars, Settled
<1>3. ASSUME NEW p \in killing, KillPane(p) PROVE WakeInv'
  BY <1>3, SentStep DEF KillPane, launchVars
<1>4. ASSUME NEW r \in RunIds, TimeoutClassify(r) PROVE WakeInv'
  BY <1>4, NoRunStep DEF TimeoutClassify, cardVars, launchVars, Settled
<1> QED
  BY <1>1, <1>2, <1>3, <1>4 DEF FinalizeNext, FinalizeRest, FinalizeHop

(* The watchers and the reconciler write no run row and no space.          *)
LEMMA WatchNextWake ==
  ASSUME IInv, WakeInv, WatchNext
  PROVE  WakeInv'
<1>1. UNCHANGED <<runVars, cardSpace, passVars, launchCard, wake, killing>>
  BY DEF WatchNext, PaneDies, Signal, PaneEvent, ProbeRead, ProbeAnswer, ProbeUnknown, ProbeStale,
         ProbeGone, ProbeAlive, AdoptAlive, ProbeStep, cardVars, launchVars, requestVars
<1> QED
  BY <1>1, NoRunStep DEF Settled

-----------------------------------------------------------------------------
(* PassClaim: a queued run that stays unclaimed has a started run or a     *)
(* claimed head in its space, or every free slot has been given away.      *)
LEMMA PassClaimWake ==
  ASSUME IInv, WakeInv, PassClaim
  PROVE  WakeInv'
<1>1. /\ pass = "claiming" /\ pass' = "launching"
      /\ launchCard' = [r \in RunIds |-> IF r \in Claimed THEN runCard[r] ELSE NoCard]
      /\ UNCHANGED <<runState, runCard, cardSpace, wake, killing>>
  BY DEF PassClaim, cardVars, runVars, requestVars
<1>2. /\ StartedRuns' = StartedRuns /\ QueuedRuns' = QueuedRuns /\ Capacity' = Capacity
      /\ \A r \in RunIds : RunSpace(r)' = RunSpace(r)
  BY <1>1 DEF StartedRuns, QueuedRuns, RunSpace, Capacity
<1>3. /\ Claimed \subseteq Heads /\ Heads \subseteq QueuedRuns /\ QueuedRuns \subseteq RunIds
      /\ StartedRuns \subseteq RunIds
  BY DEF Claimed, Heads, QueuedRuns, StartedRuns
<1>4. Launching' = Claimed
  BY <1>1, <1>3, OpenRunCard, RunStates DEF Launching, QueuedRuns, IInv
<1>5. Holding' = StartedRuns \cup Claimed
  BY <1>2, <1>4 DEF Holding
<1>6. ASSUME Settled, NEW r \in QueuedRuns PROVE Served(r)'
  <2>1. CASE RunSpace(r) \in passBusy
    <3>1. \E q \in StartedRuns : RunSpace(q) = RunSpace(r)
      BY <1>1, <1>6, <2>1 DEF WakeInv
    <3> QED
      BY <1>2, <1>3, <1>5, <3>1 DEF Served
  <2>2. CASE RunSpace(r) \notin passBusy
    <3> DEFINE Queue == {q \in QueuedRuns : RunSpace(q) = RunSpace(r)}
    <3>1. Queue \in SUBSET RunIds /\ Queue # {}
      BY <1>3
    <3>2. PICK h \in Queue : \A q \in Queue : ~ (q < h)
      <4> HIDE DEF Queue
      <4> QED
        BY <3>1, OldestRow
    <3>3. h \in Heads /\ RunSpace(h) = RunSpace(r)
      BY <2>2, <3>2 DEF Heads
    <3>4. CASE h \in Claimed
      BY <1>2, <1>3, <1>5, <3>3, <3>4 DEF Served
    <3>5. CASE h \notin Claimed
      <4>1. Capacity \in Int /\ passCount \in Int /\ passCount <= Cardinality(StartedRuns)
        BY <1>1, <1>6, LifecycleAssumption DEF Capacity, IInv, DispatchTypeOK, WakeInv
      <4>2. Claimed = OldestFirst(Heads, Capacity - passCount)
        BY DEF Claimed, OldestFirst
      <4>3. Cardinality(Claimed) >= Capacity - passCount
        <5>1. Heads \in SUBSET RunIds /\ Capacity - passCount \in Int
          BY <1>3, <4>1
        <5> QED
          BY <3>3, <3>5, <4>2, <5>1, OldestFirstFull
      <4>4. Claimed \subseteq RunIds /\ StartedRuns \cap Claimed = {}
        BY <1>3 DEF StartedRuns, QueuedRuns
      <4>5. /\ IsFiniteSet(StartedRuns) /\ IsFiniteSet(Claimed)
            /\ Cardinality(StartedRuns) \in Nat /\ Cardinality(Claimed) \in Nat
        BY <1>3, <4>4, RowsFinite
      <4>6. Cardinality(StartedRuns \cup Claimed) = Cardinality(StartedRuns) + Cardinality(Claimed)
        <5>1. Cardinality(StartedRuns \cap Claimed) = 0
          BY <4>4, FS_EmptySet
        <5>2. Cardinality(StartedRuns \cup Claimed)
                = Cardinality(StartedRuns) + Cardinality(Claimed) - Cardinality(StartedRuns \cap Claimed)
          BY <4>5, FS_Union
        <5> QED
          BY <4>5, <5>1, <5>2
      <4>7. Cardinality(StartedRuns \cup Claimed) >= Capacity
        BY <4>1, <4>3, <4>5, <4>6
      <4> QED
        BY <1>2, <1>5, <4>7 DEF Served
    <3> QED
      BY <3>4, <3>5
  <2> QED
    BY <2>1, <2>2
<1>7. Settled' <=> Settled
  BY <1>1 DEF Settled
<1> QED
  BY <1>1, <1>2, <1>3, <1>4, <1>6, <1>7 DEF WakeInv

(* The other steps of the dispatcher.                                      *)
LEMMA DispatchNextWake ==
  ASSUME IInv, WakeInv, DispatchNext
  PROVE  WakeInv'
<1>1. CASE PassBegin
  <2>1. /\ pass = "idle" /\ pass' = "claiming"
        /\ passBusy' = {RunSpace(r) : r \in StartedRuns}
        /\ passCount' = Cardinality(StartedRuns)
        /\ UNCHANGED <<runState, runCard, cardSpace, launchCard>>
    BY <1>1 DEF PassBegin, cardVars, runVars, launchVars
  <2>2. /\ StartedRuns' = StartedRuns /\ QueuedRuns' = QueuedRuns /\ Launching' = Launching
        /\ \A r \in RunIds : RunSpace(r)' = RunSpace(r)
    BY <2>1 DEF StartedRuns, QueuedRuns, Launching, RunSpace
  <2>3. Launching = {} /\ Cardinality(StartedRuns) \in Nat
    BY <2>1, RowsFinite DEF WakeInv, StartedRuns
  <2>4. \A s \in passBusy' : \E q \in StartedRuns' : RunSpace(q)' = s
    BY <2>1, <2>2 DEF StartedRuns
  <2> QED
    BY <2>1, <2>2, <2>3, <2>4 DEF WakeInv
<1>2. ASSUME NEW r \in RunIds, SpawnFail(r) PROVE WakeInv'
  <2>1. \A q \in RunIds : launchCard'[q] # NoCard => launchCard[q] # NoCard
    BY <1>2 DEF SpawnFail, ClearLaunch, IInv, DispatchTypeOK
  <2>2. CASE runState[r] \in Open
    BY <1>2, <2>1, <2>2, SentStep DEF SpawnFail
  <2>3. CASE runState[r] \notin Open
    <3>1. UNCHANGED <<pass, wake, killing>>
      BY <1>2, <2>3 DEF SpawnFail, passVars, requestVars
    <3>2. ~ Settled
      BY <1>2, <2>3, RunStates DEF SpawnFail, WakeInv, QueuedRuns
    <3> QED
      BY <2>1, <3>1, <3>2, AwakeStep DEF Settled
  <2> QED
    BY <2>2, <2>3
<1>3. ASSUME NEW r \in RunIds, SpawnOk(r) PROVE WakeInv'
  BY <1>3, NoRunStep DEF SpawnOk, cardVars, requestVars, Settled
<1>4. ASSUME NEW r \in RunIds, Register(r) PROVE WakeInv'
  <2>1. /\ launchCard' = [launchCard EXCEPT ![r] = NoCard]
        /\ UNCHANGED <<pass, passBusy, passCount, wake, killing, runCard, cardSpace>>
        /\ r \in Launching
    BY <1>4 DEF Register, ClearLaunch, passVars, requestVars
  <2>2. Launching' = Launching \ {r}
    BY <2>1 DEF Launching, IInv, DispatchTypeOK
  <2>3. CASE runState[r] = "queued"
    <3>1. runState' = [runState EXCEPT ![r] = "started"]
      BY <1>4, <2>3 DEF Register, StillQueued
    <3>2. StartedRuns' = StartedRuns \cup {r} /\ QueuedRuns' = QueuedRuns \ {r}
      BY <2>3, <3>1 DEF StartedRuns, QueuedRuns, IInv, StoreInv, RunTypeOK
    <3>3. Holding' = Holding /\ Capacity' = Capacity
      BY <2>1, <2>2, <3>2 DEF Holding, Capacity
    <3>4. \A q \in RunIds : RunSpace(q)' = RunSpace(q)
      BY <2>1 DEF RunSpace
    <3>5. pass = "launching"
      BY <2>1 DEF WakeInv
    <3>6. ASSUME Settled, NEW q \in QueuedRuns' PROVE Served(q)'
      <4>1. Served(q) /\ q \in RunIds /\ Holding \subseteq RunIds
        BY <3>2, <3>5, <3>6 DEF WakeInv, QueuedRuns, Holding, StartedRuns, Launching
      <4> QED
        BY <3>3, <3>4, <4>1 DEF Served
    <3>7. Settled => Launching' \subseteq QueuedRuns'
      BY <2>2, <3>2 DEF WakeInv
    <3> QED
      BY <2>1, <3>5, <3>6, <3>7 DEF WakeInv, Settled
  <2>4. CASE runState[r] # "queued"
    <3>1. ~ Settled
      BY <2>1, <2>4 DEF WakeInv, QueuedRuns
    <3> QED
      BY <2>1, <2>2, <3>1, AwakeStep DEF Settled, Launching
  <2> QED
    BY <2>3, <2>4
<1>5. CASE PassEnd
  <2>1. /\ pass = "launching" /\ pass' = "idle" /\ Launching = {}
        /\ UNCHANGED <<runState, runCard, cardSpace, launchCard, wake, killing>>
    BY <1>5 DEF PassEnd, cardVars, runVars, launchVars, requestVars
  <2>2. /\ StartedRuns' = StartedRuns /\ QueuedRuns' = QueuedRuns /\ Launching' = Launching
        /\ Holding' = Holding /\ Capacity' = Capacity
        /\ \A r \in RunIds : RunSpace(r)' = RunSpace(r)
    BY <2>1 DEF StartedRuns, QueuedRuns, Launching, Holding, RunSpace, Capacity
  <2>3. ASSUME Settled, NEW q \in QueuedRuns PROVE Served(q)'
    <3>1. Served(q) /\ q \in RunIds /\ Holding \subseteq RunIds
      BY <2>1, <2>3 DEF WakeInv, QueuedRuns, Holding, StartedRuns, Launching
    <3> QED
      BY <2>2, <3>1 DEF Served
  <2> QED
    BY <2>1, <2>2, <2>3 DEF WakeInv, Settled
<1> QED
  BY <1>1, <1>2, <1>3, <1>4, <1>5, PassClaimWake DEF DispatchNext

-----------------------------------------------------------------------------
(* Whenever no pass is going on, the channel is empty and no finalizer is  *)
(* about to wake the dispatcher, no queued run waits that the next pass    *)
(* would launch: between the reads of run_dispatch_pass, its claims and    *)
(* its promotions no enqueue, cancel, exit, timeout or failed launch slips *)
(* by unseen.                                                              *)
THEOREM NoWakeLost == Spec => []NoLostWake
<1>1. Init => WakeInv
  BY DEF Init, WakeInv, Launching, Settled
<1>2. IInv /\ WakeInv /\ [Next]_vars => WakeInv'
  <2> SUFFICES ASSUME IInv, WakeInv, [Next]_vars PROVE WakeInv'
    OBVIOUS
  <2>1. CASE Crash
    BY <2>1 DEF Crash, WakeInv, Launching, Settled
  <2>2. CASE UNCHANGED vars
    BY <2>2, NoRunStep DEF vars, cardVars, launchVars, requestVars, Settled
  <2> QED
    BY <2>1, <2>2, CardNextWake, RequestNextWake, FinalizeNextWake, DispatchNextWake,
       WatchNextWake DEF Next
<1>3. IInv /\ WakeInv => NoLostWake
  <2> SUFFICES ASSUME IInv, WakeInv, pass = "idle", Settled, NEW r \in RunIds, Dispatchable(r)
               PROVE  FALSE
    BY DEF NoLostWake, Settled
  <2>1. Served(r) /\ Holding = StartedRuns
    BY DEF WakeInv, Dispatchable, Holding
  <2>2. Cardinality(StartedRuns) \in Nat /\ Capacity \in Int
    BY StartedRunsCount, LifecycleAssumption DEF Capacity
  <2> QED
    BY <2>1, <2>2 DEF Served, Dispatchable
<1> QED
  BY <1>1, <1>2, <1>3, IInvAlways, PTL DEF Spec
===============================================================================

-------------------------- MODULE RunSchedulerProofs --------------------------
(***************************************************************************)
(* The scheduler's memory, the panes and the store, for every value of the *)
(* constants and as long as one daemon lives: the hop counter covers the   *)
(* chain of every open run, the active map holds exactly the started runs, *)
(* and no pane is leaked.                                                  *)
(***************************************************************************)
EXTENDS RunLifecycleProofs

(* An open run's chain is counted, and no longer than the limit.           *)
Covered(r) == runChain[r] <= chainHops[runCard[r]] /\ runChain[r] <= MaxAutoHops

HopInv == crashes = 0 => \A r \in RunIds : runState[r] \in Open => Covered(r)

-----------------------------------------------------------------------------
(* A step that opens no run, keeps the rows that stay open and lowers no   *)
(* counter of theirs keeps them covered.                                   *)
LEMMA CoveredKept ==
  ASSUME IInv, HopInv, crashes' = crashes,
         \A r \in RunIds : runState'[r] \in Open =>
           /\ runState[r] \in Open
           /\ runCard'[r] = runCard[r] /\ runChain'[r] = runChain[r]
           /\ chainHops'[runCard[r]] = chainHops[runCard[r]]
  PROVE  HopInv'
  BY DEF HopInv, Covered

(* An enqueue on behalf of a person starts a chain of length zero, and     *)
(* resets at most the counter of the card, which has no other open run.    *)
LEMMA EnqueueCovered ==
  ASSUME IInv, HopInv, crashes' = crashes,
         NEW r \in RunIds, NEW c \in Cards, NEW column, OpenRuns(c) = {}, Enqueue(r, c, column),
         chainHops' = chainHops \/ chainHops' = [chainHops EXCEPT ![c] = 0]
  PROVE  HopInv'
<1> SUFFICES ASSUME crashes = 0, NEW q \in RunIds, runState'[q] \in Open
             PROVE  Covered(q)'
  BY DEF HopInv
<1>1. /\ runState' = [runState EXCEPT ![r] = "queued"] /\ runCard' = [runCard EXCEPT ![r] = c]
      /\ runChain' = [runChain EXCEPT ![r] = 0]
  BY DEF Enqueue, InsertRow
<1>2. chainHops' \in [Cards -> Nat]
  BY DEF IInv, SchedTypeOK
<1>3. CASE q = r
  BY <1>1, <1>2, <1>3, EngineAssumption DEF IInv, StoreInv, RunTypeOK, Covered
<1>4. CASE q # r
  <2>1. runState[q] \in Open /\ runCard'[q] = runCard[q] /\ runChain'[q] = runChain[q]
    BY <1>1, <1>4 DEF IInv, StoreInv, RunTypeOK
  <2>2. runCard[q] \in Cards /\ runCard[q] # c
    BY <2>1, OpenRunCard DEF IInv, OpenRuns
  <2>3. chainHops'[runCard[q]] = chainHops[runCard[q]]
    BY <2>2 DEF IInv, SchedTypeOK
  <2> QED
    BY <2>1, <2>3 DEF HopInv, Covered
<1> QED
  BY <1>3, <1>4

(* Closing a run that is open, with or without a reset of the counter of   *)
(* its card: no other run of that card is open.                            *)
LEMMA CloseCovered ==
  ASSUME IInv, HopInv, crashes' = crashes,
         NEW r \in RunIds, runState[r] \in Open, NEW outcome \in Outcome, NEW status,
         CloseRun(r, outcome, status),
         chainHops' = chainHops \/ chainHops' = [chainHops EXCEPT ![runCard[r]] = 0]
  PROVE  HopInv'
<1> SUFFICES ASSUME NEW q \in RunIds, runState'[q] \in Open
             PROVE  /\ runState[q] \in Open
                    /\ runCard'[q] = runCard[q] /\ runChain'[q] = runChain[q]
                    /\ chainHops'[runCard[q]] = chainHops[runCard[q]]
  BY CoveredKept
<1>1. runState' = [runState EXCEPT ![r] = outcome] /\ runCard' = runCard /\ runChain' = runChain
  BY DEF CloseRun
<1>2. q # r /\ runState[q] \in Open
  BY <1>1, RunStates DEF IInv, StoreInv, RunTypeOK
<1>3. runCard[q] \in Cards /\ runCard[q] # runCard[r]
  BY <1>2, OpenRunCard DEF IInv, StoreInv, OneOpenRunPerCard
<1>4. chainHops'[runCard[q]] = chainHops[runCard[q]]
  BY <1>3 DEF IInv, SchedTypeOK
<1> QED
  BY <1>1, <1>2, <1>4

(* A fresh card id has no open run.                                        *)
LEMMA FreshCardIdle ==
  ASSUME IInv, NEW c \in Cards, IsNextCardId(c)
  PROVE  OpenRuns(c) = {}
<1>1. ~ Present(c)
  BY DEF IsNextCardId, Cards
<1> QED
  BY <1>1, OpenRunCard DEF IInv, OpenRuns

-----------------------------------------------------------------------------
(* Requests on cards and boards.                                           *)
LEMMA CardNextCovered ==
  ASSUME IInv, HopInv, CardNext
  PROVE  HopInv'
<1>1. ASSUME NEW c \in Cards, NEW column \in Columns, NEW space \in Spaces,
             CardCreate(c, column, space)
      PROVE  HopInv'
  <2>1. OpenRuns(c) = {} /\ crashes' = crashes
    BY <1>1, FreshCardIdle DEF CardCreate
  <2>2. CASE EntryEnqueues(column, "idle")
    BY <1>1, <2>1, <2>2, EnqueueCovered DEF CardCreate
  <2>3. CASE ~ EntryEnqueues(column, "idle")
    BY <1>1, <2>1, <2>3, CoveredKept DEF CardCreate, runVars
  <2> QED
    BY <2>2, <2>3
<1>2. ASSUME NEW c \in Cards, NEW column \in Columns, CardMove(c, column)
      PROVE  HopInv'
  <2>1. CASE EntryEnqueues(column, cardStatus[c])
    BY <1>2, <2>1, EnqueueCovered DEF CardMove
  <2>2. CASE ~ EntryEnqueues(column, cardStatus[c])
    BY <1>2, <2>2, CoveredKept DEF CardMove, runVars
  <2> QED
    BY <2>1, <2>2
<1>3. ASSUME NEW c \in Cards, CardDelete(c) PROVE HopInv'
  <2>1. \A r \in RunIds : runState'[r] \in Open => runState[r] \in Open /\ runCard'[r] = runCard[r]
    BY <1>3, RunStates DEF CardDelete
  <2> QED
    BY <1>3, <2>1, CoveredKept DEF CardDelete
<1>4. ASSUME NEW c \in Cards, CardArchive(c) PROVE HopInv'
  BY <1>4, CoveredKept DEF CardArchive, runVars
<1>5. ASSUME NEW column \in Columns, CardCreateCheck(column) PROVE HopInv'
  BY <1>5, CoveredKept DEF CardCreateCheck, runVars
<1>6. ASSUME NEW q \in creating, CreateRefused(q) PROVE HopInv'
  BY <1>6, CoveredKept DEF CreateRefused, runVars
<1>7. ASSUME NEW c \in Cards, CardDuplicateCheck(c) PROVE HopInv'
  BY <1>7, CoveredKept DEF CardDuplicateCheck, runVars
<1>8. ASSUME NEW source \in Cards, NEW c \in Cards, CardDuplicate(source, c) PROVE HopInv'
  BY <1>8, CoveredKept DEF CardDuplicate, runVars
<1>9. ASSUME NEW c \in Cards, NEW space \in Spaces, CardUpdate(c, space) PROVE HopInv'
  BY <1>9, CoveredKept DEF CardUpdate, runVars
<1>10. ASSUME NEW c \in Cards, CardRestore(c) PROVE HopInv'
  BY <1>10, CoveredKept DEF CardRestore, runVars
<1>11. ASSUME NEW b \in Boards, BoardArchive(b) PROVE HopInv'
  BY <1>11, CoveredKept DEF BoardArchive, runVars
<1>12. ASSUME NEW b \in Boards, BoardRestore(b) PROVE HopInv'
  BY <1>12, CoveredKept DEF BoardRestore, runVars
<1> QED
  BY <1>1, <1>2, <1>3, <1>4, <1>5, <1>6, <1>7, <1>8, <1>9, <1>10, <1>11, <1>12 DEF CardNext

(* Requests on runs: a cancel of a queued run and a retry reset the        *)
(* counter of a card that then has no open run.                            *)
LEMMA RequestNextCovered ==
  ASSUME IInv, HopInv, RequestNext
  PROVE  HopInv'
<1>1. ASSUME NEW c \in Cards, RunCancelQueued(c) PROVE HopInv'
  <2>1. PICK r \in OpenRuns(c) : CloseRun(r, "cancelled", "failed")
    BY <1>1 DEF RunCancelQueued
  <2>2. r \in RunIds /\ runState[r] \in Open /\ runCard[r] = c /\ "cancelled" \in Outcome
    BY DEF OpenRuns, Outcome
  <2> QED
    BY <1>1, <2>1, <2>2, CloseCovered DEF RunCancelQueued
<1>2. ASSUME NEW c \in Cards, NEW column \in Columns, RunRetryEnqueue(c, column) PROVE HopInv'
  BY <1>2, EnqueueCovered DEF RunRetryEnqueue, RetryAllowed
<1>3. ASSUME NEW c \in Cards, RunRetryCheck(c) PROVE HopInv'
  <2>1. ASSUME NEW q \in RunIds, runState'[q] \in Open
        PROVE  /\ runState[q] \in Open
               /\ runCard'[q] = runCard[q] /\ runChain'[q] = runChain[q]
               /\ chainHops'[runCard[q]] = chainHops[runCard[q]]
    <3>1. runState[q] \in Open /\ runCard'[q] = runCard[q] /\ runChain'[q] = runChain[q]
      BY <1>3, <2>1 DEF RunRetryCheck, runVars
    <3>2. runCard[q] # c /\ runCard[q] \in Cards
      BY <1>3, <3>1, OpenRunCard DEF RunRetryCheck, OpenRuns, IInv
    <3> QED
      BY <1>3, <3>1, <3>2 DEF RunRetryCheck, IInv, SchedTypeOK
  <2> QED
    BY <1>3, <2>1, CoveredKept DEF RunRetryCheck
<1>4. ASSUME NEW c \in Cards, NEW supplied, NEW pane, NEW outcome, RunDone(c, supplied, pane, outcome)
      PROVE  HopInv'
  BY <1>4, CoveredKept DEF RunDone, runVars
<1>5. ASSUME NEW c \in Cards, NEW r \in RunIds, RunPaneExited(c, r) PROVE HopInv'
  BY <1>5, CoveredKept DEF RunPaneExited, runVars
<1>6. ASSUME NEW c \in Cards, RunCancel(c) PROVE HopInv'
  BY <1>6, CoveredKept DEF RunCancel, runVars
<1>7. ASSUME NEW c \in Cards, NEW column \in Columns, RunRetryRefused(c, column) PROVE HopInv'
  BY <1>7, CoveredKept DEF RunRetryRefused, runVars
<1> QED
  BY <1>1, <1>2, <1>3, <1>4, <1>5, <1>6, <1>7 DEF RequestNext

(* A hop lengthens the chain by one and stores the number decide_auto_hop  *)
(* has counted it as, which is within the limit.                           *)
LEMMA FinalizeNextCovered ==
  ASSUME IInv, HopInv, FinalizeNext
  PROVE  HopInv'
<1>1. ASSUME NEW f \in finalizing, FinalizeRest(f) PROVE HopInv'
  <2>1. f.run \in RunIds /\ f.outcome \in Outcome /\ runState[f.run] \in Open
    BY <1>1, FinalizeFacts DEF FinalizeRest, IInv
  <2> QED
    BY <1>1, <2>1, CloseCovered DEF FinalizeRest, FinalizeEffects
<1>2. ASSUME NEW f \in finalizing, FinalizeHop(f), crashes = 0 PROVE HopInv'
  <2>1. /\ f.run \in RunIds /\ f.outcome \in Outcome /\ runState[f.run] \in Open
        /\ runCard[f.run] \in Cards
    BY <1>2, FinalizeFacts DEF FinalizeHop, IInv
  <2>2. PICK hop \in NextHop(f), n \in RunIds :
          /\ InsertRow(n, runCard[f.run], FinalizeTarget(f), runChain[f.run] + 1)
          /\ runState' = [runState EXCEPT ![f.run] = f.outcome, ![n] = "queued"]
          /\ chainHops' = [chainHops EXCEPT ![runCard[f.run]] = hop]
    BY <1>2 DEF FinalizeHop
  <2>3. hop = chainHops[runCard[f.run]] + 1 /\ hop <= MaxAutoHops
    BY <2>1, EngineAssumption DEF NextHop, DecideAutoHop, IInv, SchedTypeOK
  <2>4. Covered(f.run)
    BY <1>2, <2>1 DEF HopInv
  <2>5. runState[n] = "none" /\ n # f.run
    BY <2>1, <2>2, RunStates DEF IInv, StoreInv, RunTypeOK, InsertRow, IsNextRunId, RunIds
  <2>6. /\ runCard' = [runCard EXCEPT ![n] = runCard[f.run]]
        /\ runChain' = [runChain EXCEPT ![n] = runChain[f.run] + 1]
    BY <2>2 DEF InsertRow
  <2>7. ASSUME NEW q \in RunIds, runState'[q] \in Open PROVE Covered(q)'
    <3>1. CASE q = n
      BY <2>1, <2>2, <2>3, <2>4, <2>6, <3>1, EngineAssumption
      DEF Covered, IInv, StoreInv, RunTypeOK, SchedTypeOK
    <3>2. CASE q # n
      <4>1. runState[q] \in Open /\ q # f.run
        BY <2>1, <2>2, <2>7, <3>2, RunStates DEF IInv, StoreInv, RunTypeOK
      <4>2. runCard[q] # runCard[f.run] /\ runCard[q] \in Cards
        BY <2>1, <4>1, OpenRunCard DEF IInv, StoreInv, OneOpenRunPerCard
      <4>3. Covered(q)
        BY <1>2, <4>1 DEF HopInv
      <4> QED
        BY <2>2, <2>6, <3>2, <4>2, <4>3 DEF Covered, IInv, StoreInv, RunTypeOK, SchedTypeOK
    <3> QED
      BY <3>1, <3>2
  <2> QED
    BY <2>7 DEF HopInv
<1>3. ASSUME NEW f \in finalizing, FinalizeHop(f), crashes # 0 PROVE HopInv'
  BY <1>3 DEF FinalizeHop, FinalizeEffects, HopInv
<1>4. ASSUME NEW f \in finalizing, FinalizeNothing(f) PROVE HopInv'
  BY <1>4, CoveredKept DEF FinalizeNothing, runVars
<1>5. ASSUME NEW p \in killing, KillPane(p) PROVE HopInv'
  BY <1>5, CoveredKept DEF KillPane, runVars
<1>6. ASSUME NEW r \in RunIds, TimeoutClassify(r) PROVE HopInv'
  BY <1>6, CoveredKept DEF TimeoutClassify, runVars
<1> QED
  BY <1>1, <1>2, <1>3, <1>4, <1>5, <1>6 DEF FinalizeNext

(* A launch closes a run or promotes it, which leaves its chain alone.     *)
LEMMA DispatchNextCovered ==
  ASSUME IInv, HopInv, DispatchNext
  PROVE  HopInv'
<1>1. ASSUME NEW r \in RunIds, SpawnFail(r) PROVE HopInv'
  <2>1. CASE runState[r] \in Open
    BY <1>1, <2>1, CloseCovered DEF SpawnFail, Outcome
  <2>2. CASE runState[r] \notin Open
    BY <1>1, <2>2, CoveredKept DEF SpawnFail, runVars
  <2> QED
    BY <2>1, <2>2
<1>2. ASSUME NEW r \in RunIds, Register(r) PROVE HopInv'
  <2>1. \A q \in RunIds : runState'[q] \in Open => runState[q] \in Open
    BY <1>2, RunStates DEF Register, StillQueued, IInv, StoreInv, RunTypeOK
  <2> QED
    BY <1>2, <2>1, CoveredKept DEF Register
<1>3. CASE PassBegin \/ PassClaim \/ PassEnd
  BY <1>3, CoveredKept DEF PassBegin, PassClaim, PassEnd, runVars
<1>4. ASSUME NEW r \in RunIds, SpawnOk(r) PROVE HopInv'
  BY <1>4, CoveredKept DEF SpawnOk, runVars
<1> QED
  BY <1>1, <1>2, <1>3, <1>4 DEF DispatchNext

(* The watchers and the reconciler write no run row and no counter.        *)
LEMMA WatchNextCovered ==
  ASSUME IInv, HopInv, WatchNext
  PROVE  HopInv'
<1>1. UNCHANGED <<runVars, chainHops, crashes>>
  BY DEF WatchNext, PaneDies, Signal, PaneEvent, ProbeRead, ProbeAnswer, ProbeUnknown, ProbeStale,
         ProbeGone, ProbeAlive, AdoptAlive, ProbeStep
<1> QED
  BY <1>1, CoveredKept DEF runVars

(* While the daemon has not been restarted, sched.chain_hops of a card is  *)
(* at least the number of automatic hops that led to its open run, and     *)
(* that number is within MAX_AUTO_HOPS: no order of hops, cancels, moves   *)
(* and retries makes finalize_run lose count.                              *)
THEOREM HopsCounted == Spec => []HopCounterCovers
<1>1. Init => HopInv
  BY RunStates DEF Init, HopInv
<1>2. IInv /\ HopInv /\ [Next]_vars => HopInv'
  <2> SUFFICES ASSUME IInv, HopInv, [Next]_vars PROVE HopInv'
    OBVIOUS
  <2>1. CASE Crash
    BY <2>1 DEF Crash, HopInv, IInv, HerdrTypeOK
  <2>2. CASE UNCHANGED vars
    BY <2>2, CoveredKept DEF vars, runVars
  <2> QED
    BY <2>1, <2>2, CardNextCovered, RequestNextCovered, FinalizeNextCovered, DispatchNextCovered,
       WatchNextCovered DEF Next
<1>3. HopInv => HopCounterCovers
  BY DEF HopInv, Covered, HopCounterCovers
<1> QED
  BY <1>1, <1>2, <1>3, IInvAlways, PTL DEF Spec

(* No chain of automatic hops is longer than MAX_AUTO_HOPS for as long as  *)
(* the daemon is not restarted: the counter is in memory only, and a       *)
(* restart is all it takes to lose it.                                     *)
THEOREM ChainsBounded ==
  ASSUME MaxCrashes = 0
  PROVE  Spec => []HopsBounded
<1>1. Init => crashes = 0
  BY DEF Init
<1>2. crashes = 0 /\ [Next]_vars => (crashes = 0)'
  <2> SUFFICES ASSUME crashes = 0, [Next]_vars PROVE crashes' = crashes
    OBVIOUS
  <2>1. CASE CardNext
    BY <2>1 DEF CardNext, CardCreateCheck, CardCreate, CreateRefused, CardDuplicateCheck,
                CardDuplicate, CardUpdate, CardDelete, CardArchive, CardRestore, BoardArchive,
                BoardRestore, CardMove
  <2>2. CASE RequestNext
    BY <2>2 DEF RequestNext, RunDone, RunPaneExited, RunCancel, RunCancelQueued, RunRetryCheck,
                RunRetryEnqueue, RunRetryRefused
  <2>3. CASE FinalizeNext
    BY <2>3 DEF FinalizeNext, FinalizeRest, FinalizeHop, FinalizeEffects, FinalizeNothing,
                KillPane, TimeoutClassify
  <2>4. CASE DispatchNext
    BY <2>4 DEF DispatchNext, PassBegin, PassClaim, SpawnFail, SpawnOk, Register, PassEnd
  <2>5. CASE WatchNext
    BY <2>5 DEF WatchNext, PaneDies, Signal, PaneEvent, ProbeRead, ProbeStep, ProbeAnswer,
                ProbeUnknown, ProbeStale, ProbeGone, ProbeAlive, AdoptAlive
  <2>6. ~ Crash
    BY LifecycleAssumption DEF Crash
  <2> QED
    BY <2>1, <2>2, <2>3, <2>4, <2>5, <2>6 DEF Next, vars
<1>3. HopCounterCovers /\ crashes = 0 => HopsBounded
  BY DEF HopCounterCovers, HopsBounded
<1> QED
  BY <1>1, <1>2, <1>3, HopsCounted, PTL DEF Spec

-----------------------------------------------------------------------------
(* The active map.                                                         *)

(* A started run has an entry, with its card and its pane.                 *)
Mirrored(r) ==
  runState[r] = "started" => activeCard[r] = runCard[r] /\ activePane[r] = runPane[r]

(* A launch in flight never belongs to a started run: only Register starts *)
(* one, and it ends the launch.                                            *)
NotYetStarted(r) == launchCard[r] # NoCard => runState[r] # "started"

ActiveInv ==
  /\ \A r \in RunIds : NotYetStarted(r)
  /\ crashes = 0 => \A r \in RunIds : Mirrored(r)

(* What every step does to the map and the started runs.                   *)
MirrorStep == ActiveInv' /\ StraysAreAdopted

(* A step that starts no run, ends no started run and leaves the map and   *)
(* the launches alone.                                                     *)
LEMMA MirrorKept ==
  ASSUME ActiveInv, crashes' = crashes, UNCHANGED activeVars,
         \A r \in RunIds : launchCard'[r] # NoCard => launchCard[r] # NoCard,
         \A r \in RunIds : runState'[r] = "started" <=> runState[r] = "started",
         \A r \in RunIds : runState[r] = "started" =>
           runCard'[r] = runCard[r] /\ runPane'[r] = runPane[r]
  PROVE  MirrorStep
<1>1. \A r \in RunIds : NotYetStarted(r)'
  BY DEF ActiveInv, NotYetStarted
<1>2. \A r \in RunIds : Mirrored(r) => Mirrored(r)'
  BY DEF Mirrored, activeVars
<1>3. StraysAreAdopted
  BY DEF StraysAreAdopted, Active, StartedRuns, activeVars
<1> QED
  BY <1>1, <1>2, <1>3 DEF MirrorStep, ActiveInv

(* An enqueue writes a row that was absent.                                *)
LEMMA EnqueueMirror ==
  ASSUME IInv, ActiveInv, crashes' = crashes, UNCHANGED <<activeVars, launchVars>>,
         NEW r \in RunIds, NEW c, NEW column, Enqueue(r, c, column)
  PROVE  MirrorStep
<1>1. runState[r] = "none"
  BY RunStates DEF IInv, StoreInv, RunTypeOK, Enqueue, InsertRow, IsNextRunId, RunIds
<1>2. \A q \in RunIds : runState'[q] = "started" <=> runState[q] = "started"
  BY <1>1 DEF Enqueue, IInv, StoreInv, RunTypeOK
<1>3. \A q \in RunIds : runState[q] = "started" =>
        runCard'[q] = runCard[q] /\ runPane'[q] = runPane[q]
  BY <1>1 DEF Enqueue, InsertRow, IInv, StoreInv, RunTypeOK
<1> QED
  BY <1>2, <1>3, MirrorKept DEF launchVars

(* Closing a run that is not started touches no entry.                     *)
LEMMA CloseMirror ==
  ASSUME IInv, ActiveInv, crashes' = crashes, UNCHANGED activeVars,
         \A q \in RunIds : launchCard'[q] # NoCard => launchCard[q] # NoCard,
         NEW r \in RunIds, runState[r] # "started", NEW outcome \in Outcome, NEW status,
         CloseRun(r, outcome, status)
  PROVE  MirrorStep
<1>1. \A q \in RunIds : runState'[q] = "started" <=> runState[q] = "started"
  BY RunStates DEF CloseRun, IInv, StoreInv, RunTypeOK, Outcome
<1> QED
  BY <1>1, MirrorKept DEF CloseRun

(* A step that writes no run row and no entry.                             *)
LEMMA NoRowMirror ==
  ASSUME ActiveInv, UNCHANGED <<runVars, activeVars, crashes>>,
         \A q \in RunIds : launchCard'[q] # NoCard => launchCard[q] # NoCard
  PROVE  MirrorStep
  BY MirrorKept DEF runVars

(* Requests on cards: a card with an open run is not deleted.              *)
LEMMA CardNextMirror ==
  ASSUME IInv, ActiveInv, CardNext
  PROVE  MirrorStep
<1>1. ASSUME NEW c \in Cards, NEW column \in Columns, NEW space \in Spaces,
             CardCreate(c, column, space)
      PROVE  MirrorStep
  <2>1. CASE EntryEnqueues(column, "idle")
    BY <1>1, <2>1, EnqueueMirror DEF CardCreate, activeVars, launchVars
  <2>2. CASE ~ EntryEnqueues(column, "idle")
    BY <1>1, <2>2, NoRowMirror DEF CardCreate, launchVars
  <2> QED
    BY <2>1, <2>2
<1>2. ASSUME NEW c \in Cards, NEW column \in Columns, CardMove(c, column)
      PROVE  MirrorStep
  <2>1. CASE EntryEnqueues(column, cardStatus[c])
    BY <1>2, <2>1, EnqueueMirror DEF CardMove, activeVars, launchVars, requestVars
  <2>2. CASE ~ EntryEnqueues(column, cardStatus[c])
    BY <1>2, <2>2, NoRowMirror DEF CardMove, launchVars, requestVars
  <2> QED
    BY <2>1, <2>2
<1>3. ASSUME NEW c \in Cards, CardDelete(c) PROVE MirrorStep
  <2>1. \A r \in RunIds : runState[r] = "started" => runCard[r] # c
    BY <1>3, RunStates DEF CardDelete, OpenRuns
  <2>2. \A r \in RunIds : runState'[r] = "started" <=> runState[r] = "started"
    BY <1>3, <2>1 DEF CardDelete
  <2>3. \A r \in RunIds : runState[r] = "started" =>
          runCard'[r] = runCard[r] /\ runPane'[r] = runPane[r]
    BY <1>3, <2>1 DEF CardDelete
  <2> QED
    BY <1>3, <2>2, <2>3, MirrorKept DEF CardDelete, launchVars, requestVars
<1>4. ASSUME NEW c \in Cards, CardArchive(c) PROVE MirrorStep
  BY <1>4, NoRowMirror DEF CardArchive, launchVars, requestVars
<1>5. ASSUME NEW column \in Columns, CardCreateCheck(column) PROVE MirrorStep
  BY <1>5, NoRowMirror DEF CardCreateCheck, launchVars
<1>6. ASSUME NEW q \in creating, CreateRefused(q) PROVE MirrorStep
  BY <1>6, NoRowMirror DEF CreateRefused, launchVars
<1>7. ASSUME NEW c \in Cards, CardDuplicateCheck(c) PROVE MirrorStep
  BY <1>7, NoRowMirror DEF CardDuplicateCheck, launchVars
<1>8. ASSUME NEW source \in Cards, NEW c \in Cards, CardDuplicate(source, c) PROVE MirrorStep
  BY <1>8, NoRowMirror DEF CardDuplicate, launchVars
<1>9. ASSUME NEW c \in Cards, NEW space \in Spaces, CardUpdate(c, space) PROVE MirrorStep
  BY <1>9, NoRowMirror DEF CardUpdate, launchVars, requestVars
<1>10. ASSUME NEW c \in Cards, CardRestore(c) PROVE MirrorStep
  BY <1>10, NoRowMirror DEF CardRestore, launchVars, requestVars
<1>11. ASSUME NEW b \in Boards, BoardArchive(b) PROVE MirrorStep
  BY <1>11, NoRowMirror DEF BoardArchive, launchVars, requestVars
<1>12. ASSUME NEW b \in Boards, BoardRestore(b) PROVE MirrorStep
  BY <1>12, NoRowMirror DEF BoardRestore, launchVars, requestVars
<1> QED
  BY <1>1, <1>2, <1>3, <1>4, <1>5, <1>6, <1>7, <1>8, <1>9, <1>10, <1>11, <1>12 DEF CardNext

(* Requests on runs: a queued run has no entry to drop, and the closes of  *)
(* a started run are calls of finalize_run.                                *)
LEMMA RequestNextMirror ==
  ASSUME IInv, ActiveInv, RequestNext
  PROVE  MirrorStep
<1>1. ASSUME NEW c \in Cards, RunCancelQueued(c) PROVE MirrorStep
  <2>1. PICK r \in OpenRuns(c) : runState[r] = "queued" /\ CloseRun(r, "cancelled", "failed")
    BY <1>1 DEF RunCancelQueued
  <2>2. r \in RunIds /\ "cancelled" \in Outcome
    BY DEF OpenRuns, Outcome
  <2> QED
    BY <1>1, <2>1, <2>2, CloseMirror DEF RunCancelQueued, launchVars, requestVars
<1>2. ASSUME NEW c \in Cards, NEW column \in Columns, RunRetryEnqueue(c, column) PROVE MirrorStep
  BY <1>2, EnqueueMirror DEF RunRetryEnqueue, activeVars, launchVars
<1>3. ASSUME NEW c \in Cards, RunRetryCheck(c) PROVE MirrorStep
  BY <1>3, NoRowMirror DEF RunRetryCheck, launchVars
<1>4. ASSUME NEW c \in Cards, NEW supplied, NEW pane, NEW outcome, RunDone(c, supplied, pane, outcome)
      PROVE  MirrorStep
  BY <1>4, NoRowMirror DEF RunDone, launchVars
<1>5. ASSUME NEW c \in Cards, NEW r \in RunIds, RunPaneExited(c, r) PROVE MirrorStep
  BY <1>5, NoRowMirror DEF RunPaneExited, launchVars
<1>6. ASSUME NEW c \in Cards, RunCancel(c) PROVE MirrorStep
  BY <1>6, NoRowMirror DEF RunCancel, launchVars
<1>7. ASSUME NEW c \in Cards, NEW column \in Columns, RunRetryRefused(c, column) PROVE MirrorStep
  BY <1>7, NoRowMirror DEF RunRetryRefused, launchVars
<1> QED
  BY <1>1, <1>2, <1>3, <1>4, <1>5, <1>6, <1>7 DEF RequestNext

(* A finalization ends the run and drops its entry in one section.         *)
LEMMA DropMirror ==
  ASSUME IInv, ActiveInv, crashes' = crashes, UNCHANGED launchVars,
         NEW r \in RunIds, runState'[r] # "started", DropActive(r),
         \A q \in RunIds \ {r} :
           /\ runState'[q] = "started" <=> runState[q] = "started"
           /\ runState[q] = "started" => runCard'[q] = runCard[q] /\ runPane'[q] = runPane[q]
  PROVE  MirrorStep
<1>1. \A q \in RunIds : NotYetStarted(q)'
  BY DEF ActiveInv, NotYetStarted, launchVars
<1>2. ASSUME crashes = 0, NEW q \in RunIds PROVE Mirrored(q)'
  <2>1. CASE q = r
    BY <2>1 DEF DropActive, Mirrored, IInv, SchedTypeOK
  <2>2. CASE q # r
    BY <1>2, <2>2 DEF DropActive, ActiveInv, Mirrored, IInv, SchedTypeOK
  <2> QED
    BY <2>1, <2>2
<1>3. StraysAreAdopted
  BY DEF StraysAreAdopted, DropActive, Active, StartedRuns, IInv, SchedTypeOK
<1> QED
  BY <1>1, <1>2, <1>3 DEF MirrorStep, ActiveInv

LEMMA FinalizeNextMirror ==
  ASSUME IInv, ActiveInv, FinalizeNext
  PROVE  MirrorStep
<1>1. ASSUME NEW f \in finalizing, FinalizeRest(f) PROVE MirrorStep
  <2>1. f.run \in RunIds /\ f.outcome \in Outcome
    BY <1>1, FinalizeFacts DEF FinalizeRest, IInv
  <2>2. /\ crashes' = crashes /\ UNCHANGED launchVars /\ DropActive(f.run)
        /\ runState' = [runState EXCEPT ![f.run] = f.outcome]
        /\ runCard' = runCard /\ runPane' = runPane
    BY <1>1 DEF FinalizeRest, FinalizeEffects, CloseRun, launchVars
  <2>3. /\ runState'[f.run] # "started"
        /\ \A q \in RunIds \ {f.run} : runState'[q] = runState[q]
    BY <2>1, <2>2 DEF IInv, StoreInv, RunTypeOK, Outcome
  <2> QED
    BY <2>1, <2>2, <2>3, DropMirror
<1>2. ASSUME NEW f \in finalizing, FinalizeHop(f) PROVE MirrorStep
  <2>1. f.run \in RunIds /\ f.outcome \in Outcome /\ runState[f.run] \in Open
    BY <1>2, FinalizeFacts DEF FinalizeHop, IInv
  <2>2. PICK n \in RunIds :
          /\ InsertRow(n, runCard[f.run], FinalizeTarget(f), runChain[f.run] + 1)
          /\ runState' = [runState EXCEPT ![f.run] = f.outcome, ![n] = "queued"]
    BY <1>2 DEF FinalizeHop
  <2>3. runState[n] = "none" /\ n # f.run
    BY <2>1, <2>2, RunStates DEF IInv, StoreInv, RunTypeOK, InsertRow, IsNextRunId, RunIds
  <2>4. crashes' = crashes /\ UNCHANGED launchVars /\ DropActive(f.run)
    BY <1>2 DEF FinalizeHop, FinalizeEffects, launchVars
  <2>5. runState'[f.run] # "started"
    BY <2>1, <2>2, <2>3 DEF IInv, StoreInv, RunTypeOK, Outcome
  <2>6. \A q \in RunIds \ {f.run} :
          /\ runState'[q] = "started" <=> runState[q] = "started"
          /\ runState[q] = "started" => runCard'[q] = runCard[q] /\ runPane'[q] = runPane[q]
    BY <2>2, <2>3 DEF InsertRow, IInv, StoreInv, RunTypeOK
  <2> QED
    BY <2>1, <2>4, <2>5, <2>6, DropMirror
<1>3. ASSUME NEW f \in finalizing, FinalizeNothing(f) PROVE MirrorStep
  BY <1>3, NoRowMirror DEF FinalizeNothing, launchVars
<1>4. ASSUME NEW p \in killing, KillPane(p) PROVE MirrorStep
  BY <1>4, NoRowMirror DEF KillPane, launchVars
<1>5. ASSUME NEW r \in RunIds, TimeoutClassify(r) PROVE MirrorStep
  BY <1>5, NoRowMirror DEF TimeoutClassify, launchVars
<1> QED
  BY <1>1, <1>2, <1>3, <1>4, <1>5 DEF FinalizeNext

(* The dispatcher: register_spawned_run starts the run, adds its entry and *)
(* ends the launch in one section.                                         *)
LEMMA DispatchNextMirror ==
  ASSUME IInv, ActiveInv, DispatchNext
  PROVE  MirrorStep
<1>1. ASSUME NEW r \in RunIds, SpawnFail(r) PROVE MirrorStep
  <2>1. \A q \in RunIds : launchCard'[q] # NoCard => launchCard[q] # NoCard
    BY <1>1 DEF SpawnFail, ClearLaunch, IInv, DispatchTypeOK
  <2>2. runState[r] # "started" /\ "fail" \in Outcome
    BY <1>1 DEF SpawnFail, Launching, ActiveInv, NotYetStarted, Outcome
  <2>3. CASE runState[r] \in Open
    BY <1>1, <2>1, <2>2, <2>3, CloseMirror DEF SpawnFail, requestVars
  <2>4. CASE runState[r] \notin Open
    BY <1>1, <2>1, <2>4, NoRowMirror DEF SpawnFail, requestVars
  <2> QED
    BY <2>3, <2>4
<1>2. ASSUME NEW r \in RunIds, Register(r) PROVE MirrorStep
  <2>0. /\ crashes' = crashes /\ UNCHANGED runCard
        /\ launchCard' = [launchCard EXCEPT ![r] = NoCard]
    BY <1>2 DEF Register, requestVars, ClearLaunch
  <2>1. \A q \in RunIds : launchCard'[q] # NoCard => launchCard[q] # NoCard /\ q # r
    BY <2>0 DEF IInv, DispatchTypeOK
  <2>2. CASE runState[r] = "queued"
    <3>1. /\ runState' = [runState EXCEPT ![r] = "started"]
          /\ runPane' = [runPane EXCEPT ![r] = launchPane[r]]
          /\ activeCard' = [activeCard EXCEPT ![r] = runCard[r]]
          /\ activePane' = [activePane EXCEPT ![r] = launchPane[r]]
      BY <1>2, <2>2 DEF Register, StillQueued, AddActive
    <3>2. runCard[r] # NoCard
      BY <2>2, OpenRunCard, RunStates DEF IInv
    <3>3. \A q \in RunIds : NotYetStarted(q)'
      BY <2>1, <3>1 DEF ActiveInv, NotYetStarted, IInv, StoreInv, RunTypeOK
    <3>4. ASSUME crashes = 0, NEW q \in RunIds PROVE Mirrored(q)'
      <4>1. CASE q = r
        BY <2>0, <3>1, <3>2, <4>1 DEF Mirrored, IInv, StoreInv, RunTypeOK, SchedTypeOK
      <4>2. CASE q # r
        BY <2>0, <3>1, <3>4, <4>2
        DEF ActiveInv, Mirrored, IInv, StoreInv, RunTypeOK, SchedTypeOK
      <4> QED
        BY <4>1, <4>2
    <3>5. StraysAreAdopted
      BY <3>1 DEF StraysAreAdopted, Active, StartedRuns, IInv, StoreInv, RunTypeOK, SchedTypeOK
    <3> QED
      BY <2>0, <3>3, <3>4, <3>5 DEF MirrorStep, ActiveInv
  <2>3. CASE runState[r] # "queued"
    BY <1>2, <2>0, <2>1, <2>3, MirrorKept DEF Register, StillQueued
  <2> QED
    BY <2>2, <2>3
<1>3. CASE PassBegin
  BY <1>3, NoRowMirror DEF PassBegin, launchVars, requestVars
<1>4. CASE PassClaim
  <2>1. \A r \in RunIds : NotYetStarted(r)'
    BY <1>4 DEF PassClaim, Claimed, Heads, QueuedRuns, NotYetStarted, runVars
  <2>2. \A r \in RunIds : Mirrored(r) => Mirrored(r)'
    BY <1>4 DEF PassClaim, Mirrored, runVars, activeVars
  <2>3. StraysAreAdopted
    BY <1>4 DEF PassClaim, StraysAreAdopted, Active, StartedRuns, runVars, activeVars
  <2> QED
    BY <1>4, <2>1, <2>2, <2>3 DEF PassClaim, MirrorStep, ActiveInv, requestVars
<1>5. CASE PassEnd
  BY <1>5, NoRowMirror DEF PassEnd, launchVars, requestVars
<1>6. ASSUME NEW r \in RunIds, SpawnOk(r) PROVE MirrorStep
  BY <1>6, NoRowMirror DEF SpawnOk, requestVars
<1> QED
  BY <1>1, <1>2, <1>3, <1>4, <1>5, <1>6 DEF DispatchNext

(* The watchers and the reconciler.  An adoption inserts only where no     *)
(* entry is: a started run has one, so in one daemon lifetime it is too    *)
(* late for its run.                                                       *)
LEMMA WatchNextMirror ==
  ASSUME IInv, ActiveInv, WatchNext
  PROVE  MirrorStep
<1>1. ASSUME NEW o \in probing, AdoptAlive(o) PROVE MirrorStep
  <2>0. /\ o.run \in RunIds /\ o.stage = "adopt"
        /\ probing' = probing \ {o}
        /\ UNCHANGED <<runVars, launchVars, crashes>>
    BY <1>1 DEF AdoptAlive, ProbeStep, IInv, HandlerTypeOK, Observation
  <2>1. CASE o.run \in Active
    BY <1>1, <2>0, <2>1, NoRowMirror DEF AdoptAlive, launchVars
  <2>2. CASE o.run \notin Active
    <3>1. /\ activeCard' = [activeCard EXCEPT ![o.run] = o.card]
          /\ activePane' = [activePane EXCEPT ![o.run] = o.pane]
      BY <1>1, <2>2 DEF AdoptAlive, AddActive
    <3>2. \A q \in RunIds : NotYetStarted(q)'
      BY <2>0 DEF ActiveInv, NotYetStarted, launchVars, runVars
    <3>3. ASSUME crashes = 0, NEW q \in RunIds PROVE Mirrored(q)'
      <4>1. CASE q = o.run
        <5>1. runState[q] # "started"
          BY <2>2, <3>3, <4>1, OpenRunCard, RunStates DEF ActiveInv, Mirrored, Active, IInv
        <5> QED
          BY <2>0, <5>1 DEF Mirrored, runVars
      <4>2. CASE q # o.run
        BY <2>0, <3>1, <3>3, <4>2 DEF ActiveInv, Mirrored, IInv, SchedTypeOK, runVars
      <4> QED
        BY <4>1, <4>2
    <3>4. StraysAreAdopted
      BY <2>0, <3>1 DEF StraysAreAdopted, Active, StartedRuns, IInv, SchedTypeOK, runVars
    <3> QED
      BY <2>0, <3>2, <3>3, <3>4 DEF MirrorStep, ActiveInv
  <2> QED
    BY <2>1, <2>2
<1>2. CASE UNCHANGED <<runVars, activeVars, launchVars, crashes>>
  BY <1>2, NoRowMirror DEF launchVars
<1>3. CASE ~ \E o \in probing : AdoptAlive(o)
  <2>1. UNCHANGED <<runVars, activeVars, launchVars, crashes>>
    BY <1>3 DEF WatchNext, PaneDies, Signal, PaneEvent, ProbeRead, ProbeAnswer, ProbeUnknown,
                ProbeStale, ProbeGone, ProbeAlive, ProbeStep
  <2> QED
    BY <1>2, <2>1
<1> QED
  BY <1>1, <1>3

(* The inductive step of the map.                                          *)
LEMMA NextMirror ==
  ASSUME IInv, ActiveInv, [Next]_vars
  PROVE  MirrorStep
<1>1. CASE Crash
  BY <1>1 DEF Crash, MirrorStep, StraysAreAdopted, ActiveInv, NotYetStarted, Active, IInv, HerdrTypeOK
<1>2. CASE UNCHANGED vars
  BY <1>2, NoRowMirror DEF vars, launchVars, requestVars
<1> QED
  BY <1>1, <1>2, CardNextMirror, RequestNextMirror, FinalizeNextMirror, DispatchNextMirror,
     WatchNextMirror DEF Next

(* sched.active and the store, with the reconciler and every other request *)
(* and event: in one daemon lifetime a started run has its entry, because  *)
(* register_spawned_run and finalize_run write both in one critical        *)
(* section and no failed launch closes a started run; and an entry without *)
(* a started run behind it comes from adopt_alive alone, which inserts     *)
(* under another acquisition than the one that revalidated.                *)
THEOREM ActiveMapAgrees == Spec => ActiveAgrees
<1>1. Init => ActiveInv
  BY LifecycleAssumption DEF Init, ActiveInv, NotYetStarted, Mirrored
<1>2. IInv /\ ActiveInv /\ [Next]_vars => ActiveInv' /\ [StraysAreAdopted]_vars
  BY NextMirror DEF MirrorStep
<1>3. ActiveInv => (crashes = 0 => \A r \in StartedRuns :
                       activeCard[r] = runCard[r] /\ activePane[r] = runPane[r])
  BY DEF ActiveInv, Mirrored, StartedRuns
<1> QED
  BY <1>1, <1>2, <1>3, IInvAlways, PTL DEF Spec, ActiveAgrees

-----------------------------------------------------------------------------
(* The panes.  Deletions are left out (assumed away below): the rows of a  *)
(* deleted card take the record of their panes with them.                  *)

Waiting == {"none", "queued"}

CancelsKill == \A f \in finalizing : f.outcome = "cancelled" => f.kill

(* A pane that has not been obtained yet is recorded nowhere, and a row    *)
(* has its pane from its promotion on.                                     *)
PanesObtained ==
  \A r \in RunIds :
    /\ runState[r] \in Waiting => runPane[r] = NoPane
    /\ runPane[r] # NoPane => runPane[r] < nextPane
    /\ launchPane[r] # NoPane => launchPane[r] < nextPane

Recorded == \A p \in livePanes : \E r \in RunIds : runPane[r] = p \/ launchPane[r] = p

CancelledClosed ==
  \A r \in RunIds : runState[r] = "cancelled" /\ runPane[r] \in livePanes => runPane[r] \in killing

PaneInv ==
  /\ CancelsKill
  /\ PanesObtained
  /\ crashes = 0 => Recorded /\ CancelledClosed

(* A step that obtains no pane, promotes nothing and cancels only runs     *)
(* that have no pane.                                                      *)
LEMMA PanesKept ==
  ASSUME IInv, PaneInv, CancelsKill', crashes' = crashes,
         runPane' = runPane, launchPane' = launchPane, nextPane' = nextPane,
         livePanes' \subseteq livePanes, killing \cap livePanes' \subseteq killing',
         \A r \in RunIds : runState'[r] \in Waiting => runState[r] \in Waiting,
         \A r \in RunIds : runState'[r] = "cancelled" =>
           runState[r] = "cancelled" \/ runPane[r] = NoPane
  PROVE  PaneInv'
<1>1. PanesObtained'
  BY DEF PaneInv, PanesObtained
<1>2. crashes = 0 => Recorded'
  BY DEF PaneInv, Recorded
<1>3. crashes = 0 => CancelledClosed'
  BY LifecycleAssumption DEF PaneInv, CancelledClosed, IInv, HerdrTypeOK
<1> QED
  BY <1>1, <1>2, <1>3 DEF PaneInv

(* A step that writes neither a row nor a pane.                            *)
LEMMA NoRowPanes ==
  ASSUME IInv, PaneInv, CancelsKill', UNCHANGED <<runVars, launchPane, killing, paneVars, crashes>>
  PROVE  PaneInv'
  BY PanesKept DEF runVars, paneVars

(* A new row has no pane, like the absent row whose id it takes.           *)
LEMMA EnqueuePanes ==
  ASSUME IInv, PaneInv, UNCHANGED <<launchPane, killing, paneVars, finalizing, crashes>>,
         NEW r \in RunIds, NEW c, NEW column, Enqueue(r, c, column)
  PROVE  PaneInv'
<1>1. runState[r] = "none"
  BY RunStates DEF IInv, StoreInv, RunTypeOK, Enqueue, InsertRow, IsNextRunId, RunIds
<1>2. runPane' = runPane
  BY <1>1 DEF Enqueue, InsertRow, IInv, StoreInv, RunTypeOK, PaneInv, PanesObtained, Waiting
<1>3. \A q \in RunIds : /\ runState'[q] \in Waiting => runState[q] \in Waiting
                        /\ runState'[q] = "cancelled" => runState[q] = "cancelled"
  BY <1>1 DEF Enqueue, IInv, StoreInv, RunTypeOK, Waiting
<1> QED
  BY <1>2, <1>3, PanesKept DEF paneVars, PaneInv, CancelsKill

(* Closing a run that has no pane, or with another outcome.                *)
LEMMA ClosePanes ==
  ASSUME IInv, PaneInv, UNCHANGED <<launchPane, killing, paneVars, finalizing, crashes>>,
         NEW r \in RunIds, NEW outcome \in Outcome, NEW status, CloseRun(r, outcome, status),
         outcome = "cancelled" => runState[r] = "queued"
  PROVE  PaneInv'
<1>1. \A q \in RunIds : /\ runState'[q] \in Waiting => runState[q] \in Waiting
                        /\ runState'[q] = "cancelled" => runState[q] = "cancelled" \/ runPane[q] = NoPane
  BY DEF CloseRun, IInv, StoreInv, RunTypeOK, Outcome, Waiting, PaneInv, PanesObtained
<1> QED
  BY <1>1, PanesKept DEF CloseRun, paneVars, PaneInv, CancelsKill

(* Requests on cards: none of them touches a pane.                         *)
LEMMA CardNextPanes ==
  ASSUME IInv, PaneInv, CardNext, "delete" \notin Ops
  PROVE  PaneInv'
<1> USE DEF PaneInv, CancelsKill
<1>1. ASSUME NEW c \in Cards, NEW column \in Columns, NEW space \in Spaces,
             CardCreate(c, column, space)
      PROVE  PaneInv'
  <2>1. CASE EntryEnqueues(column, "idle")
    BY <1>1, <2>1, EnqueuePanes DEF CardCreate, launchVars
  <2>2. CASE ~ EntryEnqueues(column, "idle")
    BY <1>1, <2>2, NoRowPanes DEF CardCreate, launchVars
  <2> QED
    BY <2>1, <2>2
<1>2. ASSUME NEW c \in Cards, NEW column \in Columns, CardMove(c, column)
      PROVE  PaneInv'
  <2>1. CASE EntryEnqueues(column, cardStatus[c])
    BY <1>2, <2>1, EnqueuePanes DEF CardMove, launchVars, requestVars
  <2>2. CASE ~ EntryEnqueues(column, cardStatus[c])
    BY <1>2, <2>2, NoRowPanes DEF CardMove, launchVars, requestVars
  <2> QED
    BY <2>1, <2>2
<1>3. ASSUME NEW c \in Cards, CardArchive(c) PROVE PaneInv'
  BY <1>3, NoRowPanes DEF CardArchive, launchVars, requestVars
<1>4. ASSUME NEW column \in Columns, CardCreateCheck(column) PROVE PaneInv'
  BY <1>4, NoRowPanes DEF CardCreateCheck, launchVars
<1>5. ASSUME NEW q \in creating, CreateRefused(q) PROVE PaneInv'
  BY <1>5, NoRowPanes DEF CreateRefused, launchVars
<1>6. ASSUME NEW c \in Cards, CardDuplicateCheck(c) PROVE PaneInv'
  BY <1>6, NoRowPanes DEF CardDuplicateCheck, launchVars
<1>7. ASSUME NEW source \in Cards, NEW c \in Cards, CardDuplicate(source, c) PROVE PaneInv'
  BY <1>7, NoRowPanes DEF CardDuplicate, launchVars
<1>8. ASSUME NEW c \in Cards, NEW space \in Spaces, CardUpdate(c, space) PROVE PaneInv'
  BY <1>8, NoRowPanes DEF CardUpdate, launchVars, requestVars
<1>9. ASSUME NEW c \in Cards, CardRestore(c) PROVE PaneInv'
  BY <1>9, NoRowPanes DEF CardRestore, launchVars, requestVars
<1>10. ASSUME NEW b \in Boards, BoardArchive(b) PROVE PaneInv'
  BY <1>10, NoRowPanes DEF BoardArchive, launchVars, requestVars
<1>11. ASSUME NEW b \in Boards, BoardRestore(b) PROVE PaneInv'
  BY <1>11, NoRowPanes DEF BoardRestore, launchVars, requestVars
<1> QED
  BY <1>1, <1>2, <1>3, <1>4, <1>5, <1>6, <1>7, <1>8, <1>9, <1>10, <1>11 DEF CardNext, CardDelete

(* A call of finalize_run that cancels asks for the close of the pane.     *)
LEMMA CallCancelsKill ==
  ASSUME CancelsKill, NEW r, NEW plan, NEW timeout, CallFinalize(r, plan, timeout),
         plan.outcome = "cancelled" => plan.kill
  PROVE  CancelsKill'
  BY DEF CancelsKill, CallFinalize

(* Requests on runs.                                                       *)
LEMMA RequestNextPanes ==
  ASSUME IInv, PaneInv, RequestNext
  PROVE  PaneInv'
<1>1. ASSUME NEW c \in Cards, RunCancelQueued(c) PROVE PaneInv'
  <2>1. PICK r \in OpenRuns(c) : runState[r] = "queued" /\ CloseRun(r, "cancelled", "failed")
    BY <1>1 DEF RunCancelQueued
  <2>2. r \in RunIds /\ "cancelled" \in Outcome
    BY DEF OpenRuns, Outcome
  <2> QED
    BY <1>1, <2>1, <2>2, ClosePanes DEF RunCancelQueued, launchVars, requestVars
<1>2. ASSUME NEW c \in Cards, NEW column \in Columns, RunRetryEnqueue(c, column) PROVE PaneInv'
  BY <1>2, EnqueuePanes DEF RunRetryEnqueue, launchVars
<1>3. ASSUME NEW c \in Cards, NEW supplied, NEW pane, NEW outcome \in {"ok", "fail"},
             RunDone(c, supplied, pane, outcome)
      PROVE  PaneInv'
  <2>1. CancelsKill'
    BY <1>3, CallCancelsKill DEF RunDone, DecideLifecycle, PaneInv
  <2> QED
    BY <1>3, <2>1, NoRowPanes DEF RunDone, launchVars
<1>4. ASSUME NEW c \in Cards, NEW r \in RunIds, RunPaneExited(c, r) PROVE PaneInv'
  <2>1. CancelsKill'
    BY <1>4, CallCancelsKill DEF RunPaneExited, DecideLifecycle, PaneInv
  <2> QED
    BY <1>4, <2>1, NoRowPanes DEF RunPaneExited, launchVars
<1>5. ASSUME NEW c \in Cards, RunCancel(c) PROVE PaneInv'
  <2>1. CancelsKill'
    BY <1>5, CallCancelsKill DEF RunCancel, PaneInv
  <2> QED
    BY <1>5, <2>1, NoRowPanes DEF RunCancel, launchVars
<1>6. ASSUME NEW c \in Cards, RunRetryCheck(c) PROVE PaneInv'
  BY <1>6, NoRowPanes DEF RunRetryCheck, launchVars, PaneInv, CancelsKill
<1>7. ASSUME NEW c \in Cards, NEW column \in Columns, RunRetryRefused(c, column) PROVE PaneInv'
  BY <1>7, NoRowPanes DEF RunRetryRefused, launchVars, PaneInv, CancelsKill
<1> QED
  BY <1>1, <1>2, <1>3, <1>4, <1>5, <1>6, <1>7 DEF RequestNext

(* A finalization records no pane; one that cancels a started run hands    *)
(* the pane of its entry, which is the run's own, to be closed.            *)
LEMMA FinalizePanes ==
  ASSUME IInv, ActiveInv, PaneInv, NEW f \in finalizing, FinalizeClaims(f), FinalizeEffects(f),
         runPane' = runPane, runState'[f.run] = f.outcome,
         \A r \in RunIds \ {f.run} : /\ runState'[r] \in Waiting => runState[r] \in Waiting
                                     /\ runState'[r] = "cancelled" => runState[r] = "cancelled"
  PROVE  PaneInv'
<1>0. f.run \in RunIds /\ f.outcome \in Outcome /\ runState[f.run] \in Open
  BY FinalizeFacts DEF IInv
<1>1. /\ CancelsKill' /\ crashes' = crashes /\ launchPane' = launchPane
      /\ nextPane' = nextPane /\ livePanes' = livePanes /\ killing \subseteq killing'
  BY DEF FinalizeEffects, PaneInv, CancelsKill, launchVars, paneVars
<1>2. PanesObtained'
  BY <1>0, <1>1 DEF PaneInv, PanesObtained, Waiting, Outcome
<1>3. crashes = 0 => Recorded'
  BY <1>1 DEF PaneInv, Recorded
<1>4. ASSUME crashes = 0, NEW r \in RunIds, runState'[r] = "cancelled", runPane[r] \in livePanes
      PROVE  runPane[r] \in killing'
  <2>1. CASE runState[r] = "cancelled"
    BY <1>1, <1>4, <2>1 DEF PaneInv, CancelledClosed
  <2>2. CASE runState[r] # "cancelled"
    <3>1. r = f.run /\ f.kill
      BY <1>4, <2>2 DEF PaneInv, CancelsKill
    <3>2. runState[r] = "started"
      BY <1>0, <1>4, <3>1, RunStates, LifecycleAssumption
      DEF PaneInv, PanesObtained, Waiting, IInv, HerdrTypeOK
    <3>3. r \in Active /\ activePane[r] = runPane[r]
      BY <1>4, <3>2, OpenRunCard, RunStates DEF ActiveInv, Mirrored, Active, IInv
    <3> QED
      BY <3>1, <3>3 DEF FinalizeEffects, Kills
  <2> QED
    BY <2>1, <2>2
<1> QED
  BY <1>1, <1>2, <1>3, <1>4 DEF PaneInv, CancelledClosed

LEMMA FinalizeNextPanes ==
  ASSUME IInv, ActiveInv, PaneInv, FinalizeNext
  PROVE  PaneInv'
<1>1. ASSUME NEW f \in finalizing, FinalizeRest(f) PROVE PaneInv'
  <2>1. f.run \in RunIds /\ runState' = [runState EXCEPT ![f.run] = f.outcome] /\ runPane' = runPane
    BY <1>1, FinalizeFacts DEF FinalizeRest, CloseRun, IInv
  <2> QED
    BY <1>1, <2>1, FinalizePanes DEF FinalizeRest, IInv, StoreInv, RunTypeOK
<1>2. ASSUME NEW f \in finalizing, FinalizeHop(f) PROVE PaneInv'
  <2>1. f.run \in RunIds /\ f.outcome \in Outcome /\ runState[f.run] \in Open
    BY <1>2, FinalizeFacts DEF FinalizeHop, IInv
  <2>2. PICK n \in RunIds :
          /\ InsertRow(n, runCard[f.run], FinalizeTarget(f), runChain[f.run] + 1)
          /\ runState' = [runState EXCEPT ![f.run] = f.outcome, ![n] = "queued"]
    BY <1>2 DEF FinalizeHop
  <2>3. runState[n] = "none" /\ n # f.run
    BY <2>1, <2>2, RunStates DEF IInv, StoreInv, RunTypeOK, InsertRow, IsNextRunId, RunIds
  <2>4. runPane' = runPane
    BY <2>2, <2>3 DEF InsertRow, IInv, StoreInv, RunTypeOK, PaneInv, PanesObtained, Waiting
  <2>5. /\ runState'[f.run] = f.outcome
        /\ \A r \in RunIds \ {f.run} : /\ runState'[r] \in Waiting => runState[r] \in Waiting
                                       /\ runState'[r] = "cancelled" => runState[r] = "cancelled"
    BY <2>1, <2>2, <2>3 DEF IInv, StoreInv, RunTypeOK, Waiting
  <2> QED
    BY <1>2, <2>4, <2>5, FinalizePanes DEF FinalizeHop
<1>3. ASSUME NEW f \in finalizing, FinalizeNothing(f) PROVE PaneInv'
  BY <1>3, NoRowPanes DEF FinalizeNothing, launchVars, PaneInv, CancelsKill
<1>4. ASSUME NEW p \in killing, KillPane(p) PROVE PaneInv'
  BY <1>4, PanesKept DEF KillPane, ClosePane, runVars, launchVars, PaneInv, CancelsKill
<1>5. ASSUME NEW r \in RunIds, TimeoutClassify(r) PROVE PaneInv'
  <2>1. CancelsKill'
    BY <1>5, CallCancelsKill DEF TimeoutClassify, PaneInv
  <2> QED
    BY <1>5, <2>1, NoRowPanes DEF TimeoutClassify, launchVars
<1> QED
  BY <1>1, <1>2, <1>3, <1>4, <1>5 DEF FinalizeNext

(* The dispatcher: a spawn records the pane on the launch, a registration  *)
(* moves it to the run or closes it.                                       *)
LEMMA DispatchNextPanes ==
  ASSUME IInv, PaneInv, DispatchNext
  PROVE  PaneInv'
<1>1. ASSUME NEW r \in RunIds, SpawnFail(r) PROVE PaneInv'
  <2>1. launchPane' = launchPane
    BY <1>1 DEF SpawnFail, ClearLaunch, IInv, DispatchTypeOK
  <2>2. CASE runState[r] \in Open
    BY <1>1, <2>1, <2>2, ClosePanes DEF SpawnFail, requestVars, Outcome
  <2>3. CASE runState[r] \notin Open
    BY <1>1, <2>1, <2>3, NoRowPanes DEF SpawnFail, requestVars, PaneInv, CancelsKill
  <2> QED
    BY <2>2, <2>3
<1>2. ASSUME NEW r \in RunIds, SpawnOk(r) PROVE PaneInv'
  <2>0. /\ UNCHANGED <<runVars, finalizing, killing, crashes>>
        /\ launchPane[r] = NoPane
    BY <1>2 DEF SpawnOk, requestVars
  <2>1. CASE /\ nextPane \in Panes
             /\ launchPane' = [launchPane EXCEPT ![r] = nextPane]
             /\ livePanes' = livePanes \cup {nextPane}
             /\ nextPane' = nextPane + 1
    <3>1. PanesObtained'
      BY <2>0, <2>1, LifecycleAssumption
      DEF PaneInv, PanesObtained, runVars, IInv, StoreInv, RunTypeOK, DispatchTypeOK, HerdrTypeOK,
          Panes
    <3>2. \A p \in livePanes : (\E q \in RunIds : runPane[q] = p \/ launchPane[q] = p) =>
            \E q \in RunIds : runPane'[q] = p \/ launchPane'[q] = p
      BY <2>0, <2>1, LifecycleAssumption DEF runVars, IInv, DispatchTypeOK, HerdrTypeOK
    <3>3. launchPane'[r] = nextPane
      BY <2>1 DEF IInv, DispatchTypeOK
    <3>4. crashes = 0 => Recorded'
      BY <2>1, <3>2, <3>3 DEF PaneInv, Recorded
    <3>5. \A q \in RunIds : runPane[q] # nextPane
      BY <2>1, LifecycleAssumption DEF PaneInv, PanesObtained, IInv, HerdrTypeOK
    <3>6. crashes = 0 => CancelledClosed'
      BY <2>0, <2>1, <3>5 DEF PaneInv, CancelledClosed, runVars
    <3> QED
      BY <2>0, <3>1, <3>4, <3>6 DEF PaneInv, CancelsKill
  <2>2. CASE /\ \E p \in ReusablePanes(launchCard[r]) : launchPane' = [launchPane EXCEPT ![r] = p]
             /\ UNCHANGED paneVars
    <3>1. PICK q \in RunIds : /\ launchPane' = [launchPane EXCEPT ![r] = runPane[q]]
                              /\ runPane[q] \in livePanes
      BY <2>2 DEF ReusablePanes
    <3>2. runPane[q] # NoPane
      BY <3>1, LifecycleAssumption DEF IInv, HerdrTypeOK
    <3>3. PanesObtained'
      BY <2>0, <2>2, <3>1, <3>2
      DEF PaneInv, PanesObtained, runVars, paneVars, IInv, StoreInv, RunTypeOK, DispatchTypeOK
    <3>4. \A p \in livePanes : (\E s \in RunIds : runPane[s] = p \/ launchPane[s] = p) =>
            \E s \in RunIds : runPane'[s] = p \/ launchPane'[s] = p
      BY <2>0, <3>1, LifecycleAssumption DEF runVars, IInv, DispatchTypeOK, HerdrTypeOK
    <3> QED
      BY <2>0, <2>2, <3>3, <3>4 DEF PaneInv, CancelsKill, Recorded, CancelledClosed, runVars, paneVars
  <2> QED
    BY <1>2, <2>1, <2>2 DEF SpawnOk
<1>3. ASSUME NEW r \in RunIds, Register(r) PROVE PaneInv'
  <2>0. /\ UNCHANGED <<finalizing, killing, crashes, nextPane>>
        /\ launchPane' = [launchPane EXCEPT ![r] = NoPane]
        /\ launchPane[r] # NoPane
    BY <1>3 DEF Register, requestVars, ClearLaunch
  <2>1. CASE runState[r] = "queued"
    <3>1. /\ runState' = [runState EXCEPT ![r] = "started"]
          /\ runPane' = [runPane EXCEPT ![r] = launchPane[r]]
          /\ livePanes' = livePanes
      BY <1>3, <2>1 DEF Register, StillQueued
    <3>2. runPane[r] = NoPane
      BY <2>1 DEF PaneInv, PanesObtained, Waiting
    <3>3. PanesObtained'
      BY <2>0, <3>1
      DEF PaneInv, PanesObtained, Waiting, IInv, StoreInv, RunTypeOK, DispatchTypeOK
    <3>4. \A p \in livePanes : (\E q \in RunIds : runPane[q] = p \/ launchPane[q] = p) =>
            \E q \in RunIds : runPane'[q] = p \/ launchPane'[q] = p
      <4>1. ASSUME NEW p \in livePanes, NEW q \in RunIds, runPane[q] = p \/ launchPane[q] = p
            PROVE  \E s \in RunIds : runPane'[s] = p \/ launchPane'[s] = p
        <5>1. CASE q = r
          BY <3>1, <3>2, <4>1, <5>1, LifecycleAssumption
          DEF IInv, StoreInv, RunTypeOK, HerdrTypeOK
        <5>2. CASE q # r
          BY <2>0, <3>1, <4>1, <5>2 DEF IInv, StoreInv, RunTypeOK, DispatchTypeOK
        <5> QED
          BY <5>1, <5>2
      <4> QED
        BY <4>1
    <3>5. crashes = 0 => Recorded'
      BY <3>1, <3>4 DEF PaneInv, Recorded
    <3>6. crashes = 0 => CancelledClosed'
      BY <2>0, <3>1 DEF PaneInv, CancelledClosed, IInv, StoreInv, RunTypeOK
    <3> QED
      BY <2>0, <3>3, <3>5, <3>6 DEF PaneInv, CancelsKill
  <2>2. CASE runState[r] # "queued"
    <3>1. UNCHANGED <<runState, runPane>> /\ livePanes' = livePanes \ {launchPane[r]}
      BY <1>3, <2>2 DEF Register, StillQueued, ClosePane
    <3>2. PanesObtained'
      BY <2>0, <3>1 DEF PaneInv, PanesObtained, IInv, DispatchTypeOK
    <3>3. crashes = 0 => Recorded'
      <4>1. ASSUME NEW p \in livePanes', NEW q \in RunIds, runPane[q] = p \/ launchPane[q] = p
            PROVE  \E s \in RunIds : runPane'[s] = p \/ launchPane'[s] = p
        BY <2>0, <3>1, <4>1 DEF IInv, DispatchTypeOK
      <4> QED
        BY <3>1, <4>1 DEF PaneInv, Recorded
    <3>4. crashes = 0 => CancelledClosed'
      BY <2>0, <3>1 DEF PaneInv, CancelledClosed
    <3> QED
      BY <2>0, <3>2, <3>3, <3>4 DEF PaneInv, CancelsKill
  <2> QED
    BY <2>1, <2>2
<1>4. CASE PassBegin \/ PassClaim \/ PassEnd
  BY <1>4, NoRowPanes
  DEF PassBegin, PassClaim, PassEnd, launchVars, requestVars, PaneInv, CancelsKill
<1> QED
  BY <1>1, <1>2, <1>3, <1>4 DEF DispatchNext

(* The watchers: a pane that ends needs no record any more, and no answer  *)
(* of a probe cancels a run.                                               *)
LEMMA WatchNextPanes ==
  ASSUME IInv, ActiveInv, PaneInv, WatchNext
  PROVE  PaneInv'
<1>1. ASSUME NEW p \in Panes, PaneDies(p) PROVE PaneInv'
  BY <1>1, PanesKept DEF PaneDies, runVars, launchVars, requestVars, PaneInv, CancelsKill
<1>2. ASSUME NEW p \in Panes, NEW signal \in AgentSignal, Signal(p, signal) PROVE PaneInv'
  <2>1. finalizing' \subseteq finalizing
    BY <1>2 DEF Signal
  <2> QED
    BY <1>2, <2>1, NoRowPanes DEF Signal, launchVars, PaneInv, CancelsKill
<1>3. ASSUME NEW p \in Panes, PaneEvent(p) PROVE PaneInv'
  <2>1. CancelsKill'
    BY <1>3, CallCancelsKill DEF PaneEvent, PaneInv
  <2> QED
    BY <1>3, <2>1, NoRowPanes DEF PaneEvent, launchVars
<1>4. ASSUME NEW o \in probing, ProbeGone(o) PROVE PaneInv'
  <2>1. CancelsKill'
    BY <1>4, CallCancelsKill DEF ProbeGone, PaneInv
  <2> QED
    BY <1>4, <2>1, NoRowPanes DEF ProbeGone, ProbeStep, launchVars
<1>5. ASSUME NEW o \in probing,
             ProbeAnswer(o) \/ ProbeUnknown(o) \/ ProbeStale(o) \/ ProbeAlive(o) \/ AdoptAlive(o)
      PROVE  PaneInv'
  BY <1>5, NoRowPanes
  DEF ProbeAnswer, ProbeUnknown, ProbeStale, ProbeAlive, AdoptAlive, ProbeStep, launchVars,
      PaneInv, CancelsKill
<1>6. ASSUME NEW r \in RunIds, ProbeRead(r) PROVE PaneInv'
  BY <1>6, NoRowPanes DEF ProbeRead, launchVars, PaneInv, CancelsKill
<1> QED
  BY <1>1, <1>2, <1>3, <1>4, <1>5, <1>6 DEF WatchNext

(* Without card.delete, and with the reconciler, every pane the daemon has *)
(* obtained since it started and that is still open is recorded on a run   *)
(* or on a launch in flight, and the pane of a cancelled run is closed or  *)
(* about to be: no order of a spawn, its registration and a cancel or a    *)
(* done of the same run leaks one.                                         *)
THEOREM PanesNotLeaked ==
  ASSUME "delete" \notin Ops
  PROVE  Spec => []PanesAccounted
<1>1. Init => ActiveInv /\ PaneInv
  BY LifecycleAssumption
  DEF Init, ActiveInv, NotYetStarted, Mirrored, PaneInv, CancelsKill, PanesObtained, Recorded,
      CancelledClosed
<1>2. IInv /\ ActiveInv /\ PaneInv /\ [Next]_vars => ActiveInv' /\ PaneInv'
  <2> SUFFICES ASSUME IInv, ActiveInv, PaneInv, [Next]_vars PROVE ActiveInv' /\ PaneInv'
    OBVIOUS
  <2>1. ActiveInv'
    BY NextMirror DEF MirrorStep
  <2>2. CASE Crash
    <3>1. crashes' # 0 /\ CancelsKill'
      BY <2>2 DEF Crash, CancelsKill, IInv, HerdrTypeOK
    <3>2. PanesObtained'
      BY <2>2 DEF Crash, PaneInv, PanesObtained, runVars, paneVars
    <3> QED
      BY <2>1, <3>1, <3>2 DEF PaneInv
  <2>3. CASE UNCHANGED vars
    <3>1. UNCHANGED <<runVars, launchPane, killing, paneVars, crashes, finalizing>>
      BY <2>3 DEF vars, launchVars, requestVars
    <3> QED
      BY <2>1, <3>1, NoRowPanes DEF PaneInv, CancelsKill
  <2> QED
    BY <2>1, <2>2, <2>3, CardNextPanes, RequestNextPanes, FinalizeNextPanes, DispatchNextPanes,
       WatchNextPanes DEF Next
<1>3. PaneInv => PanesAccounted
  BY DEF PaneInv, Recorded, CancelledClosed, PanesAccounted
<1> QED
  BY <1>1, <1>2, <1>3, IInvAlways, PTL DEF Spec
=============================================================================

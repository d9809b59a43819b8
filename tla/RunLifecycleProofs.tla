-------------------------- MODULE RunLifecycleProofs --------------------------
(***************************************************************************)
(* Proofs about RunLifecycle for every value of its constants: any number  *)
(* of cards, runs, panes, columns and boards, any capacity, any set of     *)
(* operations.                                                             *)
(*                                                                         *)
(* IInv is inductive: one lemma per group of actions shows that a step     *)
(* keeps it, with one step per action.  What happens in the store is       *)
(* proved once per kind of transaction (close, enqueue, hop, promote,      *)
(* signal, insert) and cited by the actions that perform it.               *)
(***************************************************************************)
EXTENDS RunLifecycle, FiniteSetTheorems, TLAPS

(* The store: rows have their types, and cards and runs agree.             *)
(* OneOpenRunPerCard and StatusMatchesRun need each other: the status of a *)
(* card is compared with THE open run, and a request looks for an open run *)
(* where the status is at rest.                                            *)
StoreInv == CardTypeOK /\ RunTypeOK /\ OneOpenRunPerCard /\ StatusMatchesRun

(* The inductive invariant: the scheduler, the launches, the calls in      *)
(* flight and the probes only refer to rows, panes and plans of their      *)
(* types, so that what they write later is well typed however stale it is. *)
IInv ==
  /\ StoreInv
  /\ SchedTypeOK
  /\ DispatchTypeOK
  /\ HandlerTypeOK
  /\ HerdrTypeOK

-----------------------------------------------------------------------------
(* The card statuses the engine names: where each group lies.              *)
LEMMA StatusSets ==
  /\ LiveStatus \subseteq CardStatus
  /\ RestStatus \subseteq CardStatus
  /\ "queued" \in CardStatus /\ "idle" \in CardStatus /\ "running" \in LiveStatus
  /\ "failed" \in RestStatus /\ "idle" \in RestStatus
  /\ "queued" \notin LiveStatus /\ "queued" \notin RestStatus
  /\ LiveStatus \cap RestStatus = {}
  /\ "absent" \notin CardStatus
  BY DEF LiveStatus, RestStatus, BusyStatus, CardStatus

(* The states of a run row: open, ended and absent are disjoint.           *)
LEMMA RunStates ==
  /\ Open \subseteq RunState /\ Outcome \subseteq RunState /\ "none" \in RunState
  /\ "queued" \in RunState /\ "started" \in RunState
  /\ "queued" \in Open /\ "started" \in Open /\ "none" \notin Open
  /\ Open \cap Outcome = {}
  /\ "none" \notin Outcome
  /\ \A s \in Open : s = "queued" \/ s = "started"
  BY DEF RunState, Open, Ended, Outcome

(* An open run belongs to a card that exists, and the card says so: it is  *)
(* queued or live.                                                         *)
LEMMA OpenRunCard ==
  ASSUME StoreInv, NEW r \in RunIds, runState[r] \in Open
  PROVE  /\ runCard[r] \in Cards /\ runCard[r] # NoCard /\ Present(runCard[r])
         /\ cardStatus[runCard[r]] \in LiveStatus \cup {"queued"}
<1>1. runCard[r] \in Cards
  BY RunStates DEF StoreInv, RunTypeOK
<1>2. cardStatus[runCard[r]] \in LiveStatus \cup {"queued"}
  BY RunStates DEF StoreInv, StatusMatchesRun
<1> QED
  BY <1>1, <1>2, StatusSets, LifecycleAssumption DEF Present

(* A step that writes no row keeps the store invariant.                    *)
LEMMA StoreUnchanged ==
  ASSUME StoreInv, UNCHANGED <<cardVars, runVars>>
  PROVE  StoreInv'
  BY DEF StoreInv, CardTypeOK, RunTypeOK, OneOpenRunPerCard, StatusMatchesRun, Present,
         cardVars, runVars

(* Closing an open run and putting its card to rest in the same            *)
(* transaction (finalize_run_inner without a hop, fail_queued_run, cancel  *)
(* of a queued run) keeps the store invariant.                             *)
LEMMA CloseRunStore ==
  ASSUME StoreInv, NEW r \in RunIds, runState[r] \in Open,
         NEW outcome \in Outcome, NEW status \in RestStatus,
         CloseRun(r, outcome, status)
  PROVE  /\ RunTypeOK' /\ OneOpenRunPerCard' /\ StatusMatchesRun'
         /\ cardStatus' \in [Cards -> CardStatus \cup {"absent"}]
         /\ \A c \in Cards : Present(c)' <=> Present(c)
<1>1. RunTypeOK'
  BY RunStates DEF StoreInv, RunTypeOK, CloseRun
<1>2. OneOpenRunPerCard'
  BY RunStates DEF StoreInv, RunTypeOK, OneOpenRunPerCard, CloseRun
<1>3. StatusMatchesRun'
  BY RunStates, StatusSets, OpenRunCard
  DEF StoreInv, CardTypeOK, RunTypeOK, OneOpenRunPerCard, StatusMatchesRun, CloseRun
<1>4. cardStatus' \in [Cards -> CardStatus \cup {"absent"}]
  BY StatusSets DEF StoreInv, CardTypeOK, CloseRun
<1>5. \A c \in Cards : Present(c)' <=> Present(c)
  BY StatusSets, OpenRunCard DEF StoreInv, CardTypeOK, CloseRun, Present
<1> QED
  BY <1>1, <1>2, <1>3, <1>4, <1>5

(* enqueue_run_tx for a card that has no open run keeps the store          *)
(* invariant: the card and its new row become queued together.             *)
LEMMA EnqueueStore ==
  ASSUME StoreInv, NEW r \in RunIds, NEW c \in Cards, NEW column \in Columns,
         OpenRuns(c) = {}, Enqueue(r, c, column)
  PROVE  /\ RunTypeOK' /\ OneOpenRunPerCard' /\ StatusMatchesRun'
         /\ cardStatus' \in [Cards -> CardStatus \cup {"absent"}]
         /\ \A d \in Cards : Present(d)' <=> (d = c \/ Present(d))
<1>0. runState[r] = "none"
  BY RunStates DEF StoreInv, RunTypeOK, Enqueue, InsertRow, IsNextRunId, RunIds
<1>1. RunTypeOK'
  BY RunStates DEF StoreInv, RunTypeOK, Enqueue, InsertRow
<1>2. OneOpenRunPerCard'
  BY RunStates DEF StoreInv, RunTypeOK, OneOpenRunPerCard, Enqueue, InsertRow, OpenRuns
<1>3. StatusMatchesRun'
  BY RunStates, StatusSets, <1>0
  DEF StoreInv, CardTypeOK, RunTypeOK, OneOpenRunPerCard, StatusMatchesRun, Enqueue, InsertRow,
      OpenRuns
<1>4. cardStatus' \in [Cards -> CardStatus \cup {"absent"}]
  BY StatusSets DEF StoreInv, CardTypeOK, Enqueue
<1>5. \A d \in Cards : Present(d)' <=> (d = c \/ Present(d))
  BY StatusSets DEF StoreInv, CardTypeOK, Enqueue, Present
<1> QED
  BY <1>1, <1>2, <1>3, <1>4, <1>5

(* A request that changes a card's column, space or archival only.         *)
LEMMA RunsUnchanged ==
  ASSUME StoreInv, UNCHANGED runVars, UNCHANGED cardStatus
  PROVE  RunTypeOK' /\ OneOpenRunPerCard' /\ StatusMatchesRun' /\ \A c \in Cards : Present(c)' = Present(c)
  BY DEF StoreInv, RunTypeOK, OneOpenRunPerCard, StatusMatchesRun, Present, runVars

(* A card inserted idle, under an id no card has, owns no run.             *)
LEMMA NewCardStore ==
  ASSUME StoreInv, NEW c \in Cards, IsNextCardId(c), UNCHANGED runVars,
         cardStatus' = [cardStatus EXCEPT ![c] = "idle"]
  PROVE  /\ RunTypeOK' /\ OneOpenRunPerCard' /\ StatusMatchesRun'
         /\ cardStatus' \in [Cards -> CardStatus \cup {"absent"}]
         /\ \A d \in Cards : Present(d)' <=> (d = c \/ Present(d))
<1>1. ~ Present(c)
  BY DEF IsNextCardId, Cards
<1>2. OpenRuns(c) = {}
  BY <1>1, OpenRunCard, RunStates DEF StoreInv, RunTypeOK, OpenRuns
<1>3. RunTypeOK' /\ OneOpenRunPerCard'
  BY DEF StoreInv, RunTypeOK, OneOpenRunPerCard, runVars
<1>4. StatusMatchesRun'
  BY <1>2, RunStates, StatusSets
  DEF StoreInv, CardTypeOK, RunTypeOK, StatusMatchesRun, OpenRuns, runVars
<1>5. cardStatus' \in [Cards -> CardStatus \cup {"absent"}]
  BY StatusSets DEF StoreInv, CardTypeOK
<1>6. \A d \in Cards : Present(d)' <=> (d = c \/ Present(d))
  BY StatusSets DEF StoreInv, CardTypeOK, Present
<1> QED
  BY <1>3, <1>4, <1>5, <1>6

(* Every client request on cards and boards keeps the invariant.           *)
LEMMA CardNextStep ==
  ASSUME IInv, CardNext
  PROVE  IInv'
<1> USE DEF IInv
<1>1. ASSUME NEW column \in Columns, CardCreateCheck(column) PROVE IInv'
  <2>1. StoreInv'
    BY <1>1, StoreUnchanged DEF CardCreateCheck
  <2>2. SchedTypeOK' /\ DispatchTypeOK' /\ HerdrTypeOK'
    BY <1>1
    DEF CardCreateCheck, SchedTypeOK, DispatchTypeOK, HerdrTypeOK, activeVars, passVars,
        launchVars, paneVars
  <2>3. HandlerTypeOK'
    BY <1>1 DEF CardCreateCheck, HandlerTypeOK, CreateRequest
  <2> QED BY <2>1, <2>2, <2>3
<1>2. ASSUME NEW c \in Cards, NEW column \in Columns, NEW space \in Spaces, CardCreate(c, column, space)
      PROVE  IInv'
  <2>0. OpenRuns(c) = {}
    BY <1>2, OpenRunCard, RunStates
    DEF CardCreate, IsNextCardId, Cards, StoreInv, RunTypeOK, OpenRuns
  <2>1. /\ RunTypeOK' /\ OneOpenRunPerCard' /\ StatusMatchesRun'
        /\ cardStatus' \in [Cards -> CardStatus \cup {"absent"}]
        /\ \A d \in Cards : Present(d)' <=> (d = c \/ Present(d))
    <3>1. CASE EntryEnqueues(column, "idle")
      BY <1>2, <2>0, <3>1, EnqueueStore DEF CardCreate
    <3>2. CASE ~ EntryEnqueues(column, "idle")
      BY <1>2, <3>2, NewCardStore DEF CardCreate
    <3> QED BY <3>1, <3>2
  <2>2. CardTypeOK'
    BY <1>2, <2>1 DEF CardCreate, StoreInv, CardTypeOK
  <2>3. SchedTypeOK'
    BY <1>2 DEF CardCreate, SchedTypeOK, activeVars
  <2>4. DispatchTypeOK' /\ HerdrTypeOK' /\ HandlerTypeOK'
    BY <1>2
    DEF CardCreate, Enqueue, DispatchTypeOK, HerdrTypeOK, HandlerTypeOK, passVars, launchVars,
        paneVars
  <2> QED BY <2>1, <2>2, <2>3, <2>4 DEF StoreInv
<1>3. ASSUME NEW q \in creating, CreateRefused(q) PROVE IInv'
  <2>1. StoreInv'
    BY <1>3, StoreUnchanged DEF CreateRefused
  <2>2. SchedTypeOK' /\ DispatchTypeOK' /\ HandlerTypeOK' /\ HerdrTypeOK'
    BY <1>3
    DEF CreateRefused, SchedTypeOK, DispatchTypeOK, HandlerTypeOK, HerdrTypeOK, activeVars,
        passVars, launchVars, requestVars, paneVars
  <2> QED
    BY <2>1, <2>2
<1>4. ASSUME NEW c \in Cards, CardDuplicateCheck(c) PROVE IInv'
  <2>1. StoreInv'
    BY <1>4, StoreUnchanged DEF CardDuplicateCheck
  <2>2. SchedTypeOK' /\ DispatchTypeOK' /\ HandlerTypeOK' /\ HerdrTypeOK'
    BY <1>4
    DEF CardDuplicateCheck, SchedTypeOK, DispatchTypeOK, HandlerTypeOK, HerdrTypeOK, activeVars,
        passVars, launchVars, paneVars, CreateRequest
  <2> QED
    BY <2>1, <2>2
<1>5. ASSUME NEW source \in Cards, NEW c \in Cards, CardDuplicate(source, c) PROVE IInv'
  <2>0. /\ RunTypeOK' /\ OneOpenRunPerCard' /\ StatusMatchesRun'
        /\ cardStatus' \in [Cards -> CardStatus \cup {"absent"}]
        /\ \A d \in Cards : Present(d)' <=> (d = c \/ Present(d))
    BY <1>5, NewCardStore DEF CardDuplicate
  <2>1. StoreInv'
    BY <1>5, <2>0 DEF CardDuplicate, StoreInv, CardTypeOK
  <2>2. SchedTypeOK' /\ DispatchTypeOK' /\ HandlerTypeOK' /\ HerdrTypeOK'
    BY <1>5
    DEF CardDuplicate, SchedTypeOK, DispatchTypeOK, HandlerTypeOK, HerdrTypeOK, activeVars,
        passVars, launchVars, requestVars, paneVars
  <2> QED
    BY <2>1, <2>2
<1>6. ASSUME NEW c \in Cards, NEW space \in Spaces, CardUpdate(c, space) PROVE IInv'
  <2>1. StoreInv'
    BY <1>6, RunsUnchanged DEF CardUpdate, StoreInv, CardTypeOK
  <2>2. SchedTypeOK' /\ DispatchTypeOK' /\ HandlerTypeOK' /\ HerdrTypeOK'
    BY <1>6
    DEF CardUpdate, SchedTypeOK, DispatchTypeOK, HandlerTypeOK, HerdrTypeOK, activeVars,
        passVars, launchVars, requestVars, paneVars
  <2> QED
    BY <2>1, <2>2
<1>7. ASSUME NEW c \in Cards, CardDelete(c) PROVE IInv'
  <2>1. StoreInv'
    <3>1. CardTypeOK'
      BY <1>7, StatusSets DEF CardDelete, StoreInv, CardTypeOK, Present
    <3>2. RunTypeOK'
      BY <1>7, RunStates DEF CardDelete, StoreInv, RunTypeOK
    <3>3. OneOpenRunPerCard'
      BY <1>7, RunStates DEF CardDelete, StoreInv, RunTypeOK, OneOpenRunPerCard
    <3>4. StatusMatchesRun'
      BY <1>7, RunStates, StatusSets
      DEF CardDelete, StoreInv, CardTypeOK, RunTypeOK, StatusMatchesRun, OpenRuns
    <3> QED
      BY <3>1, <3>2, <3>3, <3>4 DEF StoreInv
  <2>2. SchedTypeOK' /\ DispatchTypeOK' /\ HandlerTypeOK' /\ HerdrTypeOK'
    BY <1>7
    DEF CardDelete, SchedTypeOK, DispatchTypeOK, HandlerTypeOK, HerdrTypeOK, activeVars,
        passVars, launchVars, requestVars, paneVars
  <2> QED
    BY <2>1, <2>2
<1>8. ASSUME NEW c \in Cards, CardArchive(c) PROVE IInv'
  <2>1. StoreInv'
    BY <1>8, RunsUnchanged DEF CardArchive, StoreInv, CardTypeOK
  <2>2. SchedTypeOK' /\ DispatchTypeOK' /\ HandlerTypeOK' /\ HerdrTypeOK'
    BY <1>8
    DEF CardArchive, SchedTypeOK, DispatchTypeOK, HandlerTypeOK, HerdrTypeOK, activeVars,
        passVars, launchVars, requestVars, paneVars
  <2> QED
    BY <2>1, <2>2
<1>9. ASSUME NEW c \in Cards, CardRestore(c) PROVE IInv'
  <2>1. StoreInv'
    BY <1>9, RunsUnchanged DEF CardRestore, StoreInv, CardTypeOK
  <2>2. SchedTypeOK' /\ DispatchTypeOK' /\ HandlerTypeOK' /\ HerdrTypeOK'
    BY <1>9
    DEF CardRestore, SchedTypeOK, DispatchTypeOK, HandlerTypeOK, HerdrTypeOK, activeVars,
        passVars, launchVars, requestVars, paneVars
  <2> QED
    BY <2>1, <2>2
<1>10. ASSUME NEW b \in Boards, BoardArchive(b) PROVE IInv'
  <2>1. StoreInv'
    BY <1>10, RunsUnchanged DEF BoardArchive, StoreInv, CardTypeOK
  <2>2. SchedTypeOK' /\ DispatchTypeOK' /\ HandlerTypeOK' /\ HerdrTypeOK'
    BY <1>10
    DEF BoardArchive, SchedTypeOK, DispatchTypeOK, HandlerTypeOK, HerdrTypeOK, activeVars,
        passVars, launchVars, requestVars, paneVars
  <2> QED
    BY <2>1, <2>2
<1>11. ASSUME NEW b \in Boards, BoardRestore(b) PROVE IInv'
  <2>1. StoreInv'
    BY <1>11, RunsUnchanged DEF BoardRestore, StoreInv, CardTypeOK
  <2>2. SchedTypeOK' /\ DispatchTypeOK' /\ HandlerTypeOK' /\ HerdrTypeOK'
    BY <1>11
    DEF BoardRestore, SchedTypeOK, DispatchTypeOK, HandlerTypeOK, HerdrTypeOK, activeVars,
        passVars, launchVars, requestVars, paneVars
  <2> QED
    BY <2>1, <2>2
<1>12. ASSUME NEW c \in Cards, NEW column \in Columns, CardMove(c, column) PROVE IInv'
  <2>0. /\ RunTypeOK' /\ OneOpenRunPerCard' /\ StatusMatchesRun'
        /\ cardStatus' \in [Cards -> CardStatus \cup {"absent"}]
        /\ \A d \in Cards : Present(d)' <=> Present(d)
    <3>1. CASE EntryEnqueues(column, cardStatus[c])
      BY <1>12, <3>1, EnqueueStore DEF CardMove
    <3>2. CASE ~ EntryEnqueues(column, cardStatus[c])
      BY <1>12, <3>2, RunsUnchanged DEF CardMove, StoreInv, CardTypeOK
    <3> QED
      BY <3>1, <3>2
  <2>1. StoreInv'
    BY <1>12, <2>0 DEF CardMove, StoreInv, CardTypeOK
  <2>2. UNCHANGED <<activeCard, activePane>>
    BY <1>12 DEF CardMove, activeVars
  <2>3. chainHops' \in [Cards -> Nat]
    BY <1>12 DEF CardMove, SchedTypeOK
  <2>4. wake' = TRUE \/ wake' = wake
    BY <1>12 DEF CardMove, Enqueue
  <2>5. SchedTypeOK'
    BY <2>2, <2>3 DEF SchedTypeOK
  <2>6. DispatchTypeOK' /\ HandlerTypeOK' /\ HerdrTypeOK'
    BY <1>12, <2>4
    DEF CardMove, DispatchTypeOK, HandlerTypeOK, HerdrTypeOK, passVars, launchVars, requestVars,
        paneVars
  <2> QED
    BY <2>1, <2>5, <2>6
<1> QED
  BY <1>1, <1>2, <1>3, <1>4, <1>5, <1>6, <1>7, <1>8, <1>9, <1>10, <1>11, <1>12 DEF CardNext

(* A finalize_run call carries a run of the table and a plan of the        *)
(* engine.                                                                 *)
LEMMA CallFinalizeType ==
  ASSUME HandlerTypeOK, NEW r \in RunIds, NEW plan \in FinalizePlan, NEW timeout \in BOOLEAN,
         CallFinalize(r, plan, timeout)
  PROVE  finalizing' \subseteq FinalizeCall
  BY DEF HandlerTypeOK, CallFinalize, FinalizePlan, FinalizeCall

(* Every client request on runs keeps the invariant.                       *)
LEMMA RequestNextStep ==
  ASSUME IInv, RequestNext
  PROVE  IInv'
<1> USE DEF IInv
<1>1. ASSUME NEW c \in Cards, NEW supplied, NEW pane, NEW outcome \in {"ok", "fail"},
             RunDone(c, supplied, pane, outcome)
      PROVE  IInv'
  <2>0. finalizing' \subseteq FinalizeCall
    BY <1>1, CallFinalizeType DEF RunDone, OpenRuns, DecideLifecycle, FinalizePlan, Outcome
  <2>1. StoreInv'
    BY <1>1, StoreUnchanged DEF RunDone
  <2>2. SchedTypeOK' /\ DispatchTypeOK' /\ HandlerTypeOK' /\ HerdrTypeOK'
    BY <1>1, <2>0
    DEF RunDone, SchedTypeOK, DispatchTypeOK, HandlerTypeOK, HerdrTypeOK, activeVars, passVars,
        launchVars, paneVars
  <2> QED
    BY <2>1, <2>2
<1>2. ASSUME NEW c \in Cards, NEW r \in RunIds, RunPaneExited(c, r) PROVE IInv'
  <2>0. finalizing' \subseteq FinalizeCall
    BY <1>2, CallFinalizeType DEF RunPaneExited, OpenRuns, DecideLifecycle, FinalizePlan, Outcome
  <2>1. StoreInv'
    BY <1>2, StoreUnchanged DEF RunPaneExited
  <2>2. SchedTypeOK' /\ DispatchTypeOK' /\ HandlerTypeOK' /\ HerdrTypeOK'
    BY <1>2, <2>0
    DEF RunPaneExited, SchedTypeOK, DispatchTypeOK, HandlerTypeOK, HerdrTypeOK, activeVars,
        passVars, launchVars, paneVars
  <2> QED
    BY <2>1, <2>2
<1>3. ASSUME NEW c \in Cards, RunCancel(c) PROVE IInv'
  <2>0. finalizing' \subseteq FinalizeCall
    BY <1>3, CallFinalizeType DEF RunCancel, OpenRuns, DecideLifecycle, FinalizePlan, Outcome
  <2>1. StoreInv'
    BY <1>3, StoreUnchanged DEF RunCancel
  <2>2. SchedTypeOK' /\ DispatchTypeOK' /\ HandlerTypeOK' /\ HerdrTypeOK'
    BY <1>3, <2>0
    DEF RunCancel, SchedTypeOK, DispatchTypeOK, HandlerTypeOK, HerdrTypeOK, activeVars, passVars,
        launchVars, paneVars
  <2> QED
    BY <2>1, <2>2
<1>4. ASSUME NEW c \in Cards, RunCancelQueued(c) PROVE IInv'
  <2>0. PICK r \in OpenRuns(c) : CloseRun(r, "cancelled", "failed")
    BY <1>4 DEF RunCancelQueued
  <2>1. StoreInv'
    BY <1>4, <2>0, CloseRunStore, StatusSets
    DEF RunCancelQueued, OpenRuns, Outcome, StoreInv, CardTypeOK
  <2>2. SchedTypeOK' /\ DispatchTypeOK' /\ HandlerTypeOK' /\ HerdrTypeOK'
    BY <1>4
    DEF RunCancelQueued, SchedTypeOK, DispatchTypeOK, HandlerTypeOK, HerdrTypeOK, activeVars,
        passVars, launchVars, requestVars, paneVars
  <2> QED
    BY <2>1, <2>2
<1>5. ASSUME NEW c \in Cards, RunRetryCheck(c) PROVE IInv'
  <2>1. StoreInv'
    BY <1>5, StoreUnchanged DEF RunRetryCheck
  <2>2. SchedTypeOK' /\ DispatchTypeOK' /\ HandlerTypeOK' /\ HerdrTypeOK'
    BY <1>5
    DEF RunRetryCheck, SchedTypeOK, DispatchTypeOK, HandlerTypeOK, HerdrTypeOK, activeVars,
        passVars, launchVars, paneVars, StoreInv, CardTypeOK
  <2> QED
    BY <2>1, <2>2
<1>6. ASSUME NEW c \in Cards, NEW column \in Columns, RunRetryEnqueue(c, column) PROVE IInv'
  <2>0. PICK r \in RunIds : Enqueue(r, c, column)
    BY <1>6 DEF RunRetryEnqueue
  <2>1. StoreInv'
    BY <1>6, <2>0, EnqueueStore DEF RunRetryEnqueue, RetryAllowed, StoreInv, CardTypeOK
  <2>2. SchedTypeOK' /\ DispatchTypeOK' /\ HandlerTypeOK' /\ HerdrTypeOK'
    BY <1>6
    DEF RunRetryEnqueue, SchedTypeOK, DispatchTypeOK, HandlerTypeOK, HerdrTypeOK, Enqueue,
        activeVars, passVars, launchVars, paneVars
  <2> QED
    BY <2>1, <2>2
<1>7. ASSUME NEW c \in Cards, NEW column \in Columns, RunRetryRefused(c, column) PROVE IInv'
  <2>1. StoreInv'
    BY <1>7, StoreUnchanged DEF RunRetryRefused
  <2>2. SchedTypeOK' /\ DispatchTypeOK' /\ HandlerTypeOK' /\ HerdrTypeOK'
    BY <1>7
    DEF RunRetryRefused, SchedTypeOK, DispatchTypeOK, HandlerTypeOK, HerdrTypeOK, activeVars,
        passVars, launchVars, requestVars, paneVars
  <2> QED
    BY <2>1, <2>2
<1> QED
  BY <1>1, <1>2, <1>3, <1>4, <1>5, <1>6, <1>7 DEF RequestNext

-----------------------------------------------------------------------------
(* What the guards at the top of finalize_run_inner give: an open run of a *)
(* card that exists, a target column of the table or none, a resting       *)
(* status.                                                                 *)
LEMMA FinalizeFacts ==
  ASSUME StoreInv, HandlerTypeOK, NEW f \in finalizing, FinalizeClaims(f)
  PROVE  /\ f.run \in RunIds /\ f.outcome \in Outcome /\ runState[f.run] \in Open
         /\ runCard[f.run] \in Cards
         /\ FinalizeTarget(f) \in Columns \cup {NoColumn}
         /\ FinalStatus(f) \in RestStatus
<1>1. f.run \in RunIds /\ f.outcome \in Outcome /\ runState[f.run] \in Open
  BY DEF HandlerTypeOK, FinalizeCall, FinalizeClaims
<1>2. runCard[f.run] \in Cards
  BY <1>1, OpenRunCard
<1>3. FinalizeTarget(f) \in Columns \cup {NoColumn}
  BY DEF FinalizeTarget, TransitionTarget
<1>4. FinalStatus(f) \in RestStatus
  BY StatusSets DEF FinalStatus, TransitionStatus, TransitionEnqueues, RestStatus
<1> QED
  BY <1>1, <1>2, <1>3, <1>4

(* The writes every finalization shares keep the types: the pane it will   *)
(* close is one the active map recorded.                                   *)
LEMMA FinalizeEffectsType ==
  ASSUME IInv, NEW f \in finalizing, FinalizeClaims(f), FinalizeEffects(f)
  PROVE  /\ cardColumn' \in [Cards -> Columns \cup {NoColumn}]
         /\ \A c \in Cards : cardColumn[c] \in Columns => cardColumn'[c] \in Columns
         /\ activeCard' \in [RunIds -> Cards \cup {NoCard}]
         /\ activePane' \in [RunIds -> Panes \cup {NoPane}]
         /\ \A r \in RunIds : activeCard'[r] \in Cards => activePane'[r] \in Panes
         /\ DispatchTypeOK' /\ HandlerTypeOK' /\ HerdrTypeOK'
<1> USE DEF IInv
<1>0. /\ f.run \in RunIds /\ runCard[f.run] \in Cards
      /\ FinalizeTarget(f) \in Columns \cup {NoColumn}
  BY FinalizeFacts
<1>1. /\ cardColumn' \in [Cards -> Columns \cup {NoColumn}]
      /\ \A c \in Cards : cardColumn[c] \in Columns => cardColumn'[c] \in Columns
  BY <1>0 DEF FinalizeEffects, StoreInv, CardTypeOK
<1>2. /\ activeCard' \in [RunIds -> Cards \cup {NoCard}]
      /\ activePane' \in [RunIds -> Panes \cup {NoPane}]
      /\ \A r \in RunIds : activeCard'[r] \in Cards => activePane'[r] \in Panes
  BY <1>0, LifecycleAssumption DEF FinalizeEffects, DropActive, SchedTypeOK
<1>3. killing' \subseteq Panes
  BY <1>0 DEF FinalizeEffects, HandlerTypeOK, SchedTypeOK, Kills, Active
<1>4. HandlerTypeOK'
  BY <1>3 DEF FinalizeEffects, HandlerTypeOK, CreateRequest
<1>5. wake' = TRUE \/ wake' = wake
  BY DEF FinalizeEffects
<1>6. DispatchTypeOK' /\ HerdrTypeOK'
  BY <1>5 DEF FinalizeEffects, DispatchTypeOK, HerdrTypeOK, passVars, launchVars, paneVars
<1> QED
  BY <1>1, <1>2, <1>4, <1>6

(* A hop is a number, and it leads to a column.                            *)
LEMMA NextHopFacts ==
  ASSUME StoreInv, SchedTypeOK, NEW f, runCard[f.run] \in Cards, NEW hop \in NextHop(f)
  PROVE  hop \in Nat /\ FinalizeTarget(f) \in Columns
  BY EngineAssumption DEF NextHop, DecideAutoHop, TransitionEnqueues, SchedTypeOK

(* Closing a run and enqueueing its successor in one transaction keeps the *)
(* store invariant: the card has one open run before and after.            *)
LEMMA FinalizeHopStore ==
  ASSUME StoreInv, NEW f \in FinalizeCall, runState[f.run] \in Open, NEW n \in RunIds,
         NEW column \in Columns, NEW chain \in Nat,
         InsertRow(n, runCard[f.run], column, chain),
         runState' = [runState EXCEPT ![f.run] = f.outcome, ![n] = "queued"],
         cardStatus' = [cardStatus EXCEPT ![runCard[f.run]] = "queued"]
  PROVE  /\ RunTypeOK' /\ OneOpenRunPerCard' /\ StatusMatchesRun'
         /\ cardStatus' \in [Cards -> CardStatus \cup {"absent"}]
         /\ \A c \in Cards : Present(c)' <=> Present(c)
<1>0. /\ f.run \in RunIds /\ f.outcome \in Outcome
      /\ runCard[f.run] \in Cards /\ Present(runCard[f.run])
  BY OpenRunCard DEF FinalizeCall
<1>1. runState[n] = "none"
  BY RunStates DEF StoreInv, RunTypeOK, InsertRow, IsNextRunId, RunIds
<1>2. n # f.run
  BY <1>1, RunStates
<1>3. RunTypeOK'
  BY <1>0, <1>1, <1>2, RunStates DEF StoreInv, RunTypeOK, InsertRow
<1>4. \A q \in RunIds : runState[q] \in Open /\ runCard[q] = runCard[f.run] => q = f.run
  BY <1>0 DEF StoreInv, OneOpenRunPerCard
<1>5. OneOpenRunPerCard'
  BY <1>0, <1>2, <1>4, RunStates DEF StoreInv, RunTypeOK, OneOpenRunPerCard, InsertRow
<1>6. StatusMatchesRun'
  BY <1>0, <1>1, <1>2, <1>4, RunStates, StatusSets
  DEF StoreInv, CardTypeOK, RunTypeOK, StatusMatchesRun, InsertRow
<1>7. /\ cardStatus' \in [Cards -> CardStatus \cup {"absent"}]
      /\ \A c \in Cards : Present(c)' <=> Present(c)
  BY <1>0, StatusSets DEF StoreInv, CardTypeOK, Present
<1> QED
  BY <1>3, <1>5, <1>6, <1>7

(* Every step of a finalization keeps the invariant, the ticker's          *)
(* included.                                                               *)
LEMMA FinalizeNextStep ==
  ASSUME IInv, FinalizeNext
  PROVE  IInv'
<1> USE DEF IInv
<1>1. ASSUME NEW f \in finalizing, FinalizeRest(f) PROVE IInv'
  <2>1. /\ f.run \in RunIds /\ f.outcome \in Outcome /\ runState[f.run] \in Open
        /\ runCard[f.run] \in Cards /\ FinalStatus(f) \in RestStatus
    BY <1>1, FinalizeFacts DEF FinalizeRest
  <2>2. /\ RunTypeOK' /\ OneOpenRunPerCard' /\ StatusMatchesRun'
        /\ cardStatus' \in [Cards -> CardStatus \cup {"absent"}]
        /\ \A c \in Cards : Present(c)' <=> Present(c)
    BY <1>1, <2>1, CloseRunStore DEF FinalizeRest
  <2>3. FinalizeClaims(f) /\ FinalizeEffects(f)
    BY <1>1 DEF FinalizeRest
  <2>4. CardTypeOK'
    BY <2>2, <2>3, FinalizeEffectsType DEF FinalizeEffects, StoreInv, CardTypeOK
  <2>5. chainHops' \in [Cards -> Nat]
    BY <1>1 DEF FinalizeRest, SchedTypeOK
  <2> QED
    BY <2>2, <2>3, <2>4, <2>5, FinalizeEffectsType DEF StoreInv, SchedTypeOK
<1>2. ASSUME NEW f \in finalizing, FinalizeHop(f) PROVE IInv'
  <2>1. FinalizeClaims(f) /\ FinalizeEffects(f)
    BY <1>2 DEF FinalizeHop
  <2>2. /\ f.run \in RunIds /\ f.outcome \in Outcome /\ runState[f.run] \in Open
        /\ runCard[f.run] \in Cards /\ f \in FinalizeCall
    BY <2>1, FinalizeFacts DEF HandlerTypeOK
  <2>3. PICK hop \in NextHop(f), n \in RunIds :
          /\ InsertRow(n, runCard[f.run], FinalizeTarget(f), runChain[f.run] + 1)
          /\ runState' = [runState EXCEPT ![f.run] = f.outcome, ![n] = "queued"]
          /\ chainHops' = [chainHops EXCEPT ![runCard[f.run]] = hop]
    BY <1>2 DEF FinalizeHop
  <2>4. hop \in Nat /\ FinalizeTarget(f) \in Columns /\ runChain[f.run] + 1 \in Nat
    BY <2>2, NextHopFacts DEF StoreInv, RunTypeOK
  <2>5. /\ RunTypeOK' /\ OneOpenRunPerCard' /\ StatusMatchesRun'
        /\ cardStatus' \in [Cards -> CardStatus \cup {"absent"}]
        /\ \A c \in Cards : Present(c)' <=> Present(c)
    BY <1>2, <2>2, <2>3, <2>4, FinalizeHopStore DEF FinalizeHop
  <2>6. CardTypeOK'
    BY <2>5, <2>1, FinalizeEffectsType DEF FinalizeEffects, StoreInv, CardTypeOK
  <2>7. chainHops' \in [Cards -> Nat]
    BY <2>3, <2>4 DEF SchedTypeOK
  <2> QED
    BY <2>1, <2>5, <2>6, <2>7, FinalizeEffectsType DEF StoreInv, SchedTypeOK
<1>3. ASSUME NEW f \in finalizing, FinalizeNothing(f) PROVE IInv'
  <2>1. StoreInv'
    BY <1>3, StoreUnchanged DEF FinalizeNothing
  <2>2. SchedTypeOK' /\ DispatchTypeOK' /\ HandlerTypeOK' /\ HerdrTypeOK'
    BY <1>3
    DEF FinalizeNothing, SchedTypeOK, DispatchTypeOK, HandlerTypeOK, HerdrTypeOK, activeVars,
        passVars, launchVars, paneVars
  <2> QED
    BY <2>1, <2>2
<1>4. ASSUME NEW p \in killing, KillPane(p) PROVE IInv'
  <2>1. StoreInv'
    BY <1>4, StoreUnchanged DEF KillPane
  <2>2. SchedTypeOK' /\ DispatchTypeOK' /\ HandlerTypeOK' /\ HerdrTypeOK'
    BY <1>4
    DEF KillPane, ClosePane, SchedTypeOK, DispatchTypeOK, HandlerTypeOK, HerdrTypeOK, activeVars,
        passVars, launchVars
  <2> QED
    BY <2>1, <2>2
<1>5. ASSUME NEW r \in RunIds, TimeoutClassify(r) PROVE IInv'
  <2>1. finalizing' \subseteq FinalizeCall
    BY <1>5, CallFinalizeType DEF TimeoutClassify, FinalizePlan, Outcome
  <2>2. StoreInv'
    BY <1>5, StoreUnchanged DEF TimeoutClassify
  <2>3. SchedTypeOK' /\ DispatchTypeOK' /\ HandlerTypeOK' /\ HerdrTypeOK'
    BY <1>5, <2>1
    DEF TimeoutClassify, SchedTypeOK, DispatchTypeOK, HandlerTypeOK, HerdrTypeOK, activeVars,
        passVars, launchVars, paneVars
  <2> QED
    BY <2>2, <2>3
<1> QED
  BY <1>1, <1>2, <1>3, <1>4, <1>5 DEF FinalizeNext

-----------------------------------------------------------------------------
(* The dispatch pass counts a finite set.                                  *)
LEMMA StartedRunsCount == Cardinality(StartedRuns) \in Nat
<1>1. IsFiniteSet(RunIds)
  BY FS_Interval, LifecycleAssumption DEF RunIds
<1>2. StartedRuns \subseteq RunIds
  BY DEF StartedRuns
<1> QED
  BY <1>1, <1>2, FS_Subset, FS_CardinalityType

(* Promoting a queued row and its card together (register_spawned_run)     *)
(* keeps the store invariant.                                              *)
LEMMA RegisterStore ==
  ASSUME StoreInv, NEW r \in RunIds, runState[r] = "queued", NEW p \in Panes,
         runState' = [runState EXCEPT ![r] = "started"],
         runPane' = [runPane EXCEPT ![r] = p],
         cardStatus' = [cardStatus EXCEPT ![runCard[r]] = "running"],
         UNCHANGED <<runCard, runColumn, runRow, runChain>>
  PROVE  /\ RunTypeOK' /\ OneOpenRunPerCard' /\ StatusMatchesRun'
         /\ cardStatus' \in [Cards -> CardStatus \cup {"absent"}]
         /\ \A c \in Cards : Present(c)' <=> Present(c)
<1>0. runState[r] \in Open /\ runCard[r] \in Cards /\ Present(runCard[r])
  BY RunStates, OpenRunCard
<1>1. RunTypeOK'
  BY <1>0, RunStates DEF StoreInv, RunTypeOK
<1>2. \A q \in RunIds : runState[q] \in Open /\ runCard[q] = runCard[r] => q = r
  BY <1>0 DEF StoreInv, OneOpenRunPerCard
<1>3. OneOpenRunPerCard'
  BY <1>0, <1>2, RunStates DEF StoreInv, RunTypeOK, OneOpenRunPerCard
<1>4. StatusMatchesRun'
  BY <1>0, <1>2, RunStates, StatusSets DEF StoreInv, CardTypeOK, RunTypeOK, StatusMatchesRun
<1>5. /\ cardStatus' \in [Cards -> CardStatus \cup {"absent"}]
      /\ \A c \in Cards : Present(c)' <=> Present(c)
  BY <1>0, StatusSets DEF StoreInv, CardTypeOK, Present
<1> QED
  BY <1>1, <1>3, <1>4, <1>5

(* Every step of a dispatch pass and of its launches keeps the invariant.  *)
LEMMA DispatchNextStep ==
  ASSUME IInv, DispatchNext
  PROVE  IInv'
<1> USE DEF IInv
<1>1. ASSUME PassBegin PROVE IInv'
  <2>1. StoreInv'
    BY <1>1, StoreUnchanged DEF PassBegin
  <2>2. passBusy' \subseteq Spaces
    BY <1>1, OpenRunCard, RunStates DEF PassBegin, StartedRuns, RunSpace, StoreInv, CardTypeOK
  <2>3. passCount' \in Nat
    BY <1>1, StartedRunsCount DEF PassBegin
  <2>4. DispatchTypeOK'
    BY <1>1, <2>2, <2>3 DEF PassBegin, DispatchTypeOK, launchVars
  <2>5. SchedTypeOK' /\ HandlerTypeOK' /\ HerdrTypeOK'
    BY <1>1
    DEF PassBegin, SchedTypeOK, HandlerTypeOK, HerdrTypeOK, activeVars, requestVars, paneVars
  <2> QED
    BY <2>1, <2>4, <2>5
<1>2. ASSUME PassClaim PROVE IInv'
  <2>1. StoreInv'
    BY <1>2, StoreUnchanged DEF PassClaim
  <2>2. DispatchTypeOK'
    BY <1>2 DEF PassClaim, DispatchTypeOK, StoreInv, RunTypeOK
  <2>3. SchedTypeOK' /\ HandlerTypeOK' /\ HerdrTypeOK'
    BY <1>2
    DEF PassClaim, SchedTypeOK, HandlerTypeOK, HerdrTypeOK, activeVars, requestVars, paneVars
  <2> QED
    BY <2>1, <2>2, <2>3
<1>3. ASSUME NEW r \in RunIds, SpawnFail(r) PROVE IInv'
  <2>1. StoreInv'
    <3>1. CASE runState[r] \in Open
      <4>1. CloseRun(r, "fail", "failed")
        BY <1>3, <3>1 DEF SpawnFail
      <4>2. "fail" \in Outcome /\ "failed" \in RestStatus
        BY StatusSets DEF Outcome
      <4>3. /\ RunTypeOK' /\ OneOpenRunPerCard' /\ StatusMatchesRun'
            /\ cardStatus' \in [Cards -> CardStatus \cup {"absent"}]
            /\ \A c \in Cards : Present(c)' <=> Present(c)
        BY <3>1, <4>1, <4>2, CloseRunStore
      <4> QED
        BY <1>3, <4>3 DEF SpawnFail, StoreInv, CardTypeOK
    <3>2. CASE runState[r] \notin Open
      BY <1>3, <3>2, StoreUnchanged DEF SpawnFail, cardVars, runVars
    <3> QED
      BY <3>1, <3>2
  <2>2. wake' = TRUE \/ wake' = wake
    BY <1>3 DEF SpawnFail
  <2>3. DispatchTypeOK'
    BY <1>3, <2>2 DEF SpawnFail, ClearLaunch, DispatchTypeOK, passVars
  <2>4. SchedTypeOK' /\ HandlerTypeOK' /\ HerdrTypeOK'
    BY <1>3
    DEF SpawnFail, SchedTypeOK, HandlerTypeOK, HerdrTypeOK, activeVars, requestVars, paneVars
  <2> QED
    BY <2>1, <2>3, <2>4
<1>4. ASSUME NEW r \in RunIds, SpawnOk(r) PROVE IInv'
  <2>1. StoreInv'
    BY <1>4, StoreUnchanged DEF SpawnOk
  <2>2. launchPane' \in [RunIds -> Panes \cup {NoPane}]
    BY <1>4 DEF SpawnOk, DispatchTypeOK, ReusablePanes, HerdrTypeOK
  <2>3. DispatchTypeOK'
    BY <1>4, <2>2 DEF SpawnOk, DispatchTypeOK, passVars
  <2>4. HerdrTypeOK'
    BY <1>4 DEF SpawnOk, HerdrTypeOK, paneVars
  <2>5. SchedTypeOK' /\ HandlerTypeOK'
    BY <1>4 DEF SpawnOk, SchedTypeOK, HandlerTypeOK, activeVars, requestVars
  <2> QED
    BY <2>1, <2>3, <2>4, <2>5
<1>5. ASSUME NEW r \in RunIds, Register(r) PROVE IInv'
  <2>0. launchPane[r] \in Panes
    BY <1>5 DEF Register, DispatchTypeOK
  <2>1. StoreInv' /\ SchedTypeOK' /\ HerdrTypeOK'
    <3>1. CASE runState[r] = "queued"
      <4>1. runCard[r] \in Cards
        BY <3>1, OpenRunCard, RunStates
      <4>2. /\ RunTypeOK' /\ OneOpenRunPerCard' /\ StatusMatchesRun'
            /\ cardStatus' \in [Cards -> CardStatus \cup {"absent"}]
            /\ \A c \in Cards : Present(c)' <=> Present(c)
        BY <1>5, <2>0, <3>1, RegisterStore DEF Register, StillQueued
      <4>3. CardTypeOK'
        BY <1>5, <4>2 DEF Register, StoreInv, CardTypeOK
      <4>4. SchedTypeOK'
        BY <1>5, <2>0, <3>1, <4>1 DEF Register, StillQueued, AddActive, SchedTypeOK
      <4>5. HerdrTypeOK'
        BY <1>5, <3>1 DEF Register, StillQueued, HerdrTypeOK
      <4> QED
        BY <4>2, <4>3, <4>4, <4>5 DEF StoreInv
    <3>2. CASE runState[r] # "queued"
      <4>1. UNCHANGED <<cardVars, runVars>>
        BY <1>5, <3>2 DEF Register, StillQueued, cardVars, runVars
      <4>2. SchedTypeOK' /\ HerdrTypeOK'
        BY <1>5, <3>2
        DEF Register, StillQueued, ClosePane, SchedTypeOK, HerdrTypeOK, activeVars
      <4> QED
        BY <4>1, <4>2, StoreUnchanged
    <3> QED
      BY <3>1, <3>2
  <2>2. DispatchTypeOK' /\ HandlerTypeOK'
    BY <1>5 DEF Register, ClearLaunch, DispatchTypeOK, HandlerTypeOK, passVars, requestVars
  <2> QED
    BY <2>1, <2>2
<1>6. ASSUME PassEnd PROVE IInv'
  <2>1. StoreInv'
    BY <1>6, StoreUnchanged DEF PassEnd
  <2>2. SchedTypeOK' /\ DispatchTypeOK' /\ HandlerTypeOK' /\ HerdrTypeOK'
    BY <1>6
    DEF PassEnd, SchedTypeOK, DispatchTypeOK, HandlerTypeOK, HerdrTypeOK, activeVars, passVars,
        launchVars, requestVars, paneVars
  <2> QED
    BY <2>1, <2>2
<1> QED
  BY <1>1, <1>2, <1>3, <1>4, <1>5, <1>6 DEF DispatchNext

(* The engine answers a signal only for a live card, with a live status.   *)
LEMMA SignalStatus ==
  ASSUME NEW status, NEW signal \in AgentSignal, NEW next \in DecideSignal(status, signal)
  PROVE  status \in LiveStatus /\ next \in LiveStatus
  BY DEF DecideSignal, AgentSignal, LiveStatus

(* A live card that changes its live status keeps the store invariant.     *)
LEMMA SignalStore ==
  ASSUME StoreInv, NEW r \in RunIds, runState[r] = "started", NEW status \in LiveStatus,
         cardStatus' = [cardStatus EXCEPT ![runCard[r]] = status], UNCHANGED runVars
  PROVE  /\ RunTypeOK' /\ OneOpenRunPerCard' /\ StatusMatchesRun'
         /\ cardStatus' \in [Cards -> CardStatus \cup {"absent"}]
         /\ \A c \in Cards : Present(c)' <=> Present(c)
<1>0. runState[r] \in Open /\ runCard[r] \in Cards /\ Present(runCard[r])
  BY RunStates, OpenRunCard
<1>1. RunTypeOK' /\ OneOpenRunPerCard'
  BY DEF StoreInv, RunTypeOK, OneOpenRunPerCard, runVars
<1>2. \A q \in RunIds : runState[q] \in Open /\ runCard[q] = runCard[r] => q = r
  BY <1>0 DEF StoreInv, OneOpenRunPerCard
<1>3. StatusMatchesRun'
  BY <1>0, <1>2, RunStates, StatusSets
  DEF StoreInv, CardTypeOK, RunTypeOK, StatusMatchesRun, runVars
<1>4. /\ cardStatus' \in [Cards -> CardStatus \cup {"absent"}]
      /\ \A c \in Cards : Present(c)' <=> Present(c)
  BY <1>0, StatusSets DEF StoreInv, CardTypeOK, Present
<1> QED
  BY <1>1, <1>3, <1>4

(* Every step of the Herdr watchers and of the reconciler keeps the        *)
(* invariant, whatever it read before.                                     *)
LEMMA WatchNextStep ==
  ASSUME IInv, WatchNext
  PROVE  IInv'
<1> USE DEF IInv
<1>1. ASSUME NEW p \in Panes, PaneDies(p) PROVE IInv'
  <2>1. StoreInv'
    BY <1>1, StoreUnchanged DEF PaneDies
  <2>2. SchedTypeOK' /\ DispatchTypeOK' /\ HandlerTypeOK' /\ HerdrTypeOK'
    BY <1>1
    DEF PaneDies, SchedTypeOK, DispatchTypeOK, HandlerTypeOK, HerdrTypeOK, activeVars, passVars,
        launchVars, requestVars, paneVars
  <2> QED
    BY <2>1, <2>2
<1>2. ASSUME NEW p \in Panes, NEW signal \in AgentSignal, Signal(p, signal) PROVE IInv'
  <2>1. PICK r \in Active :
          /\ runState[r] = "started"
          /\ \E status \in DecideSignal(cardStatus[runCard[r]], signal),
                moved \in SUBSET {f \in finalizing : f.run = r /\ f.timeout} :
               /\ cardStatus' = [cardStatus EXCEPT ![runCard[r]] = status]
               /\ finalizing' = finalizing \ moved
    BY <1>2 DEF Signal
  <2>2. PICK status \in DecideSignal(cardStatus[runCard[r]], signal),
             moved \in SUBSET {f \in finalizing : f.run = r /\ f.timeout} :
          /\ cardStatus' = [cardStatus EXCEPT ![runCard[r]] = status]
          /\ finalizing' = finalizing \ moved
    BY <2>1
  <2>3. status \in LiveStatus /\ r \in RunIds
    BY SignalStatus DEF Active
  <2>4. /\ RunTypeOK' /\ OneOpenRunPerCard' /\ StatusMatchesRun'
        /\ cardStatus' \in [Cards -> CardStatus \cup {"absent"}]
        /\ \A c \in Cards : Present(c)' <=> Present(c)
    BY <1>2, <2>1, <2>2, <2>3, SignalStore DEF Signal
  <2>5. StoreInv'
    BY <1>2, <2>4 DEF Signal, StoreInv, CardTypeOK
  <2>6. HandlerTypeOK'
    BY <1>2, <2>2 DEF Signal, HandlerTypeOK, CreateRequest
  <2>7. SchedTypeOK' /\ DispatchTypeOK' /\ HerdrTypeOK'
    BY <1>2
    DEF Signal, SchedTypeOK, DispatchTypeOK, HerdrTypeOK, activeVars, passVars, launchVars,
        paneVars
  <2> QED
    BY <2>5, <2>6, <2>7
<1>3. ASSUME NEW p \in Panes, PaneEvent(p) PROVE IInv'
  <2>1. finalizing' \subseteq FinalizeCall
    BY <1>3, CallFinalizeType DEF PaneEvent, FinalizePlan, Outcome, Active
  <2>2. StoreInv'
    BY <1>3, StoreUnchanged DEF PaneEvent
  <2>3. SchedTypeOK' /\ DispatchTypeOK' /\ HandlerTypeOK' /\ HerdrTypeOK'
    BY <1>3, <2>1
    DEF PaneEvent, SchedTypeOK, DispatchTypeOK, HandlerTypeOK, HerdrTypeOK, activeVars, passVars,
        launchVars, paneVars
  <2> QED
    BY <2>2, <2>3
<1>4. ASSUME NEW r \in RunIds, ProbeRead(r) PROVE IInv'
  <2>1. probing' \subseteq Observation
    BY <1>4, RunStates, OpenRunCard DEF ProbeRead, Observation, HandlerTypeOK, StoreInv, RunTypeOK
  <2>2. StoreInv'
    BY <1>4, StoreUnchanged DEF ProbeRead
  <2>3. SchedTypeOK' /\ DispatchTypeOK' /\ HandlerTypeOK' /\ HerdrTypeOK'
    BY <1>4, <2>1
    DEF ProbeRead, SchedTypeOK, DispatchTypeOK, HandlerTypeOK, HerdrTypeOK, activeVars, passVars,
        launchVars, paneVars
  <2> QED
    BY <2>2, <2>3
<1>5. ASSUME NEW o \in probing, ProbeAnswer(o) PROVE IInv'
  <2>1. probing' \subseteq Observation
    BY <1>5 DEF ProbeAnswer, ProbeStep, HandlerTypeOK, Observation
  <2>2. finalizing' = finalizing
    BY <1>5 DEF ProbeAnswer
  <2>3. SchedTypeOK'
    BY <1>5 DEF ProbeAnswer, ProbeStep, SchedTypeOK, activeVars
  <2>4. StoreInv'
    BY <1>5, StoreUnchanged DEF ProbeAnswer, ProbeStep
  <2>5. DispatchTypeOK' /\ HandlerTypeOK' /\ HerdrTypeOK'
    BY <1>5, <2>1, <2>2
    DEF ProbeAnswer, ProbeStep, DispatchTypeOK, HandlerTypeOK, HerdrTypeOK, CreateRequest,
        passVars, launchVars, paneVars
  <2> QED
    BY <2>3, <2>4, <2>5
<1>6. ASSUME NEW o \in probing, ProbeUnknown(o) PROVE IInv'
  <2>1. probing' \subseteq Observation
    BY <1>6 DEF ProbeUnknown, ProbeStep, HandlerTypeOK, Observation
  <2>2. finalizing' = finalizing
    BY <1>6 DEF ProbeUnknown
  <2>3. SchedTypeOK'
    BY <1>6 DEF ProbeUnknown, ProbeStep, SchedTypeOK, activeVars
  <2>4. StoreInv'
    BY <1>6, StoreUnchanged DEF ProbeUnknown, ProbeStep
  <2>5. DispatchTypeOK' /\ HandlerTypeOK' /\ HerdrTypeOK'
    BY <1>6, <2>1, <2>2
    DEF ProbeUnknown, ProbeStep, DispatchTypeOK, HandlerTypeOK, HerdrTypeOK, CreateRequest,
        passVars, launchVars, paneVars
  <2> QED
    BY <2>3, <2>4, <2>5
<1>7. ASSUME NEW o \in probing, ProbeStale(o) PROVE IInv'
  <2>1. probing' \subseteq Observation
    BY <1>7 DEF ProbeStale, ProbeStep, HandlerTypeOK, Observation
  <2>2. finalizing' = finalizing
    BY <1>7 DEF ProbeStale
  <2>3. SchedTypeOK'
    BY <1>7 DEF ProbeStale, ProbeStep, SchedTypeOK, activeVars
  <2>4. StoreInv'
    BY <1>7, StoreUnchanged DEF ProbeStale, ProbeStep
  <2>5. DispatchTypeOK' /\ HandlerTypeOK' /\ HerdrTypeOK'
    BY <1>7, <2>1, <2>2
    DEF ProbeStale, ProbeStep, DispatchTypeOK, HandlerTypeOK, HerdrTypeOK, CreateRequest,
        passVars, launchVars, paneVars
  <2> QED
    BY <2>3, <2>4, <2>5
<1>8. ASSUME NEW o \in probing, ProbeGone(o) PROVE IInv'
  <2>1. probing' \subseteq Observation
    BY <1>8 DEF ProbeGone, ProbeStep, HandlerTypeOK, Observation
  <2>2. finalizing' \subseteq FinalizeCall
    BY <1>8, CallFinalizeType DEF ProbeGone, FinalizePlan, Outcome, HandlerTypeOK, Observation
  <2>3. SchedTypeOK'
    BY <1>8 DEF ProbeGone, ProbeStep, SchedTypeOK, activeVars
  <2>4. StoreInv'
    BY <1>8, StoreUnchanged DEF ProbeGone, ProbeStep
  <2>5. DispatchTypeOK' /\ HandlerTypeOK' /\ HerdrTypeOK'
    BY <1>8, <2>1, <2>2
    DEF ProbeGone, ProbeStep, DispatchTypeOK, HandlerTypeOK, HerdrTypeOK, CreateRequest,
        passVars, launchVars, paneVars
  <2> QED
    BY <2>3, <2>4, <2>5
<1>9. ASSUME NEW o \in probing, ProbeAlive(o) PROVE IInv'
  <2>1. probing' \subseteq Observation
    BY <1>9 DEF ProbeAlive, ProbeStep, HandlerTypeOK, Observation
  <2>2. finalizing' = finalizing
    BY <1>9 DEF ProbeAlive
  <2>3. SchedTypeOK'
    BY <1>9 DEF ProbeAlive, ProbeStep, SchedTypeOK, activeVars
  <2>4. StoreInv'
    BY <1>9, StoreUnchanged DEF ProbeAlive, ProbeStep
  <2>5. DispatchTypeOK' /\ HandlerTypeOK' /\ HerdrTypeOK'
    BY <1>9, <2>1, <2>2
    DEF ProbeAlive, ProbeStep, DispatchTypeOK, HandlerTypeOK, HerdrTypeOK, CreateRequest,
        passVars, launchVars, paneVars
  <2> QED
    BY <2>3, <2>4, <2>5
<1>10. ASSUME NEW o \in probing, AdoptAlive(o) PROVE IInv'
  <2>1. probing' \subseteq Observation
    BY <1>10 DEF AdoptAlive, ProbeStep, HandlerTypeOK, Observation
  <2>2. finalizing' = finalizing
    BY <1>10 DEF AdoptAlive
  <2>3. SchedTypeOK'
    <3>1. o.run \in RunIds /\ o.card \in Cards /\ o.pane \in Panes /\ chainHops' = chainHops
      BY <1>10 DEF AdoptAlive, ProbeStep, HandlerTypeOK, Observation
    <3>2. CASE o.run \in Active
      BY <1>10, <3>1, <3>2 DEF AdoptAlive, SchedTypeOK, activeVars
    <3>3. CASE o.run \notin Active
      BY <1>10, <3>1, <3>3 DEF AdoptAlive, AddActive, SchedTypeOK
    <3> QED
      BY <3>2, <3>3
  <2>4. StoreInv'
    BY <1>10, StoreUnchanged DEF AdoptAlive, ProbeStep
  <2>5. DispatchTypeOK' /\ HandlerTypeOK' /\ HerdrTypeOK'
    BY <1>10, <2>1, <2>2
    DEF AdoptAlive, ProbeStep, DispatchTypeOK, HandlerTypeOK, HerdrTypeOK, CreateRequest,
        passVars, launchVars, paneVars
  <2> QED
    BY <2>3, <2>4, <2>5
<1> QED
  BY <1>1, <1>2, <1>3, <1>4, <1>5, <1>6, <1>7, <1>8, <1>9, <1>10 DEF WatchNext

(* A restart rebuilds the scheduler from nothing and keeps the store.      *)
LEMMA CrashStep ==
  ASSUME IInv, Crash
  PROVE  IInv'
<1> USE DEF IInv
<1>1. StoreInv'
  BY StoreUnchanged DEF Crash
<1>2. SchedTypeOK'
  BY LifecycleAssumption DEF Crash, SchedTypeOK
<1>3. DispatchTypeOK' /\ HandlerTypeOK' /\ HerdrTypeOK'
  BY DEF Crash, DispatchTypeOK, HandlerTypeOK, HerdrTypeOK, paneVars
<1> QED
  BY <1>1, <1>2, <1>3

(* The daemon starts with the invariant.                                   *)
LEMMA InitIInv ==
  ASSUME Init
  PROVE  IInv
<1>1. PICK n \in 0 .. MaxCards : InitColumn \in [1 .. n -> Columns]
  BY LifecycleAssumption
<1>2. \A c \in Cards : c \in DOMAIN InitColumn => InitColumn[c] \in Columns
  BY <1>1
<1>3. CardTypeOK
  BY <1>2, StatusSets DEF Init, CardTypeOK, Present
<1>4. RunTypeOK
  BY RunStates DEF Init, RunTypeOK
<1>5. OneOpenRunPerCard /\ StatusMatchesRun
  BY RunStates, StatusSets DEF Init, OneOpenRunPerCard, StatusMatchesRun
<1>6. SchedTypeOK
  BY LifecycleAssumption DEF Init, SchedTypeOK
<1>7. DispatchTypeOK /\ HandlerTypeOK /\ HerdrTypeOK
  BY DEF Init, DispatchTypeOK, HandlerTypeOK, HerdrTypeOK
<1> QED
  BY <1>3, <1>4, <1>5, <1>6, <1>7 DEF IInv, StoreInv

(* The inductive step: every step of the specification keeps IInv.         *)
LEMMA NextIInv ==
  ASSUME IInv, [Next]_vars
  PROVE  IInv'
<1>1. CASE Next
  BY <1>1, CardNextStep, RequestNextStep, FinalizeNextStep, DispatchNextStep, WatchNextStep,
     CrashStep DEF Next
<1>2. CASE UNCHANGED vars
  <2>1. StoreInv'
    BY <1>2, StoreUnchanged DEF vars, IInv
  <2>2. SchedTypeOK' /\ HandlerTypeOK' /\ HerdrTypeOK'
    BY <1>2
    DEF IInv, vars, SchedTypeOK, HandlerTypeOK, HerdrTypeOK, activeVars, requestVars, paneVars,
        CreateRequest
  <2>3. DispatchTypeOK'
    BY <1>2 DEF IInv, vars, DispatchTypeOK, passVars, launchVars
  <2> QED
    BY <2>1, <2>2, <2>3 DEF IInv
<1> QED
  BY <1>1, <1>2

(* The invariant holds in every reachable state, for all columns, cards,   *)
(* runs, panes and interleavings of handlers, launches, probes and         *)
(* restarts.                                                               *)
THEOREM IInvAlways == Spec => []IInv
  BY InitIInv, NextIInv, PTL DEF Spec

(* Every variable keeps its type; in particular a started run has a pane,  *)
(* an entry of Sched.active has one too, and a row's card and column       *)
(* exist.                                                                  *)
THEOREM TypeCorrect == Spec => []TypeOK
<1>1. IInv => TypeOK
  BY DEF IInv, StoreInv, TypeOK
<1> QED
  BY <1>1, IInvAlways, PTL

(* A card never has two open runs: no interleaving of card.create,         *)
(* card.move, run.retry, an automatic hop and a restart makes the unique   *)
(* index idx_runs_one_open_per_card refuse a commit of enqueue_run_tx.     *)
THEOREM OneOpenRun == Spec => []OneOpenRunPerCard
<1>1. IInv => OneOpenRunPerCard
  BY DEF IInv, StoreInv
<1> QED
  BY <1>1, IInvAlways, PTL

(* In every committed state a card is queued, live or resting exactly when *)
(* its open run is queued, started or absent: finalize_run,                *)
(* fail_queued_run, register_spawned_run and the signals write card and    *)
(* run together.                                                           *)
THEOREM StatusAgrees == Spec => []StatusMatchesRun
<1>1. IInv => StatusMatchesRun
  BY DEF IInv, StoreInv
<1> QED
  BY <1>1, IInvAlways, PTL

-----------------------------------------------------------------------------
(* The step keeps what has ended, as EndedIsFinal demands.                 *)
EndedKept ==
  \A q \in RunIds : runState[q] \in Ended =>
    runState'[q] = runState[q] \/ cardStatus'[runCard[q]] = "absent"

(* An enqueue takes a row that was absent, so no closed run is rewritten   *)
(* and the only run it opens is its own.                                   *)
LEMMA EnqueueKeeps ==
  ASSUME StoreInv, NEW r \in RunIds, NEW c \in Cards, NEW column, Enqueue(r, c, column)
  PROVE  /\ EndedKept
         /\ \A q \in RunIds : runState'[q] \in Open => q = r \/ runState[q] \in Open
         /\ runCard' = [runCard EXCEPT ![r] = c]
<1>1. runState[r] = "none" /\ runCard' = [runCard EXCEPT ![r] = c]
  BY RunStates DEF StoreInv, RunTypeOK, Enqueue, InsertRow, IsNextRunId, RunIds
<1>2. EndedKept
  BY <1>1, RunStates DEF StoreInv, RunTypeOK, Enqueue, EndedKept, Ended
<1>3. \A q \in RunIds : runState'[q] \in Open => q = r \/ runState[q] \in Open
  BY DEF StoreInv, RunTypeOK, Enqueue
<1> QED
  BY <1>1, <1>2, <1>3

(* A close acts on an open run, so no closed run is rewritten and nothing  *)
(* is opened.                                                              *)
LEMMA CloseKeeps ==
  ASSUME StoreInv, NEW r \in RunIds, runState[r] \in Open, NEW outcome \in Outcome, NEW status,
         CloseRun(r, outcome, status)
  PROVE  /\ EndedKept
         /\ \A q \in RunIds : runState'[q] \in Open => runState[q] \in Open
         /\ runCard' = runCard
<1>1. EndedKept
  BY RunStates DEF StoreInv, RunTypeOK, CloseRun, EndedKept, Ended
<1>2. \A q \in RunIds : runState'[q] \in Open => runState[q] \in Open
  BY RunStates DEF StoreInv, RunTypeOK, CloseRun
<1> QED
  BY <1>1, <1>2 DEF CloseRun

(* A step that opens no run and archives no card keeps archived cards      *)
(* quiet.                                                                  *)
LEMMA QuietKept ==
  ASSUME StoreInv, ArchivedCardQuiet,
         cardArchived' \subseteq cardArchived,
         \A q \in RunIds : runState'[q] \in Open => runState[q] \in Open /\ runCard'[q] = runCard[q]
  PROVE  ArchivedCardQuiet'
  BY DEF ArchivedCardQuiet, OpenRuns

(* A step that opens one run, of a card that is not archived, keeps        *)
(* archived cards quiet.                                                   *)
LEMMA QuietEnqueue ==
  ASSUME StoreInv, ArchivedCardQuiet, NEW r \in RunIds, NEW c \in Cards, c \notin cardArchived,
         cardArchived' = cardArchived,
         \A q \in RunIds : runState'[q] \in Open => q = r \/ runState[q] \in Open,
         runCard' = [runCard EXCEPT ![r] = c]
  PROVE  ArchivedCardQuiet'
  BY DEF StoreInv, RunTypeOK, ArchivedCardQuiet, OpenRuns

(* A step that writes no run row and archives no card keeps both.          *)
LEMMA UnchangedKeeps ==
  ASSUME StoreInv, ArchivedCardQuiet, UNCHANGED runVars, cardArchived' \subseteq cardArchived
  PROVE  EndedKept /\ ArchivedCardQuiet'
  BY QuietKept DEF EndedKept, runVars

(* Requests on cards: a move enqueues only an unfrozen card, an archival   *)
(* is refused while a run is open, a deletion takes the card with its      *)
(* runs.                                                                   *)
LEMMA CardNextKeeps ==
  ASSUME StoreInv, ArchivedCardQuiet, CardNext
  PROVE  EndedKept /\ ArchivedCardQuiet'
<1>1. CASE \E c \in Cards, column \in Columns, space \in Spaces : CardCreate(c, column, space)
  <2>1. PICK c \in Cards, column \in Columns, space \in Spaces : CardCreate(c, column, space)
    BY <1>1
  <2>2. c \notin cardArchived
    BY <2>1 DEF CardCreate, IsNextCardId, Cards, StoreInv, CardTypeOK
  <2>3. CASE EntryEnqueues(column, "idle")
    BY <2>1, <2>2, <2>3, EnqueueKeeps, QuietEnqueue DEF CardCreate
  <2>4. CASE ~ EntryEnqueues(column, "idle")
    BY <2>1, <2>4, UnchangedKeeps DEF CardCreate
  <2> QED
    BY <2>3, <2>4
<1>2. CASE \E c \in Cards, column \in Columns : CardMove(c, column)
  <2>1. PICK c \in Cards, column \in Columns : CardMove(c, column)
    BY <1>2
  <2>2. c \notin cardArchived
    BY <2>1 DEF CardMove, Frozen
  <2>3. CASE EntryEnqueues(column, cardStatus[c])
    BY <2>1, <2>2, <2>3, EnqueueKeeps, QuietEnqueue DEF CardMove
  <2>4. CASE ~ EntryEnqueues(column, cardStatus[c])
    BY <2>1, <2>4, UnchangedKeeps DEF CardMove
  <2> QED
    BY <2>3, <2>4
<1>3. ASSUME NEW c \in Cards, CardDelete(c) PROVE EndedKept /\ ArchivedCardQuiet'
  <2>1. EndedKept
    BY <1>3 DEF CardDelete, StoreInv, CardTypeOK, EndedKept
  <2>2. \A q \in RunIds : runState'[q] \in Open => runState[q] \in Open /\ runCard'[q] = runCard[q]
    BY <1>3, RunStates DEF CardDelete
  <2> QED
    BY <1>3, <2>1, <2>2, QuietKept DEF CardDelete
<1>4. ASSUME NEW c \in Cards, CardArchive(c) PROVE EndedKept /\ ArchivedCardQuiet'
  BY <1>4 DEF CardArchive, EndedKept, ArchivedCardQuiet, OpenRuns, runVars
<1>5. ASSUME NEW column \in Columns, CardCreateCheck(column) PROVE EndedKept /\ ArchivedCardQuiet'
  BY <1>5, UnchangedKeeps DEF CardCreateCheck, cardVars
<1>6. ASSUME NEW q \in creating, CreateRefused(q) PROVE EndedKept /\ ArchivedCardQuiet'
  BY <1>6, UnchangedKeeps DEF CreateRefused, cardVars
<1>7. ASSUME NEW c \in Cards, CardDuplicateCheck(c) PROVE EndedKept /\ ArchivedCardQuiet'
  BY <1>7, UnchangedKeeps DEF CardDuplicateCheck, cardVars
<1>8. ASSUME NEW source \in Cards, NEW c \in Cards, CardDuplicate(source, c)
      PROVE  EndedKept /\ ArchivedCardQuiet'
  BY <1>8, UnchangedKeeps DEF CardDuplicate, cardVars
<1>9. ASSUME NEW c \in Cards, NEW space \in Spaces, CardUpdate(c, space)
      PROVE  EndedKept /\ ArchivedCardQuiet'
  BY <1>9, UnchangedKeeps DEF CardUpdate, cardVars
<1>10. ASSUME NEW c \in Cards, CardRestore(c) PROVE EndedKept /\ ArchivedCardQuiet'
  BY <1>10, UnchangedKeeps DEF CardRestore, cardVars
<1>11. ASSUME NEW b \in Boards, BoardArchive(b) PROVE EndedKept /\ ArchivedCardQuiet'
  BY <1>11, UnchangedKeeps DEF BoardArchive, cardVars
<1>12. ASSUME NEW b \in Boards, BoardRestore(b) PROVE EndedKept /\ ArchivedCardQuiet'
  BY <1>12, UnchangedKeeps DEF BoardRestore, cardVars
<1> QED
  BY <1>1, <1>2, <1>3, <1>4, <1>5, <1>6, <1>7, <1>8, <1>9, <1>10, <1>11, <1>12 DEF CardNext

(* Requests on runs: a queued cancel closes, and a retry looks at the      *)
(* archival again in the transaction that enqueues.                        *)
LEMMA RequestNextKeeps ==
  ASSUME StoreInv, ArchivedCardQuiet, RequestNext
  PROVE  EndedKept /\ ArchivedCardQuiet'
<1>1. ASSUME NEW c \in Cards, RunCancelQueued(c) PROVE EndedKept /\ ArchivedCardQuiet'
  <2>1. PICK r \in OpenRuns(c) : CloseRun(r, "cancelled", "failed")
    BY <1>1 DEF RunCancelQueued
  <2>2. r \in RunIds /\ runState[r] \in Open /\ "cancelled" \in Outcome
    BY DEF OpenRuns, Outcome
  <2> QED
    BY <1>1, <2>1, <2>2, CloseKeeps, QuietKept DEF RunCancelQueued
<1>2. ASSUME NEW c \in Cards, NEW column \in Columns, RunRetryEnqueue(c, column)
      PROVE  EndedKept /\ ArchivedCardQuiet'
  <2>1. PICK r \in RunIds : Enqueue(r, c, column)
    BY <1>2 DEF RunRetryEnqueue
  <2>2. c \notin cardArchived /\ cardArchived' = cardArchived
    BY <1>2 DEF RunRetryEnqueue, RetryAllowed, Frozen
  <2> QED
    BY <2>1, <2>2, EnqueueKeeps, QuietEnqueue
<1>3. ASSUME NEW c \in Cards, NEW supplied, NEW pane, NEW outcome, RunDone(c, supplied, pane, outcome)
      PROVE  EndedKept /\ ArchivedCardQuiet'
  BY <1>3, UnchangedKeeps DEF RunDone, cardVars
<1>4. ASSUME NEW c \in Cards, NEW r \in RunIds, RunPaneExited(c, r)
      PROVE  EndedKept /\ ArchivedCardQuiet'
  BY <1>4, UnchangedKeeps DEF RunPaneExited, cardVars
<1>5. ASSUME NEW c \in Cards, RunCancel(c) PROVE EndedKept /\ ArchivedCardQuiet'
  BY <1>5, UnchangedKeeps DEF RunCancel, cardVars
<1>6. ASSUME NEW c \in Cards, RunRetryCheck(c) PROVE EndedKept /\ ArchivedCardQuiet'
  BY <1>6, UnchangedKeeps DEF RunRetryCheck, cardVars
<1>7. ASSUME NEW c \in Cards, NEW column \in Columns, RunRetryRefused(c, column)
      PROVE  EndedKept /\ ArchivedCardQuiet'
  BY <1>7, UnchangedKeeps DEF RunRetryRefused, cardVars
<1> QED
  BY <1>1, <1>2, <1>3, <1>4, <1>5, <1>6, <1>7 DEF RequestNext

(* Finalizations: only an open run is closed, and an archived card is      *)
(* given no hop.                                                           *)
LEMMA FinalizeNextKeeps ==
  ASSUME StoreInv, HandlerTypeOK, ArchivedCardQuiet, FinalizeNext
  PROVE  EndedKept /\ ArchivedCardQuiet'
<1>1. ASSUME NEW f \in finalizing, FinalizeRest(f) PROVE EndedKept /\ ArchivedCardQuiet'
  BY <1>1, FinalizeFacts, CloseKeeps, QuietKept DEF FinalizeRest, FinalizeEffects
<1>2. ASSUME NEW f \in finalizing, FinalizeHop(f) PROVE EndedKept /\ ArchivedCardQuiet'
  <2>1. /\ f.run \in RunIds /\ f.outcome \in Outcome /\ runState[f.run] \in Open
        /\ runCard[f.run] \in Cards
    BY <1>2, FinalizeFacts DEF FinalizeHop
  <2>2. PICK n \in RunIds :
          /\ InsertRow(n, runCard[f.run], FinalizeTarget(f), runChain[f.run] + 1)
          /\ runState' = [runState EXCEPT ![f.run] = f.outcome, ![n] = "queued"]
    BY <1>2 DEF FinalizeHop
  <2>3. runCard[f.run] \notin cardArchived /\ cardArchived' = cardArchived
    BY <1>2 DEF FinalizeHop, NextHop, Frozen, FinalizeEffects
  <2>4. runState[n] = "none" /\ runCard' = [runCard EXCEPT ![n] = runCard[f.run]]
    BY <2>2, RunStates DEF StoreInv, RunTypeOK, InsertRow, IsNextRunId, RunIds
  <2>5. \A q \in RunIds : runState'[q] \in Open => q = n \/ runState[q] \in Open
    BY <2>1, <2>2, RunStates DEF StoreInv, RunTypeOK
  <2>6. EndedKept
    BY <2>1, <2>2, <2>4, RunStates DEF StoreInv, RunTypeOK, EndedKept, Ended
  <2> QED
    BY <2>1, <2>3, <2>4, <2>5, <2>6, QuietEnqueue
<1>3. ASSUME NEW f \in finalizing, FinalizeNothing(f) PROVE EndedKept /\ ArchivedCardQuiet'
  BY <1>3, UnchangedKeeps DEF FinalizeNothing, cardVars
<1>4. ASSUME NEW p \in killing, KillPane(p) PROVE EndedKept /\ ArchivedCardQuiet'
  BY <1>4, UnchangedKeeps DEF KillPane, cardVars
<1>5. ASSUME NEW r \in RunIds, TimeoutClassify(r) PROVE EndedKept /\ ArchivedCardQuiet'
  BY <1>5, UnchangedKeeps DEF TimeoutClassify, cardVars
<1> QED
  BY <1>1, <1>2, <1>3, <1>4, <1>5 DEF FinalizeNext

(* The dispatcher: a launch that failed closes, and one that succeeded     *)
(* promotes, only what is still open.                                      *)
LEMMA DispatchNextKeeps ==
  ASSUME StoreInv, ArchivedCardQuiet, DispatchNext
  PROVE  EndedKept /\ ArchivedCardQuiet'
<1>1. ASSUME NEW r \in RunIds, SpawnFail(r) PROVE EndedKept /\ ArchivedCardQuiet'
  <2>1. CASE runState[r] \in Open
    <3>1. CloseRun(r, "fail", "failed") /\ "fail" \in Outcome
      BY <1>1, <2>1 DEF SpawnFail, Outcome
    <3> QED
      BY <1>1, <2>1, <3>1, CloseKeeps, QuietKept DEF SpawnFail
  <2>2. CASE runState[r] \notin Open
    BY <1>1, <2>2, UnchangedKeeps DEF SpawnFail
  <2> QED
    BY <2>1, <2>2
<1>2. ASSUME NEW r \in RunIds, Register(r) PROVE EndedKept /\ ArchivedCardQuiet'
  <2>1. CASE runState[r] = "queued"
    <3>1. /\ runState' = [runState EXCEPT ![r] = "started"]
          /\ runCard' = runCard /\ cardArchived' = cardArchived
      BY <1>2, <2>1 DEF Register, StillQueued
    <3>2. \A q \in RunIds : runState'[q] \in Open => runState[q] \in Open
      BY <2>1, <3>1, RunStates DEF StoreInv, RunTypeOK
    <3>3. EndedKept
      BY <2>1, <3>1, RunStates DEF StoreInv, RunTypeOK, EndedKept, Ended
    <3> QED
      BY <3>1, <3>2, <3>3, QuietKept
  <2>2. CASE runState[r] # "queued"
    BY <1>2, <2>2, UnchangedKeeps DEF Register, StillQueued, runVars
  <2> QED
    BY <2>1, <2>2
<1>3. CASE PassBegin \/ PassClaim \/ PassEnd
  BY <1>3, UnchangedKeeps DEF PassBegin, PassClaim, PassEnd, cardVars
<1>4. ASSUME NEW r \in RunIds, SpawnOk(r) PROVE EndedKept /\ ArchivedCardQuiet'
  BY <1>4, UnchangedKeeps DEF SpawnOk, cardVars
<1> QED
  BY <1>1, <1>2, <1>3, <1>4 DEF DispatchNext

(* The watchers and the reconciler write no run row.                       *)
LEMMA WatchNextKeeps ==
  ASSUME StoreInv, ArchivedCardQuiet, WatchNext
  PROVE  EndedKept /\ ArchivedCardQuiet'
<1>1. UNCHANGED <<runVars, cardArchived>>
  BY DEF WatchNext, PaneDies, Signal, PaneEvent, ProbeRead, ProbeStep, ProbeAnswer, ProbeUnknown,
         ProbeStale, ProbeGone, ProbeAlive, AdoptAlive, cardVars
<1> QED
  BY <1>1, UnchangedKeeps

(* Every step of the specification keeps closed runs and quiet archived    *)
(* cards.                                                                  *)
LEMMA NextKeeps ==
  ASSUME IInv, ArchivedCardQuiet, [Next]_vars
  PROVE  EndedKept /\ ArchivedCardQuiet'
<1>1. CASE Crash
  BY <1>1, UnchangedKeeps DEF Crash, IInv, cardVars
<1>2. CASE UNCHANGED vars
  BY <1>2, UnchangedKeeps DEF vars, IInv, cardVars
<1> QED
  BY <1>1, <1>2, CardNextKeeps, RequestNextKeeps, FinalizeNextKeeps, DispatchNextKeeps,
     WatchNextKeeps DEF Next, IInv

(* An archived card has no open run, although retry and the automatic hop  *)
(* check the archival and enqueue in different critical sections.          *)
THEOREM ArchivedCardsQuiet == Spec => []ArchivedCardQuiet
<1>1. Init => ArchivedCardQuiet
  BY DEF Init, ArchivedCardQuiet
<1>2. IInv /\ ArchivedCardQuiet /\ [Next]_vars => ArchivedCardQuiet'
  BY NextKeeps
<1> QED
  BY <1>1, <1>2, IInvAlways, PTL DEF Spec

(* A closed run is never reopened nor given another outcome by a late      *)
(* finalize_run, launch, timeout or probe; its row only goes with its      *)
(* card.                                                                   *)
THEOREM OutcomesFinal == Spec => EndedIsFinal
<1>1. IInv /\ ArchivedCardQuiet /\ [Next]_vars =>
        [\A r \in RunIds : runState[r] \in Ended =>
           runState'[r] = runState[r] \/ cardStatus'[runCard[r]] = "absent"]_vars
  BY NextKeeps DEF EndedKept
<1> QED
  BY <1>1, IInvAlways, ArchivedCardsQuiet, PTL DEF Spec, EndedIsFinal

-----------------------------------------------------------------------------
(* Archived boards.  A create request that has passed its guard and has    *)
(* not inserted yet may put a card with a run on a board that has been     *)
(* archived since; no other request, hop or retry can.                     *)
NoCreateWaits == \A q \in creating : q.source # NoCard

BoardInv == ArchivedBoardQuiet /\ NoCreateWaits

(* A step that opens no run keeps archived boards quiet as long as it      *)
(* moves a card only within its board, or to a board that is not archived. *)
LEMMA BoardQuietKept ==
  ASSUME StoreInv, ArchivedBoardQuiet,
         boardArchived' \subseteq boardArchived,
         \A c \in Cards : Present(c)' /\ CardBoard(c)' \in boardArchived' =>
           OpenRuns(c) = {} \/ (Present(c) /\ CardBoard(c)' = CardBoard(c)),
         \A q \in RunIds : runState'[q] \in Open => runState[q] \in Open /\ runCard'[q] = runCard[q]
  PROVE  ArchivedBoardQuiet'
<1> SUFFICES ASSUME NEW c \in Cards, Present(c)', CardBoard(c)' \in boardArchived',
                    NEW q \in OpenRuns(c)'
             PROVE  FALSE
  BY DEF ArchivedBoardQuiet
<1>1. q \in OpenRuns(c)
  BY DEF OpenRuns
<1>2. Present(c) /\ CardBoard(c) \in boardArchived
  BY <1>1
<1> QED
  BY <1>1, <1>2 DEF ArchivedBoardQuiet

(* A step that opens one run, of a card whose board is then not archived,  *)
(* and moves no other card keeps archived boards quiet.                    *)
LEMMA BoardQuietEnqueue ==
  ASSUME StoreInv, ArchivedBoardQuiet, NEW r \in RunIds, NEW c \in Cards,
         boardArchived' = boardArchived,
         CardBoard(c)' \notin boardArchived,
         \A d \in Cards : d # c => (Present(d)' <=> Present(d)) /\ cardColumn'[d] = cardColumn[d],
         \A q \in RunIds : runState'[q] \in Open => q = r \/ runState[q] \in Open,
         runCard' = [runCard EXCEPT ![r] = c]
  PROVE  ArchivedBoardQuiet'
<1> SUFFICES ASSUME NEW d \in Cards, Present(d)', CardBoard(d)' \in boardArchived',
                    NEW q \in OpenRuns(d)'
             PROVE  FALSE
  BY DEF ArchivedBoardQuiet
<1>1. d # c
  OBVIOUS
<1>2. q \in OpenRuns(d)
  BY <1>1 DEF OpenRuns, StoreInv, RunTypeOK
<1>3. Present(d) /\ CardBoard(d) \in boardArchived
  BY <1>1 DEF CardBoard
<1> QED
  BY <1>2, <1>3 DEF ArchivedBoardQuiet

(* A step that touches neither the cards nor the run rows.                 *)
LEMMA BoardQuietUnchanged ==
  ASSUME StoreInv, ArchivedBoardQuiet, UNCHANGED <<cardVars, runVars>>
  PROVE  ArchivedBoardQuiet'
  BY DEF ArchivedBoardQuiet, CardBoard, Present, OpenRuns, cardVars, runVars

(* Requests on cards and boards, when cards are not created.               *)
LEMMA CardNextBoard ==
  ASSUME IInv, BoardInv, "create" \notin Ops, CardNext
  PROVE  BoardInv'
<1> USE DEF IInv, BoardInv
<1>1. ASSUME NEW c \in Cards, NEW column \in Columns, NEW space \in Spaces,
             CardCreate(c, column, space)
      PROVE  FALSE
  BY <1>1 DEF CardCreate, NoCreateWaits
<1>2. ASSUME NEW column \in Columns, CardCreateCheck(column) PROVE FALSE
  BY <1>2 DEF CardCreateCheck
<1>3. ASSUME NEW c \in Cards, NEW column \in Columns, CardMove(c, column) PROVE BoardInv'
  <2>1. /\ cardColumn' = [cardColumn EXCEPT ![c] = column] /\ boardArchived' = boardArchived
        /\ creating' = creating /\ BoardOf[column] \notin boardArchived /\ Present(c)
        /\ cardColumn \in [Cards -> Columns \cup {NoColumn}]
    BY <1>3 DEF CardMove, requestVars, StoreInv, CardTypeOK
  <2>2. CardBoard(c)' \notin boardArchived
    BY <2>1 DEF CardBoard
  <2>3. CASE EntryEnqueues(column, cardStatus[c])
    <3>1. PICK r \in RunIds : Enqueue(r, c, column)
      BY <1>3, <2>3 DEF CardMove
    <3>2. \A d \in Cards : d # c => (Present(d)' <=> Present(d)) /\ cardColumn'[d] = cardColumn[d]
      BY <2>1, <3>1 DEF Enqueue, Present, StoreInv, CardTypeOK
    <3> QED
      BY <2>1, <2>2, <3>1, <3>2, EnqueueKeeps, BoardQuietEnqueue DEF NoCreateWaits
  <2>4. CASE ~ EntryEnqueues(column, cardStatus[c])
    <3>1. UNCHANGED <<cardStatus, runState, runCard>>
      BY <1>3, <2>4 DEF CardMove, runVars
    <3>2. \A d \in Cards : Present(d)' /\ CardBoard(d)' \in boardArchived' =>
            Present(d) /\ CardBoard(d)' = CardBoard(d)
      BY <2>1, <2>2, <3>1 DEF Present, CardBoard
    <3> QED
      BY <2>1, <3>1, <3>2, BoardQuietKept DEF NoCreateWaits
  <2> QED
    BY <2>3, <2>4
<1>4. ASSUME NEW c \in Cards, CardDelete(c) PROVE BoardInv'
  <2>1. \A q \in RunIds : runState'[q] \in Open => runState[q] \in Open /\ runCard'[q] = runCard[q]
    BY <1>4, RunStates DEF CardDelete
  <2>2. \A d \in Cards : Present(d)' => Present(d) /\ CardBoard(d)' = CardBoard(d)
    BY <1>4, StatusSets DEF CardDelete, Present, CardBoard, StoreInv, CardTypeOK
  <2> QED
    BY <1>4, <2>1, <2>2, BoardQuietKept DEF CardDelete, requestVars, NoCreateWaits
<1>5. ASSUME NEW b \in Boards, BoardArchive(b) PROVE BoardInv'
  BY <1>5 DEF BoardArchive, ArchivedBoardQuiet, CardBoard, Present, OpenRuns, NoCreateWaits,
              requestVars, runVars
<1>6. ASSUME NEW b \in Boards, BoardRestore(b) PROVE BoardInv'
  BY <1>6 DEF BoardRestore, ArchivedBoardQuiet, CardBoard, Present, OpenRuns, NoCreateWaits,
              requestVars, runVars
<1>7. ASSUME NEW source \in Cards, NEW c \in Cards, CardDuplicate(source, c) PROVE BoardInv'
  <2>1. OpenRuns(c) = {}
    BY <1>7, OpenRunCard DEF CardDuplicate, IsNextCardId, Cards, OpenRuns
  <2>2. /\ cardStatus' = [cardStatus EXCEPT ![c] = "idle"]
        /\ cardColumn' = [cardColumn EXCEPT ![c] = cardColumn[source]]
        /\ UNCHANGED <<boardArchived, runState, runCard>> /\ creating' \subseteq creating
    BY <1>7 DEF CardDuplicate, runVars
  <2>3. \A d \in Cards : d # c => (Present(d)' <=> Present(d)) /\ CardBoard(d)' = CardBoard(d)
    BY <2>2 DEF Present, CardBoard, StoreInv, CardTypeOK
  <2>4. \A d \in Cards : Present(d)' =>
          OpenRuns(d) = {} \/ (Present(d) /\ CardBoard(d)' = CardBoard(d))
    BY <2>1, <2>3
  <2>5. ArchivedBoardQuiet'
    BY <2>2, <2>4, BoardQuietKept
  <2> QED
    BY <2>2, <2>5 DEF NoCreateWaits
<1>8. ASSUME NEW c \in Cards, CardDuplicateCheck(c) PROVE BoardInv'
  <2>1. creating' = creating \cup {[column |-> NoColumn, source |-> c]} /\ c # NoCard
    BY <1>8, LifecycleAssumption DEF CardDuplicateCheck
  <2> QED
    BY <1>8, <2>1, BoardQuietUnchanged DEF CardDuplicateCheck, NoCreateWaits
<1>9. ASSUME NEW q \in creating, CreateRefused(q) PROVE BoardInv'
  BY <1>9, BoardQuietUnchanged DEF CreateRefused, NoCreateWaits
<1>10. ASSUME NEW c \in Cards, NEW space \in Spaces, CardUpdate(c, space) PROVE BoardInv'
  BY <1>10 DEF CardUpdate, ArchivedBoardQuiet, CardBoard, Present, OpenRuns, NoCreateWaits,
               requestVars, runVars
<1>11. ASSUME NEW c \in Cards, CardArchive(c) PROVE BoardInv'
  BY <1>11 DEF CardArchive, ArchivedBoardQuiet, CardBoard, Present, OpenRuns, NoCreateWaits,
               requestVars, runVars
<1>12. ASSUME NEW c \in Cards, CardRestore(c) PROVE BoardInv'
  BY <1>12 DEF CardRestore, ArchivedBoardQuiet, CardBoard, Present, OpenRuns, NoCreateWaits,
               requestVars, runVars
<1> QED
  BY <1>1, <1>2, <1>3, <1>4, <1>5, <1>6, <1>7, <1>8, <1>9, <1>10, <1>11, <1>12 DEF CardNext

(* Requests on runs: a retry looks at the board again when it enqueues.    *)
LEMMA RequestNextBoard ==
  ASSUME IInv, BoardInv, RequestNext
  PROVE  BoardInv'
<1> USE DEF IInv, BoardInv
<1>1. ASSUME NEW c \in Cards, RunCancelQueued(c) PROVE BoardInv'
  <2>1. PICK r \in OpenRuns(c) : CloseRun(r, "cancelled", "failed")
    BY <1>1 DEF RunCancelQueued
  <2>2. r \in RunIds /\ runState[r] \in Open /\ "cancelled" \in Outcome /\ runCard[r] \in Cards
        /\ Present(runCard[r])
    BY OpenRunCard DEF OpenRuns, Outcome
  <2>3. /\ \A q \in RunIds : runState'[q] \in Open => runState[q] \in Open
        /\ runCard' = runCard
    BY <2>1, <2>2, CloseKeeps
  <2>4. /\ UNCHANGED <<boardArchived, cardColumn, creating>>
        /\ cardStatus' = [cardStatus EXCEPT ![runCard[r]] = "failed"]
    BY <1>1, <2>1 DEF RunCancelQueued, CloseRun, requestVars
  <2>5. \A d \in Cards : Present(d)' => Present(d) /\ CardBoard(d)' = CardBoard(d)
    BY <2>2, <2>4 DEF Present, CardBoard, StoreInv, CardTypeOK
  <2> QED
    BY <2>3, <2>4, <2>5, BoardQuietKept DEF NoCreateWaits
<1>2. ASSUME NEW c \in Cards, NEW column \in Columns, RunRetryEnqueue(c, column)
      PROVE  BoardInv'
  <2>1. PICK r \in RunIds : Enqueue(r, c, column)
    BY <1>2 DEF RunRetryEnqueue
  <2>2. /\ UNCHANGED <<cardColumn, boardArchived, creating>>
        /\ CardBoard(c) \notin boardArchived
    BY <1>2 DEF RunRetryEnqueue, RetryAllowed, Frozen
  <2>3. CardBoard(c)' \notin boardArchived
    BY <2>2 DEF CardBoard
  <2>4. \A d \in Cards : d # c => (Present(d)' <=> Present(d)) /\ cardColumn'[d] = cardColumn[d]
    BY <2>1, <2>2 DEF Enqueue, Present, StoreInv, CardTypeOK
  <2> QED
    BY <2>1, <2>2, <2>3, <2>4, EnqueueKeeps, BoardQuietEnqueue DEF NoCreateWaits
<1>3. ASSUME NEW c \in Cards, NEW supplied, NEW pane, NEW outcome, RunDone(c, supplied, pane, outcome)
      PROVE  BoardInv'
  BY <1>3, BoardQuietUnchanged DEF RunDone, NoCreateWaits
<1>4. ASSUME NEW c \in Cards, NEW r \in RunIds, RunPaneExited(c, r) PROVE BoardInv'
  BY <1>4, BoardQuietUnchanged DEF RunPaneExited, NoCreateWaits
<1>5. ASSUME NEW c \in Cards, RunCancel(c) PROVE BoardInv'
  BY <1>5, BoardQuietUnchanged DEF RunCancel, NoCreateWaits
<1>6. ASSUME NEW c \in Cards, RunRetryCheck(c) PROVE BoardInv'
  BY <1>6, BoardQuietUnchanged DEF RunRetryCheck, NoCreateWaits
<1>7. ASSUME NEW c \in Cards, NEW column \in Columns, RunRetryRefused(c, column) PROVE BoardInv'
  BY <1>7, BoardQuietUnchanged DEF RunRetryRefused, NoCreateWaits
<1> QED
  BY <1>1, <1>2, <1>3, <1>4, <1>5, <1>6, <1>7 DEF RequestNext

(* A transition stays on the board the card is on.                         *)
LEMMA TransitionOnBoard ==
  ASSUME StoreInv, NEW f, runCard[f.run] \in Cards, FinalizeEffects(f), NEW d \in Cards
  PROVE  CardBoard(d)' = CardBoard(d)
  BY DEF FinalizeEffects, FinalizeTarget, TransitionTarget, CardBoard, StoreInv, CardTypeOK

(* Finalizations: no hop on an archived board.                             *)
LEMMA FinalizeNextBoard ==
  ASSUME IInv, BoardInv, FinalizeNext
  PROVE  BoardInv'
<1> USE DEF IInv, BoardInv
<1>1. ASSUME NEW f \in finalizing, FinalizeRest(f) PROVE BoardInv'
  <2>1. /\ f.run \in RunIds /\ f.outcome \in Outcome /\ runState[f.run] \in Open
        /\ runCard[f.run] \in Cards /\ Present(runCard[f.run])
    BY <1>1, FinalizeFacts, OpenRunCard DEF FinalizeRest
  <2>2. /\ CloseRun(f.run, f.outcome, FinalStatus(f)) /\ FinalizeEffects(f)
        /\ UNCHANGED <<boardArchived, creating>>
    BY <1>1 DEF FinalizeRest, FinalizeEffects
  <2>3. /\ \A q \in RunIds : runState'[q] \in Open => runState[q] \in Open
        /\ runCard' = runCard
    BY <2>1, <2>2, CloseKeeps
  <2>4. \A d \in Cards : CardBoard(d)' = CardBoard(d)
    BY <2>1, <2>2, TransitionOnBoard
  <2>5. \A d \in Cards : Present(d)' => Present(d)
    BY <2>1, <2>2 DEF CloseRun, Present, StoreInv, CardTypeOK
  <2> QED
    BY <2>2, <2>3, <2>4, <2>5, BoardQuietKept DEF NoCreateWaits
<1>2. ASSUME NEW f \in finalizing, FinalizeHop(f) PROVE BoardInv'
  <2>1. /\ f.run \in RunIds /\ f.outcome \in Outcome /\ runState[f.run] \in Open
        /\ runCard[f.run] \in Cards
    BY <1>2, FinalizeFacts DEF FinalizeHop
  <2>2. PICK c \in Cards : c = runCard[f.run]
    BY <2>1
  <2>3. PICK n \in RunIds :
          /\ InsertRow(n, c, FinalizeTarget(f), runChain[f.run] + 1)
          /\ runState' = [runState EXCEPT ![f.run] = f.outcome, ![n] = "queued"]
    BY <1>2, <2>2 DEF FinalizeHop
  <2>4. /\ CardBoard(c) \notin boardArchived /\ FinalizeEffects(f)
        /\ cardStatus' = [cardStatus EXCEPT ![c] = "queued"]
        /\ UNCHANGED <<boardArchived, creating>>
    BY <1>2, <2>2 DEF FinalizeHop, NextHop, Frozen, FinalizeEffects
  <2>5. runCard' = [runCard EXCEPT ![n] = c]
    BY <2>3 DEF InsertRow
  <2>6. \A q \in RunIds : runState'[q] \in Open => q = n \/ runState[q] \in Open
    BY <2>1, <2>3, RunStates DEF StoreInv, RunTypeOK
  <2>7. CardBoard(c)' \notin boardArchived
    BY <2>1, <2>4, TransitionOnBoard
  <2>8. \A d \in Cards : d # c => (Present(d)' <=> Present(d)) /\ cardColumn'[d] = cardColumn[d]
    BY <2>2, <2>4 DEF FinalizeEffects, Present, StoreInv, CardTypeOK
  <2>9. ArchivedBoardQuiet'
    BY <2>4, <2>5, <2>6, <2>7, <2>8, BoardQuietEnqueue
  <2> QED
    BY <2>4, <2>9 DEF NoCreateWaits
<1>3. ASSUME NEW f \in finalizing, FinalizeNothing(f) PROVE BoardInv'
  BY <1>3, BoardQuietUnchanged DEF FinalizeNothing, NoCreateWaits
<1>4. ASSUME NEW p \in killing, KillPane(p) PROVE BoardInv'
  BY <1>4, BoardQuietUnchanged DEF KillPane, NoCreateWaits
<1>5. ASSUME NEW r \in RunIds, TimeoutClassify(r) PROVE BoardInv'
  BY <1>5, BoardQuietUnchanged DEF TimeoutClassify, NoCreateWaits
<1> QED
  BY <1>1, <1>2, <1>3, <1>4, <1>5 DEF FinalizeNext

(* The dispatcher moves no card and opens no run.                          *)
LEMMA DispatchNextBoard ==
  ASSUME IInv, BoardInv, DispatchNext
  PROVE  BoardInv'
<1> USE DEF IInv, BoardInv
<1>1. ASSUME NEW r \in RunIds, SpawnFail(r) PROVE BoardInv'
  <2>1. CASE runState[r] \in Open
    <3>1. /\ CloseRun(r, "fail", "failed") /\ "fail" \in Outcome
          /\ UNCHANGED <<boardArchived, cardColumn, creating>>
      BY <1>1, <2>1 DEF SpawnFail, Outcome, requestVars
    <3>2. /\ \A q \in RunIds : runState'[q] \in Open => runState[q] \in Open
          /\ runCard' = runCard
      BY <2>1, <3>1, CloseKeeps
    <3>3. runCard[r] \in Cards /\ Present(runCard[r])
      BY <2>1, OpenRunCard
    <3>4. \A d \in Cards : Present(d)' => Present(d) /\ CardBoard(d)' = CardBoard(d)
      BY <3>1, <3>3 DEF CloseRun, Present, CardBoard, StoreInv, CardTypeOK
    <3> QED
      BY <3>1, <3>2, <3>4, BoardQuietKept DEF NoCreateWaits
  <2>2. CASE runState[r] \notin Open
    BY <1>1, <2>2, BoardQuietUnchanged DEF SpawnFail, NoCreateWaits, requestVars, cardVars
  <2> QED
    BY <2>1, <2>2
<1>2. ASSUME NEW r \in RunIds, Register(r) PROVE BoardInv'
  <2>1. CASE runState[r] = "queued"
    <3>1. /\ runState' = [runState EXCEPT ![r] = "started"]
          /\ cardStatus' = [cardStatus EXCEPT ![runCard[r]] = "running"]
          /\ UNCHANGED <<runCard, cardColumn, boardArchived, creating>>
      BY <1>2, <2>1 DEF Register, StillQueued, requestVars
    <3>2. \A q \in RunIds : runState'[q] \in Open => runState[q] \in Open
      BY <2>1, <3>1, RunStates DEF StoreInv, RunTypeOK
    <3>3. runCard[r] \in Cards /\ Present(runCard[r])
      BY <2>1, OpenRunCard, RunStates
    <3>4. \A d \in Cards : Present(d)' => Present(d) /\ CardBoard(d)' = CardBoard(d)
      BY <3>1, <3>3 DEF Present, CardBoard, StoreInv, CardTypeOK
    <3> QED
      BY <3>1, <3>2, <3>4, BoardQuietKept DEF NoCreateWaits
  <2>2. CASE runState[r] # "queued"
    BY <1>2, <2>2, BoardQuietUnchanged
    DEF Register, StillQueued, NoCreateWaits, requestVars, cardVars, runVars
  <2> QED
    BY <2>1, <2>2
<1>3. CASE PassBegin \/ PassClaim \/ PassEnd
  BY <1>3, BoardQuietUnchanged DEF PassBegin, PassClaim, PassEnd, NoCreateWaits, requestVars
<1>4. ASSUME NEW r \in RunIds, SpawnOk(r) PROVE BoardInv'
  BY <1>4, BoardQuietUnchanged DEF SpawnOk, NoCreateWaits, requestVars
<1> QED
  BY <1>1, <1>2, <1>3, <1>4 DEF DispatchNext

(* The watchers: a signal writes the status of a card with a started run,  *)
(* and the others write nothing of the store.                              *)
LEMMA WatchNextBoard ==
  ASSUME IInv, BoardInv, WatchNext
  PROVE  BoardInv'
<1> USE DEF IInv, BoardInv
<1>1. ASSUME NEW p \in Panes, NEW signal \in AgentSignal, Signal(p, signal) PROVE BoardInv'
  <2>1. PICK r \in Active :
          /\ runState[r] = "started"
          /\ \E status : cardStatus' = [cardStatus EXCEPT ![runCard[r]] = status]
    BY <1>1 DEF Signal
  <2>2. r \in RunIds /\ runCard[r] \in Cards /\ Present(runCard[r])
    BY <2>1, OpenRunCard, RunStates DEF Active
  <2>3. UNCHANGED <<cardColumn, boardArchived, runVars, creating>>
    BY <1>1 DEF Signal
  <2>4. \A d \in Cards : Present(d)' => Present(d) /\ CardBoard(d)' = CardBoard(d)
    BY <2>1, <2>2, <2>3 DEF Present, CardBoard, StoreInv, CardTypeOK
  <2> QED
    BY <2>3, <2>4, BoardQuietKept DEF NoCreateWaits, runVars
<1>2. ASSUME WatchNext, \A p \in Panes, signal \in AgentSignal : ~ Signal(p, signal)
      PROVE  UNCHANGED <<cardVars, runVars, creating>>
  BY <1>2 DEF WatchNext, PaneDies, PaneEvent, ProbeRead, ProbeStep, ProbeAnswer, ProbeUnknown,
         ProbeStale, ProbeGone, ProbeAlive, AdoptAlive, requestVars
<1> QED
  BY <1>1, <1>2, BoardQuietUnchanged DEF NoCreateWaits

(* While no card is created, a board that is archived has no card with an  *)
(* open run: the guard of board.archive, the freeze of the cards on an     *)
(* archived board and the checks in the enqueueing transactions close      *)
(* every other way in.                                                     *)
THEOREM ArchivedBoardsQuiet ==
  ASSUME "create" \notin Ops
  PROVE  Spec => []ArchivedBoardQuiet
<1>1. Init => BoardInv
  BY DEF Init, BoardInv, ArchivedBoardQuiet, NoCreateWaits
<1>2. IInv /\ BoardInv /\ [Next]_vars => BoardInv'
  <2>1. CASE Crash
    BY <2>1, BoardQuietUnchanged DEF Crash, IInv, BoardInv, NoCreateWaits
  <2>2. CASE UNCHANGED vars
    BY <2>2, BoardQuietUnchanged DEF vars, requestVars, IInv, BoardInv, NoCreateWaits
  <2> QED
    BY <2>1, <2>2, CardNextBoard, RequestNextBoard, FinalizeNextBoard, DispatchNextBoard,
       WatchNextBoard DEF Next
<1>3. BoardInv => ArchivedBoardQuiet
  BY DEF BoardInv
<1> QED
  BY <1>1, <1>2, <1>3, IInvAlways, PTL DEF Spec

-----------------------------------------------------------------------------
(* Timeouts.  Every timeout in flight was called with the plan of          *)
(* TimeoutClassify.                                                        *)
TimeoutPlans ==
  \A f \in finalizing : f.timeout => f.outcome = "fail" /\ f.kill /\ f.transition

LEMMA NextTimeoutPlans ==
  ASSUME IInv, TimeoutPlans, [Next]_vars
  PROVE  TimeoutPlans'
<1>1. CASE CardNext
  <2>1. finalizing' = finalizing
    BY <1>1 DEF CardNext, CardCreateCheck, CardCreate, CreateRefused, CardDuplicateCheck,
                CardDuplicate, CardUpdate, CardDelete, CardArchive, CardRestore, BoardArchive,
                BoardRestore, CardMove, requestVars
  <2> QED
    BY <2>1 DEF TimeoutPlans
<1>2. ASSUME NEW r, NEW plan, CallFinalize(r, plan, FALSE) PROVE TimeoutPlans'
  BY <1>2 DEF CallFinalize, TimeoutPlans
<1>3. CASE RequestNext
  <2>1. ASSUME NEW c \in Cards, NEW supplied, NEW pane, NEW outcome, RunDone(c, supplied, pane, outcome)
        PROVE  TimeoutPlans'
    <3>1. \E r, plan : CallFinalize(r, plan, FALSE)
      BY <2>1 DEF RunDone
    <3> QED
      BY <1>2, <3>1
  <2>2. ASSUME NEW c \in Cards, NEW r \in RunIds, RunPaneExited(c, r) PROVE TimeoutPlans'
    BY <1>2, <2>2 DEF RunPaneExited
  <2>3. ASSUME NEW c \in Cards, RunCancel(c) PROVE TimeoutPlans'
    BY <1>2, <2>3 DEF RunCancel
  <2>4. ASSUME UNCHANGED finalizing PROVE TimeoutPlans'
    BY <2>4 DEF TimeoutPlans
  <2> QED
    BY <1>3, <2>1, <2>2, <2>3, <2>4
    DEF RequestNext, RunCancelQueued, RunRetryCheck, RunRetryEnqueue, RunRetryRefused, requestVars
<1>4. CASE FinalizeNext
  <2>1. ASSUME NEW r \in RunIds, TimeoutClassify(r) PROVE TimeoutPlans'
    BY <2>1 DEF TimeoutClassify, CallFinalize, TimeoutPlans
  <2>2. ASSUME FinalizeNext, \A r \in RunIds : ~ TimeoutClassify(r)
        PROVE  finalizing' \subseteq finalizing
    BY <2>2 DEF FinalizeNext, FinalizeRest, FinalizeHop, FinalizeNothing, KillPane,
                FinalizeEffects
  <2> QED
    BY <1>4, <2>1, <2>2 DEF TimeoutPlans
<1>5. CASE DispatchNext
  <2>1. finalizing' = finalizing
    BY <1>5 DEF DispatchNext, PassBegin, PassClaim, SpawnFail, SpawnOk, Register, PassEnd,
                requestVars
  <2> QED
    BY <2>1 DEF TimeoutPlans
<1>6. ASSUME WatchNext, NEW f \in finalizing' PROVE f \in finalizing \/ ~ f.timeout
  BY <1>6 DEF WatchNext, PaneDies, Signal, PaneEvent, ProbeRead, ProbeStep, ProbeAnswer,
              ProbeUnknown, ProbeStale, ProbeGone, ProbeAlive, AdoptAlive, CallFinalize,
              requestVars
<1>7. CASE Crash \/ UNCHANGED vars
  BY <1>7 DEF Crash, vars, requestVars, TimeoutPlans
<1> QED
  BY <1>1, <1>3, <1>4, <1>5, <1>6, <1>7 DEF Next, TimeoutPlans

(* A step that takes a call out of finalizing and closes its run is the    *)
(* critical section of that call.                                          *)
LEMMA ClosedByItsCall ==
  ASSUME IInv, [Next]_vars, NEW f \in finalizing, f \notin finalizing',
         runState[f.run] \in Open, runState'[f.run] \in Ended
  PROVE  FinalizeClaims(f)
<1>1. f.run \in RunIds
  BY DEF IInv, HandlerTypeOK, FinalizeCall
<1>2. finalizing' # finalizing /\ runState' # runState
  BY RunStates DEF Ended
<1>3. CASE CardNext
  BY <1>2, <1>3 DEF CardNext, CardCreateCheck, CardCreate, CreateRefused, CardDuplicateCheck,
              CardDuplicate, CardUpdate, CardDelete, CardArchive, CardRestore, BoardArchive,
              BoardRestore, CardMove, requestVars
<1>4. CASE RequestNext
  BY <1>2, <1>4 DEF RequestNext, RunDone, RunPaneExited, RunCancel, RunCancelQueued, RunRetryCheck,
              RunRetryEnqueue, RunRetryRefused, CallFinalize, requestVars, runVars
<1>5. ASSUME NEW g \in finalizing, FinalizeRest(g) \/ FinalizeHop(g) PROVE FinalizeClaims(f)
  BY <1>5 DEF FinalizeRest, FinalizeHop, FinalizeEffects
<1>6. ASSUME NEW g \in finalizing, FinalizeNothing(g) PROVE FALSE
  BY <1>2, <1>6 DEF FinalizeNothing, runVars
<1>7. ASSUME NEW p \in killing, KillPane(p) PROVE FALSE
  BY <1>2, <1>7 DEF KillPane
<1>8. ASSUME NEW r \in RunIds, TimeoutClassify(r) PROVE FALSE
  BY <1>2, <1>8 DEF TimeoutClassify, runVars
<1>9. CASE DispatchNext
  BY <1>2, <1>9 DEF DispatchNext, PassBegin, PassClaim, SpawnFail, SpawnOk, Register, PassEnd,
              requestVars
<1>10. CASE WatchNext
  BY <1>2, <1>10 DEF WatchNext, PaneDies, Signal, PaneEvent, ProbeRead, ProbeStep, ProbeAnswer,
              ProbeUnknown, ProbeStale, ProbeGone, ProbeAlive, AdoptAlive, requestVars, runVars
<1>11. CASE Crash \/ UNCHANGED vars
  BY <1>2, <1>11 DEF Crash, vars, runVars
<1> QED
  BY <1>3, <1>4, <1>5, <1>6, <1>7, <1>8, <1>9, <1>10, <1>11 DEF Next, FinalizeNext

(* finalize_run_timeout closes a run only where decide_lifecycle's timeout *)
(* rule would, with its plan, although the ticker classified the run in an *)
(* earlier critical section and the rule is coded twice.                   *)
THEOREM TimeoutsAgree == Spec => TimeoutAgreesWithEngine
<1>1. Init => TimeoutPlans
  BY DEF Init, TimeoutPlans
<1>2. IInv /\ TimeoutPlans /\ [Next]_vars => TimeoutPlans'
  BY NextTimeoutPlans
<1>3. IInv /\ TimeoutPlans /\ [Next]_vars =>
        [\A f \in finalizing :
           f.timeout /\ runState[f.run] \in Open /\ runState'[f.run] \in Ended /\ f \notin finalizing'
             => [outcome |-> f.outcome, kill |-> f.kill, transition |-> f.transition]
                  \in DecideLifecycle(LifecycleFacts(f.run, {}), [kind |-> "timeout"])]_vars
  <2> SUFFICES ASSUME IInv, TimeoutPlans, [Next]_vars, NEW f \in finalizing, f.timeout,
                      runState[f.run] \in Open, runState'[f.run] \in Ended, f \notin finalizing'
               PROVE  [outcome |-> f.outcome, kill |-> f.kill, transition |-> f.transition]
                        \in DecideLifecycle(LifecycleFacts(f.run, {}), [kind |-> "timeout"])
    OBVIOUS
  <2>1. runState[f.run] = "started" /\ cardStatus[runCard[f.run]] # "awaiting"
    BY ClosedByItsCall DEF FinalizeClaims
  <2>2. /\ f.outcome = "fail" /\ f.kill = TRUE /\ f.transition = TRUE
        /\ f.run \in RunIds
    BY DEF TimeoutPlans, IInv, HandlerTypeOK, FinalizeCall
  <2>3. [outcome |-> f.outcome, kill |-> f.kill, transition |-> f.transition] \in FinalizePlan
    BY <2>2 DEF FinalizePlan, Outcome
  <2> QED
    BY <2>1, <2>2, <2>3 DEF DecideLifecycle, LifecycleFacts
<1> QED
  BY <1>1, <1>2, <1>3, IInvAlways, PTL DEF Spec, TimeoutAgreesWithEngine

-----------------------------------------------------------------------------
(* Launches and rows.  While no card is deleted a row stays, so a launch   *)
(* in flight still stands for the row it was claimed from.                 *)
ClaimInv ==
  \A r \in RunIds : launchCard[r] # NoCard => runState[r] # "none" /\ launchRow[r] = runRow[r]

(* A step keeps the rows that exist.                                       *)
RowsKept ==
  \A r \in RunIds : runState[r] # "none" => runState'[r] # "none" /\ runRow'[r] = runRow[r]

(* The insertion of a row takes an id that is free.                        *)
LEMMA EnqueueRowsKept ==
  ASSUME StoreInv, NEW r \in RunIds, NEW c, NEW column, Enqueue(r, c, column)
  PROVE  RowsKept
  BY DEF StoreInv, RunTypeOK, Enqueue, InsertRow, IsNextRunId, RunIds, RowsKept

(* A close leaves the row.                                                 *)
LEMMA CloseRowsKept ==
  ASSUME StoreInv, NEW r \in RunIds, NEW outcome \in Outcome, NEW status,
         CloseRun(r, outcome, status)
  PROVE  RowsKept
  BY RunStates DEF StoreInv, RunTypeOK, CloseRun, RowsKept

(* No step of a daemon that deletes no card removes a row or reuses it.    *)
LEMMA NextRowsKept ==
  ASSUME IInv, "delete" \notin Ops, [Next]_vars
  PROVE  RowsKept
<1> USE DEF IInv
<1>1. ASSUME NEW c \in Cards, NEW column \in Columns, NEW space \in Spaces,
             CardCreate(c, column, space)
      PROVE  RowsKept
  BY <1>1, EnqueueRowsKept DEF CardCreate, RowsKept, runVars
<1>2. ASSUME NEW c \in Cards, NEW column \in Columns, CardMove(c, column) PROVE RowsKept
  BY <1>2, EnqueueRowsKept DEF CardMove, RowsKept, runVars
<1>3. ASSUME CardNext,
             \A c \in Cards, column \in Columns :
               ~ CardMove(c, column) /\ \A space \in Spaces : ~ CardCreate(c, column, space)
      PROVE  UNCHANGED runVars
  BY <1>3 DEF CardNext, CardCreateCheck, CreateRefused, CardDuplicateCheck,
              CardDuplicate, CardUpdate, CardDelete, CardArchive, CardRestore, BoardArchive,
              BoardRestore
<1>4. ASSUME NEW c \in Cards, RunCancelQueued(c) PROVE RowsKept
  BY <1>4, CloseRowsKept DEF RunCancelQueued, OpenRuns, Outcome
<1>5. ASSUME NEW c \in Cards, NEW column \in Columns, RunRetryEnqueue(c, column) PROVE RowsKept
  BY <1>5, EnqueueRowsKept DEF RunRetryEnqueue
<1>6. ASSUME RequestNext,
             \A c \in Cards : ~ RunCancelQueued(c) /\ \A column \in Columns : ~ RunRetryEnqueue(c, column)
      PROVE  UNCHANGED runVars
  BY <1>6 DEF RequestNext, RunDone, RunPaneExited, RunCancel, RunRetryCheck, RunRetryRefused
<1>7. ASSUME NEW f \in finalizing, FinalizeRest(f) PROVE RowsKept
  BY <1>7, FinalizeFacts, CloseRowsKept DEF FinalizeRest
<1>8. ASSUME NEW f \in finalizing, FinalizeHop(f) PROVE RowsKept
  <2>1. PICK n \in RunIds :
          /\ IsNextRunId(n) /\ runRow' = [runRow EXCEPT ![n] = @ + 1]
          /\ runState' = [runState EXCEPT ![f.run] = f.outcome, ![n] = "queued"]
    BY <1>8 DEF FinalizeHop, InsertRow
  <2>2. runState[n] = "none"
    BY <2>1 DEF IsNextRunId, RunIds
  <2>3. f.outcome # "none"
    BY <1>8, FinalizeFacts, RunStates DEF FinalizeHop
  <2> QED
    BY <2>1, <2>2, <2>3 DEF StoreInv, RunTypeOK, RowsKept
<1>9. ASSUME FinalizeNext, \A f \in finalizing : ~ FinalizeRest(f) /\ ~ FinalizeHop(f)
      PROVE  UNCHANGED runVars
  BY <1>9 DEF FinalizeNext, FinalizeNothing, KillPane, TimeoutClassify
<1>10. ASSUME NEW r \in RunIds, SpawnFail(r) PROVE RowsKept
  BY <1>10, CloseRowsKept DEF SpawnFail, Outcome, RowsKept, runVars
<1>11. ASSUME NEW r \in RunIds, Register(r) PROVE RowsKept
  BY <1>11 DEF Register, StoreInv, RunTypeOK, RowsKept
<1>12. ASSUME DispatchNext, \A r \in RunIds : ~ SpawnFail(r) /\ ~ Register(r)
       PROVE  UNCHANGED runVars
  BY <1>12 DEF DispatchNext, PassBegin, PassClaim, SpawnOk, PassEnd
<1>13. CASE WatchNext
  BY <1>13 DEF WatchNext, PaneDies, Signal, PaneEvent, ProbeRead, ProbeStep, ProbeAnswer,
               ProbeUnknown, ProbeStale, ProbeGone, ProbeAlive, AdoptAlive, runVars, RowsKept
<1>14. CASE Crash \/ UNCHANGED vars
  BY <1>14 DEF Crash, vars, runVars, RowsKept
<1>15. ASSUME UNCHANGED runVars PROVE RowsKept
  BY <1>15 DEF runVars, RowsKept
<1> QED
  BY <1>1, <1>2, <1>3, <1>4, <1>5, <1>6, <1>7, <1>8, <1>9, <1>10, <1>11, <1>12, <1>13, <1>14,
     <1>15 DEF Next

(* The pass claims queued rows, and a launch that is not the pass's own is *)
(* the one it was.                                                         *)
LEMMA NextClaims ==
  ASSUME IInv, ClaimInv, "delete" \notin Ops, [Next]_vars
  PROVE  ClaimInv'
<1> USE DEF IInv
<1>1. RowsKept
  BY NextRowsKept
<1>2. ASSUME PassClaim PROVE ClaimInv'
  <2>1. \A r \in RunIds : launchCard'[r] # NoCard => r \in Claimed /\ launchRow'[r] = runRow[r]
    BY <1>2 DEF PassClaim
  <2>2. \A r \in Claimed : runState[r] # "none"
    BY RunStates DEF Claimed, Heads, QueuedRuns
  <2> QED
    BY <1>1, <2>1, <2>2 DEF ClaimInv, RowsKept
<1>3. ASSUME \A r \in RunIds : \/ launchCard'[r] = NoCard
                               \/ launchCard'[r] = launchCard[r] /\ launchRow'[r] = launchRow[r]
      PROVE  ClaimInv'
  BY <1>1, <1>3 DEF ClaimInv, RowsKept
<1>4. CASE CardNext \/ RequestNext \/ FinalizeNext \/ WatchNext \/ UNCHANGED vars
  <2>1. UNCHANGED launchVars
    BY <1>4 DEF CardNext, CardCreateCheck, CardCreate, CreateRefused, CardDuplicateCheck,
         CardDuplicate, CardUpdate, CardDelete, CardArchive, CardRestore, BoardArchive,
         BoardRestore, CardMove, RequestNext, RunDone, RunPaneExited, RunCancel,
         RunCancelQueued, RunRetryCheck, RunRetryEnqueue, RunRetryRefused, FinalizeNext,
         FinalizeRest, FinalizeHop, FinalizeEffects, FinalizeNothing, KillPane, TimeoutClassify,
         WatchNext, PaneDies, Signal, PaneEvent, ProbeRead, ProbeStep, ProbeAnswer, ProbeUnknown,
         ProbeStale, ProbeGone, ProbeAlive, AdoptAlive, vars
  <2> QED
    BY <1>3, <2>1 DEF launchVars
<1>5. ASSUME NEW r \in RunIds, ClearLaunch(r) PROVE ClaimInv'
  BY <1>3, <1>5 DEF ClearLaunch, DispatchTypeOK
<1>6. ASSUME DispatchNext, ~ PassClaim, \A r \in RunIds : ~ ClearLaunch(r)
      PROVE  UNCHANGED <<launchCard, launchRow>>
  BY <1>6 DEF DispatchNext, PassBegin, SpawnFail, SpawnOk, Register, PassEnd, launchVars
<1>7. CASE Crash
  BY <1>3, <1>7 DEF Crash
<1> QED
  BY <1>2, <1>3, <1>4, <1>5, <1>6, <1>7 DEF Next

(* A queued row becomes started only where its launch is registered.       *)
LEMMA StartsByRegister ==
  ASSUME IInv, [Next]_vars, NEW r \in RunIds, runState[r] = "queued", runState'[r] = "started"
  PROVE  Register(r)
<1> USE DEF IInv
<1>1. runState'[r] # runState[r] /\ runState' # runState /\ runState'[r] \notin Outcome
      /\ runState'[r] # "queued" /\ runState'[r] # "none"
  BY RunStates
<1>2. ASSUME NEW q \in RunIds, NEW c, NEW column, Enqueue(q, c, column) PROVE FALSE
  BY <1>1, <1>2 DEF Enqueue, StoreInv, RunTypeOK
<1>3. ASSUME NEW q \in RunIds, NEW outcome \in Outcome, NEW status, CloseRun(q, outcome, status)
      PROVE  FALSE
  BY <1>1, <1>3 DEF CloseRun, StoreInv, RunTypeOK
<1>4. CASE CardNext
  <2>1. ASSUME NEW c \in Cards, CardDelete(c) PROVE FALSE
    BY <1>1, <2>1 DEF CardDelete
  <2>2. ASSUME NEW c \in Cards, NEW column \in Columns, NEW space \in Spaces,
               CardCreate(c, column, space)
        PROVE  FALSE
    BY <1>1, <1>2, <2>2 DEF CardCreate, runVars
  <2>3. ASSUME NEW c \in Cards, NEW column \in Columns, CardMove(c, column) PROVE FALSE
    BY <1>1, <1>2, <2>3 DEF CardMove, runVars
  <2> QED
    BY <1>1, <1>4, <2>1, <2>2, <2>3
    DEF CardNext, CardCreateCheck, CreateRefused, CardDuplicateCheck,
        CardDuplicate, CardUpdate, CardArchive, CardRestore, BoardArchive, BoardRestore, runVars
<1>5. CASE RequestNext
  <2>1. ASSUME NEW c \in Cards, RunCancelQueued(c) PROVE FALSE
    BY <1>3, <2>1 DEF RunCancelQueued, OpenRuns, Outcome
  <2>2. ASSUME NEW c \in Cards, NEW column \in Columns, RunRetryEnqueue(c, column) PROVE FALSE
    BY <1>2, <2>2 DEF RunRetryEnqueue
  <2> QED
    BY <1>1, <1>5, <2>1, <2>2
    DEF RequestNext, RunDone, RunPaneExited, RunCancel, RunRetryCheck, RunRetryRefused, runVars
<1>6. CASE FinalizeNext
  <2>1. ASSUME NEW f \in finalizing, FinalizeRest(f) PROVE FALSE
    BY <1>3, <2>1, FinalizeFacts DEF FinalizeRest
  <2>2. ASSUME NEW f \in finalizing, FinalizeHop(f) PROVE FALSE
    <3>1. PICK n \in RunIds :
            runState' = [runState EXCEPT ![f.run] = f.outcome, ![n] = "queued"]
      BY <2>2 DEF FinalizeHop
    <3>2. f.outcome \in Outcome
      BY <2>2, FinalizeFacts DEF FinalizeHop
    <3> QED
      BY <1>1, <3>1, <3>2 DEF StoreInv, RunTypeOK
  <2> QED
    BY <1>1, <1>6, <2>1, <2>2 DEF FinalizeNext, FinalizeNothing, KillPane, TimeoutClassify, runVars
<1>7. CASE DispatchNext
  <2>1. ASSUME NEW q \in RunIds, SpawnFail(q) PROVE FALSE
    BY <1>1, <1>3, <2>1 DEF SpawnFail, Outcome, runVars
  <2>2. ASSUME NEW q \in RunIds, q # r, Register(q) PROVE FALSE
    BY <1>1, <2>2 DEF Register, StoreInv, RunTypeOK
  <2> QED
    BY <1>1, <1>7, <2>1, <2>2 DEF DispatchNext, PassBegin, PassClaim, SpawnOk, PassEnd, runVars
<1>8. CASE WatchNext
  BY <1>1, <1>8 DEF WatchNext, PaneDies, Signal, PaneEvent, ProbeRead, ProbeStep, ProbeAnswer,
               ProbeUnknown, ProbeStale, ProbeGone, ProbeAlive, AdoptAlive, runVars
<1>9. CASE Crash \/ UNCHANGED vars
  BY <1>1, <1>9 DEF Crash, vars, runVars
<1> QED
  BY <1>4, <1>5, <1>6, <1>7, <1>8, <1>9 DEF Next

(* While no card is deleted, register_spawned_run promotes the row its     *)
(* launch was claimed from: only the reuse of a deleted row's id lets a    *)
(* launch in flight promote another row.                                   *)
THEOREM LaunchesKeepTheirRow ==
  ASSUME "delete" \notin Ops
  PROVE  Spec => RegistersClaimedRow
<1>1. Init => ClaimInv
  BY DEF Init, ClaimInv
<1>2. IInv /\ ClaimInv /\ [Next]_vars => ClaimInv'
  BY NextClaims
<1>3. IInv /\ ClaimInv /\ [Next]_vars =>
        [\A r \in RunIds : runState[r] = "queued" /\ runState'[r] = "started" =>
           launchRow[r] = runRow[r]]_vars
  BY StartsByRegister DEF ClaimInv, Register, Launching
<1> QED
  BY <1>1, <1>2, <1>3, IInvAlways, PTL DEF Spec, RegistersClaimedRow

===============================================================================

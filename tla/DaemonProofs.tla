---------------------------- MODULE DaemonProofs ----------------------------
(***************************************************************************)
(* Theorems about what the daemon shares, and what an open board makes of  *)
(* it.  The Linear read, for any readers, projects, lifetime of a read,    *)
(* clock and number of writes: no caller is stranded, a report waits for a *)
(* refetch until one starts or panics, and no answer predates the writes   *)
(* that were reported before it was asked for.  The lock and the socket,   *)
(* for any number of daemons that start, stop and crash and of commands    *)
(* that start and stop them.  The page of an issue, for any issues, walks  *)
(* and reads.  The way from a write to the screen, for any ring, writes,   *)
(* crashes and reconnections, but for a Linear board that lagged.          *)
(***************************************************************************)
EXTENDS LinearCache, DaemonSocket, BoardFeed, IssuePage, SequenceTheorems, FiniteSetTheorems,
        TLAPS

-----------------------------------------------------------------------------
(* Types: what a caller holds depends on where it is.                      *)

Good == [plan : Projects \cup {Unbound}, version : Int]

Asked == [at : {"forcing", "called", "waiting"}, plan : Projects, since : Nat]
Fetching == [at : {"fetching"}, plan : Projects, since : Nat, started : Nat, seen : Nat]
Answered == [at : {"answered"}, plan : Projects, since : Nat,
             answer : [good : Good, error : BOOLEAN]]
CallState == Asked \cup Fetching \cup Answered \cup {Idle}

EntryState == [plan : Projects, good : Good, error : BOOLEAN, attempted : Int,
               invalidated : Int, inFlight : BOOLEAN]

CacheTyped ==
  /\ now \in Nat /\ linear \in Nat /\ reported \in Nat
  /\ reported <= linear
  /\ binding \in Projects \cup {Unbound}
  /\ entry \in EntryState \cup {NoEntry}
  /\ call \in [Callers -> CallState]

\* Between its reads the refetch thread has no call.
WorkerCall == working # "reading" => call[Worker] = Idle

LEMMA EntryIsEntry == \A e \in EntryState : e # NoEntry
<1> SUFFICES ASSUME NEW e \in EntryState, e = NoEntry PROVE FALSE
  OBVIOUS
<1>1. "plan" \in DOMAIN e
  BY DEF EntryState
<1>2. "plan" \notin DOMAIN NoEntry
  BY DEF NoEntry
<1> QED
  BY <1>1, <1>2

\* A call that is in some place has the fields of that place.
LEMMA CallFields ==
  ASSUME CacheTyped, NEW c \in Callers
  PROVE  /\ call[c] \in CallState
         /\ call[c].at \in {"forcing", "called", "waiting"} => call[c] \in Asked
         /\ call[c].at = "fetching" => call[c] \in Fetching
         /\ call[c].at = "answered" => call[c] \in Answered
  BY DEF CacheTyped, CallState, Asked, Fetching, Answered, Idle

\* Condvar::notify_all: nobody waits after it, and nothing else moves.
LEMMA SettleFacts ==
  ASSUME CacheTyped, NEW c \in Callers, NEW s \in CallState, s.at # "waiting",
         call' = Settle(c, s)
  PROVE  /\ call' \in [Callers -> CallState]
         /\ call'[c] = s
         /\ \A d \in Callers : call'[d].at # "waiting"
         /\ \A d \in Callers \ {c} : call[d].at # "waiting" => call'[d] = call[d]
         /\ \A d \in Callers \ {c} : call[d].at = "waiting" =>
              call'[d].at = "called" /\ call'[d].since = call[d].since
<1>1. ASSUME NEW d \in Callers, call[d].at = "waiting"
      PROVE  /\ [call[d] EXCEPT !.at = "called"] \in Asked
             /\ [call[d] EXCEPT !.at = "called"].at = "called"
             /\ [call[d] EXCEPT !.at = "called"].since = call[d].since
  BY <1>1, CallFields DEF Asked
<1>2. \A d \in Callers : call'[d] = IF d = c THEN s
                                    ELSE IF call[d].at = "waiting" THEN [call[d] EXCEPT !.at = "called"]
                                    ELSE call[d]
  BY DEF Settle
<1>3. \A d \in Callers : call'[d] \in CallState
  BY <1>1, <1>2, CallFields DEF CallState
<1>4. call' \in [Callers -> CallState]
  BY <1>3 DEF Settle
<1> QED
  BY <1>1, <1>2, <1>4

\* The entry a fetching caller leaves.
LEMMA ClaimedFacts ==
  ASSUME CacheTyped, NEW p \in Projects
  PROVE  Claimed(p) \in EntryState /\ Claimed(p).inFlight = TRUE
<1>0. NoGood \in Good /\ Never \in Int
  BY DEF NoGood, Good, Never
<1>1. CASE entry = NoEntry
  BY <1>0, <1>1 DEF Claimed, EntryState
<1>2. CASE entry # NoEntry /\ entry.plan # p
  <2>1. entry \in EntryState
    BY <1>2 DEF CacheTyped
  <2> QED
    BY <1>0, <1>2, <2>1 DEF Claimed, EntryState
<1>3. CASE entry # NoEntry /\ entry.plan = p
  <2>1. entry \in EntryState
    BY <1>3 DEF CacheTyped
  <2> QED
    BY <1>3, <2>1 DEF Claimed, EntryState
<1> QED
  BY <1>1, <1>2, <1>3

\* What a fetch that returns leaves in the entry and hands to its caller.
LEMMA Landing ==
  ASSUME CacheTyped, NEW c \in Callers, NEW ok \in BOOLEAN, FinishFetch(c, ok)
  PROVE  \E v \in call[c].seen .. linear, good \in Good, bad \in BOOLEAN :
           /\ entry' = IF entry = NoEntry THEN entry
                       ELSE [entry EXCEPT !.inFlight = FALSE, !.attempted = call[c].started,
                                          !.good = good, !.error = bad]
           /\ call' = Settle(c, [at |-> "answered", plan |-> call[c].plan,
                                 since |-> call[c].since, answer |-> Answer(good, bad)])
           /\ bad = ~ok
           /\ good = IF ok THEN [plan |-> call[c].plan, version |-> v]
                     ELSE IF entry = NoEntry THEN NoGood ELSE entry.good
<1>1. call[c] \in Fetching
  BY CallFields DEF FinishFetch
<1>2. PICK v \in call[c].seen .. linear :
        LET good == IF ok THEN [plan |-> call[c].plan, version |-> v]
                    ELSE IF entry = NoEntry THEN NoGood ELSE entry.good
        IN /\ entry' = IF entry = NoEntry THEN entry
                       ELSE [entry EXCEPT !.inFlight = FALSE, !.attempted = call[c].started,
                                          !.good = good, !.error = ~ok]
           /\ call' = Settle(c, [at |-> "answered", plan |-> call[c].plan,
                                 since |-> call[c].since, answer |-> Answer(good, ~ok)])
  BY Zenon DEF FinishFetch
<1> DEFINE good == IF ok THEN [plan |-> call[c].plan, version |-> v]
                   ELSE IF entry = NoEntry THEN NoGood ELSE entry.good
<1>3. good \in Good
  <2>1. [plan |-> call[c].plan, version |-> v] \in Good
    BY <1>1, <1>2 DEF Good, Fetching, CacheTyped
  <2>2. NoGood \in Good
    BY DEF NoGood, Good, Never
  <2>3. entry # NoEntry => entry.good \in Good
    BY DEF CacheTyped, EntryState
  <2> QED
    BY <2>1, <2>2, <2>3
<1>4. (~ok) \in BOOLEAN
  BY Zenon
<1> QED
  BY <1>2, <1>3, <1>4, Zenon

-----------------------------------------------------------------------------
(* The types hold, and the refetch thread's call is its own.               *)

\* A step that neither reads nor fetches.
LEMMA CalmTyped ==
  ASSUME CacheTyped, UNCHANGED <<linear, reported, entry, call>>,
         now' \in Nat, binding' \in Projects \cup {Unbound}
  PROVE  CacheTyped'
  BY DEF CacheTyped

LEMMA TypedStep ==
  ASSUME CacheTyped, WorkerCall, Worker \notin Readers, [Next]_vars
  PROVE  CacheTyped' /\ WorkerCall'
<1>0. Worker \in Callers /\ (\A r \in Readers : r \in Callers)
  BY DEF Callers
<1>1. CASE Tick
  BY <1>1, CalmTyped DEF Tick, CacheTyped, WorkerCall
<1>2. ASSUME NEW p \in Projects \cup {Unbound}, Rebind(p) PROVE CacheTyped' /\ WorkerCall'
  BY <1>2, CalmTyped DEF Rebind, CacheTyped, WorkerCall
<1>3. ASSUME NEW r \in Readers, NEW force \in BOOLEAN, Snapshot(r, force)
      PROVE  CacheTyped' /\ WorkerCall'
  <2>1. [at |-> IF force THEN "forcing" ELSE "called", plan |-> binding, since |-> reported] \in Asked
    BY <1>0, <1>3 DEF Snapshot, CacheTyped, Asked
  <2> QED
    BY <1>0, <1>3, <2>1 DEF Snapshot, CacheTyped, CallState, WorkerCall
<1>4. ASSUME NEW r \in Readers, ForceRead(r) PROVE CacheTyped' /\ WorkerCall'
  <2>1. [call[r] EXCEPT !.at = "called"] \in Asked
    BY <1>0, <1>4, CallFields DEF ForceRead, Asked
  <2>2. entry' \in EntryState \cup {NoEntry}
    BY <1>4 DEF ForceRead, Invalidated, CacheTyped, EntryState
  <2> QED
    BY <1>0, <1>4, <2>1, <2>2 DEF ForceRead, CacheTyped, CallState, WorkerCall
<1>5. ASSUME NEW c \in Callers, AnswerFresh(c) PROVE CacheTyped' /\ WorkerCall'
  <2>1. call[c] \in Asked /\ entry \in EntryState
    BY <1>5, CallFields DEF AnswerFresh, Fresh, CacheTyped
  <2>2. [at |-> "answered", plan |-> call[c].plan, since |-> call[c].since,
         answer |-> Answer(entry.good, entry.error)] \in Answered
    BY <2>1 DEF Answered, Asked, Answer, EntryState
  <2>3. c = Worker => working = "reading"
    BY <1>5 DEF AnswerFresh, WorkerCall, Idle
  <2> QED
    BY <1>5, <2>2, <2>3 DEF AnswerFresh, CacheTyped, CallState, WorkerCall
<1>6. ASSUME NEW c \in Callers, AwaitFetch(c) PROVE CacheTyped' /\ WorkerCall'
  <2>1. [call[c] EXCEPT !.at = "waiting"] \in Asked
    BY <1>6, CallFields DEF AwaitFetch, Asked
  <2>2. c = Worker => working = "reading"
    BY <1>6 DEF AwaitFetch, WorkerCall, Idle
  <2> QED
    BY <1>6, <2>1, <2>2 DEF AwaitFetch, CacheTyped, CallState, WorkerCall
<1>7. ASSUME NEW c \in Callers, StartFetch(c) PROVE CacheTyped' /\ WorkerCall'
  <2>1. call[c] \in Asked
    BY <1>7, CallFields DEF StartFetch
  <2>2. [at |-> "fetching", plan |-> call[c].plan, since |-> call[c].since,
         started |-> now, seen |-> linear] \in Fetching
    BY <2>1 DEF Fetching, Asked, CacheTyped
  <2>3. entry' \in EntryState
    BY <1>7, <2>1, ClaimedFacts DEF StartFetch, Asked
  <2>4. c = Worker => working = "reading"
    BY <1>7 DEF StartFetch, WorkerCall, Idle
  <2> QED
    BY <1>7, <2>2, <2>3, <2>4 DEF StartFetch, CacheTyped, CallState, WorkerCall
<1>8. ASSUME NEW c \in Callers, NEW ok \in BOOLEAN, FinishFetch(c, ok)
      PROVE  CacheTyped' /\ WorkerCall'
  <2>1. call[c] \in Fetching
    BY <1>8, CallFields DEF FinishFetch
  <2>2. PICK v \in call[c].seen .. linear, good \in Good, bad \in BOOLEAN :
          /\ entry' = IF entry = NoEntry THEN entry
                      ELSE [entry EXCEPT !.inFlight = FALSE, !.attempted = call[c].started,
                                         !.good = good, !.error = bad]
          /\ call' = Settle(c, [at |-> "answered", plan |-> call[c].plan,
                                since |-> call[c].since, answer |-> Answer(good, bad)])
    BY <1>8, <2>1, Landing
  <2>3. [at |-> "answered", plan |-> call[c].plan, since |-> call[c].since,
         answer |-> Answer(good, bad)] \in Answered
    BY <2>1 DEF Answered, Fetching, Answer
  <2>4. entry' \in EntryState \cup {NoEntry}
    <3>1. CASE entry = NoEntry
      BY <2>2, <3>1
    <3>2. CASE entry # NoEntry
      <4>1. entry \in EntryState /\ call[c].started \in Int
        BY <2>1, <3>2 DEF CacheTyped, Fetching
      <4>2. entry' = [entry EXCEPT !.inFlight = FALSE, !.attempted = call[c].started,
                                   !.good = good, !.error = bad]
        BY <2>2, <3>2
      <4> QED
        BY <4>1, <4>2 DEF EntryState
    <3> QED
      BY <3>1, <3>2
  <2>5. /\ call' \in [Callers -> CallState]
        /\ Worker # c /\ call[Worker].at # "waiting" => call'[Worker] = call[Worker]
    BY <1>0, <2>2, <2>3, SettleFacts DEF CallState, Answered
  <2>6. c = Worker => working = "reading"
    BY <1>8 DEF FinishFetch, WorkerCall, Idle
  <2>7. working # "reading" => call[Worker].at # "waiting"
    BY DEF WorkerCall, Idle
  <2> QED
    BY <1>8, <2>4, <2>5, <2>6, <2>7 DEF FinishFetch, CacheTyped, WorkerCall
<1>9. ASSUME NEW c \in Callers, UnwindFetch(c) PROVE CacheTyped' /\ WorkerCall'
  <2>1. entry' \in EntryState \cup {NoEntry}
    BY <1>9 DEF UnwindFetch, CacheTyped, EntryState
  <2>2. Idle \in CallState /\ Idle.at # "waiting"
    BY DEF CallState, Idle
  <2>3. /\ call' \in [Callers -> CallState] /\ call'[c] = Idle
        /\ Worker # c /\ call[Worker].at # "waiting" => call'[Worker] = call[Worker]
    BY <1>0, <1>9, <2>2, SettleFacts DEF UnwindFetch
  <2>4. c # Worker => working' = working
    BY <1>9 DEF UnwindFetch
  <2>5. working # "reading" => call[Worker].at # "waiting"
    BY DEF WorkerCall, Idle
  <2> QED
    BY <1>9, <2>1, <2>3, <2>4, <2>5 DEF UnwindFetch, CacheTyped, WorkerCall
<1>10. CASE Report
  <2>1. entry' \in EntryState \cup {NoEntry}
    BY <1>10 DEF Report, Invalidated, CacheTyped, EntryState
  <2> QED
    BY <1>10, <2>1 DEF Report, CacheTyped, WorkerCall
<1>11. CASE Schedule
  BY <1>11, CalmTyped DEF Schedule, CacheTyped, WorkerCall
<1>12. CASE StartPass
  BY <1>12, CalmTyped DEF StartPass, CacheTyped, WorkerCall
<1>13. CASE Refetch
  <2>1. binding # Unbound => [at |-> "called", plan |-> binding, since |-> reported] \in Asked
    BY DEF CacheTyped, Asked
  <2> QED
    BY <1>0, <1>13, <2>1 DEF Refetch, CacheTyped, CallState, WorkerCall
<1>14. CASE RemoveEntry
  <2>1. Idle \in CallState /\ Idle.at # "waiting"
    BY DEF CallState, Idle
  <2>2. call' \in [Callers -> CallState] /\ call'[Worker] = Idle
    BY <1>0, <1>14, <2>1, SettleFacts DEF RemoveEntry
  <2> QED
    BY <1>0, <1>14, <2>2 DEF RemoveEntry, CacheTyped, WorkerCall
<1>15. CASE Refetched
  BY <1>0, <1>15 DEF Refetched, CacheTyped, CallState, WorkerCall
<1>16. CASE EndPass
  BY <1>16, CalmTyped DEF EndPass, CacheTyped, WorkerCall
<1>17. CASE UNCHANGED vars
  BY <1>17, CalmTyped DEF vars, CacheTyped, WorkerCall
<1>18. CASE ClearPass
  BY <1>18, CalmTyped DEF ClearPass, CacheTyped, WorkerCall
<1> QED
  BY <1>1, <1>2, <1>3, <1>4, <1>5, <1>6, <1>7, <1>8, <1>9, <1>10, <1>11, <1>12, <1>13, <1>14,
     <1>15, <1>16, <1>17, <1>18 DEF Next

LEMMA TypedInit ==
  ASSUME Init
  PROVE  CacheTyped /\ WorkerCall
<1>1. call \in [Callers -> CallState]
  BY DEF Init, CallState
<1> QED
  BY <1>1 DEF Init, CacheTyped, WorkerCall, Callers

-----------------------------------------------------------------------------
(* Nobody is stranded.                                                     *)

WaitInv ==
  /\ \A c \in Callers : call[c].at = "waiting" => entry.inFlight
  /\ entry.inFlight => \E c \in Callers : call[c].at = "fetching"

LEMMA WaitStep ==
  ASSUME CacheTyped, WorkerCall, WaitInv, Worker \notin Readers, [Next]_vars
  PROVE  WaitInv'
<1>0. Worker \in Callers /\ (\A r \in Readers : r \in Callers)
  BY DEF Callers
<1>1. CASE UNCHANGED <<entry, call>>
  BY <1>1 DEF WaitInv
<1>2. ASSUME NEW c \in Callers, NEW s, call' = [call EXCEPT ![c] = s], s.at # "waiting",
             call[c].at # "fetching", entry'.inFlight = entry.inFlight
      PROVE  WaitInv'
  BY <1>2 DEF WaitInv, CacheTyped
<1>3. ASSUME NEW r \in Readers, NEW force \in BOOLEAN, Snapshot(r, force) PROVE WaitInv'
  <2> DEFINE s == [at |-> IF force THEN "forcing" ELSE "called", plan |-> binding, since |-> reported]
  <2>1. s.at # "waiting" /\ call' = [call EXCEPT ![r] = s] /\ entry' = entry /\ call[r].at # "fetching"
    BY <1>3 DEF Snapshot
  <2> HIDE DEF s
  <2> QED
    BY <1>0, <1>2, <2>1
<1>4. ASSUME NEW r \in Readers, ForceRead(r) PROVE WaitInv'
  <2>1. entry'.inFlight = entry.inFlight
    BY <1>4 DEF ForceRead, Invalidated, CacheTyped, EntryState
  <2>2. [call[r] EXCEPT !.at = "called"].at = "called"
    BY <1>0, <1>4, CallFields DEF ForceRead, Asked
  <2> QED
    BY <1>0, <1>2, <1>4, <2>1, <2>2 DEF ForceRead
<1>5. ASSUME NEW c \in Callers, AnswerFresh(c) PROVE WaitInv'
  <2> DEFINE s == [at |-> "answered", plan |-> call[c].plan, since |-> call[c].since,
                   answer |-> Answer(entry.good, entry.error)]
  <2>1. s.at # "waiting" /\ call' = [call EXCEPT ![c] = s] /\ entry' = entry /\ call[c].at # "fetching"
    BY <1>5 DEF AnswerFresh, CacheTyped
  <2> HIDE DEF s
  <2> QED
    BY <1>2, <2>1
<1>6. ASSUME NEW c \in Callers, AwaitFetch(c) PROVE WaitInv'
  BY <1>6 DEF AwaitFetch, WaitInv, CacheTyped
<1>7. ASSUME NEW c \in Callers, StartFetch(c) PROVE WaitInv'
  <2>1. entry'.inFlight = TRUE
    BY <1>7, CallFields, ClaimedFacts DEF StartFetch, Asked
  <2>2. call'[c].at = "fetching"
    BY <1>7 DEF StartFetch, CacheTyped
  <2> QED
    BY <2>1, <2>2 DEF WaitInv
<1>8. ASSUME NEW c \in Callers, NEW s \in CallState, s.at # "waiting", call' = Settle(c, s),
             entry'.inFlight = FALSE
      PROVE  WaitInv'
  BY <1>8, SettleFacts DEF WaitInv
<1>9. ASSUME NEW c \in Callers, NEW ok \in BOOLEAN, FinishFetch(c, ok) PROVE WaitInv'
  <2>1. call'[c].at = "answered" /\ call' \in [Callers -> CallState]
    <3>1. CacheTyped'
      BY <1>9, TypedStep DEF Next
    <3>2. PICK v \in call[c].seen .. linear, good \in Good, bad \in BOOLEAN :
            call' = Settle(c, [at |-> "answered", plan |-> call[c].plan,
                               since |-> call[c].since, answer |-> Answer(good, bad)])
      BY <1>9, Landing
    <3>3. call'[c].at = "answered"
      BY <3>2 DEF Settle
    <3> QED
      BY <3>1, <3>3 DEF CacheTyped
  <2>2. \E s : call' = Settle(c, s)
    BY <1>9 DEF FinishFetch
  <2>3. \A d \in Callers : call'[d].at # "waiting"
    <3>1. PICK s : call' = Settle(c, s)
      BY <2>2
    <3>2. call'[c] = s
      BY <3>1 DEF Settle
    <3>3. s \in CallState /\ s.at # "waiting"
      BY <2>1, <3>2
    <3> QED
      BY <3>1, <3>3, SettleFacts
  <2>4. entry'.inFlight = FALSE
    BY <1>9 DEF FinishFetch, CacheTyped, EntryState, NoEntry
  <2> QED
    BY <2>3, <2>4 DEF WaitInv
<1>10. ASSUME NEW c \in Callers, UnwindFetch(c) PROVE WaitInv'
  <2>1. entry'.inFlight = FALSE
    BY <1>10 DEF UnwindFetch, CacheTyped, EntryState, NoEntry
  <2> QED
    BY <1>8, <1>10, <2>1 DEF UnwindFetch, CallState, Idle
<1>11. CASE Report
  <2>1. entry'.inFlight = entry.inFlight /\ call' = call
    BY <1>11 DEF Report, Invalidated, CacheTyped, EntryState
  <2> QED
    BY <2>1 DEF WaitInv
<1>12. CASE Refetch
  <2>1. call[Worker].at = "idle"
    BY <1>12 DEF Refetch, WorkerCall, Idle
  <2> QED
    BY <1>0, <1>1, <1>2, <1>12, <2>1 DEF Refetch
<1>13. CASE RemoveEntry
  <2>1. entry'.inFlight = FALSE
    BY <1>13 DEF RemoveEntry, NoEntry
  <2> QED
    BY <1>0, <1>8, <1>13, <2>1 DEF RemoveEntry, CallState, Idle
<1>14. CASE Refetched
  <2>1. Idle.at # "waiting" /\ call' = [call EXCEPT ![Worker] = Idle] /\ entry' = entry
        /\ call[Worker].at # "fetching"
    BY <1>14 DEF Refetched, Idle
  <2> QED
    BY <1>0, <1>2, <2>1
<1> QED
  BY <1>1, <1>3, <1>4, <1>5, <1>6, <1>7, <1>9, <1>10, <1>11, <1>12, <1>13, <1>14
  DEF Next, vars, Tick, Rebind, Schedule, StartPass, EndPass, ClearPass

(* A thread that waits on the condition variable of SnapshotCache::read    *)
(* waits for a fetch that is in flight: neither an error, a panic, the     *)
(* removal of the entry nor a change of plan leaves it there alone.        *)
THEOREM NobodyStranded ==
  ASSUME Worker \notin Readers
  PROVE  Spec => []NoStrandedWaiter
<1>1. Init => CacheTyped /\ WorkerCall /\ WaitInv
  <2> SUFFICES ASSUME Init PROVE WaitInv
    BY TypedInit
  <2> QED
    BY DEF Init, WaitInv, Idle, NoEntry
<1>2. CacheTyped /\ WorkerCall /\ WaitInv /\ [Next]_vars => (CacheTyped /\ WorkerCall /\ WaitInv)'
  BY TypedStep, WaitStep
<1>3. CacheTyped /\ WorkerCall /\ WaitInv => NoStrandedWaiter
  BY DEF WaitInv, NoStrandedWaiter
<1> QED
  BY <1>1, <1>2, <1>3, PTL DEF Spec

-----------------------------------------------------------------------------
(* A read sees the writes that were reported before it was asked for.      *)

\* Two fetches of one entry never overlap.
OneFetch ==
  \A c \in Callers : call[c].at = "fetching" =>
    entry # NoEntry /\ entry.inFlight /\ \A d \in Callers : call[d].at = "fetching" => d = c

\* A fetch that no report has overtaken holds every reported write; one that
\* was overtaken is dated at or before the report's mark.
FetchSees ==
  \A c \in Callers : call[c].at = "fetching" =>
    /\ call[c].since <= call[c].seen
    /\ call[c].started <= now
    /\ entry.invalidated < call[c].started => reported <= call[c].seen

\* An entry that would be served as fresh holds every reported write.
EntrySees ==
  entry # NoEntry =>
    /\ Never <= entry.attempted /\ entry.attempted <= now
    /\ (entry.good # NoGood /\ ~entry.error /\ entry.invalidated < entry.attempted)
         => reported <= entry.good.version

SinceReported == \A c \in Callers : call[c].at # "idle" => call[c].since <= reported

Sees(s) ==
  (s.at = "answered" /\ ~s.answer.error /\ s.answer.good # NoGood)
    => s.since <= s.answer.good.version

AnswersSee == \A c \in Callers : Sees(call[c])

SeeInv ==
  /\ OneFetch
  /\ FetchSees
  /\ EntrySees
  /\ SinceReported
  /\ AnswersSee

\* Neither the entry nor a call changes.
LEMMA CalmSees ==
  ASSUME CacheTyped, SeeInv, UNCHANGED <<entry, call, reported>>, now' \in Nat, now <= now'
  PROVE  SeeInv'
<1>1. OneFetch' /\ SinceReported' /\ AnswersSee'
  BY DEF SeeInv, OneFetch, SinceReported, AnswersSee
<1>2. FetchSees'
  <2> SUFFICES ASSUME NEW c \in Callers, call[c].at = "fetching"
               PROVE  call[c].started <= now'
    BY DEF SeeInv, FetchSees
  <2>1. call[c].started \in Nat /\ now \in Nat
    BY CallFields DEF Fetching, CacheTyped
  <2> QED
    BY <2>1 DEF SeeInv, FetchSees
<1>3. EntrySees'
  <2>1. entry # NoEntry => entry.attempted \in Int
    BY DEF CacheTyped, EntryState
  <2>2. now \in Nat
    BY DEF CacheTyped
  <2> QED
    BY <2>1, <2>2 DEF SeeInv, EntrySees
<1> QED
  BY <1>1, <1>2, <1>3 DEF SeeInv

\* One call moves, and neither starts nor ends a fetch.
LEMMA CallSees ==
  ASSUME CacheTyped, SeeInv, UNCHANGED <<entry, reported, now>>, NEW c \in Callers, NEW s,
         call' = [call EXCEPT ![c] = s], call[c].at # "fetching", s.at # "fetching",
         s.at # "idle" => s.since <= reported, Sees(s)
  PROVE  SeeInv'
<1>1. \A d \in Callers : call'[d] = IF d = c THEN s ELSE call[d]
  BY DEF CacheTyped
<1>2. \A d \in Callers : call'[d].at = "fetching" => call'[d] = call[d]
  BY <1>1
<1>3. OneFetch'
  BY <1>2 DEF SeeInv, OneFetch
<1>4. FetchSees'
  BY <1>2 DEF SeeInv, FetchSees
<1>5. EntrySees'
  BY DEF SeeInv, EntrySees
<1>6. SinceReported'
  BY <1>1 DEF SeeInv, SinceReported
<1>7. AnswersSee'
  <2> SUFFICES ASSUME NEW d \in Callers PROVE Sees(call'[d])
    BY DEF AnswersSee, Sees
  <2>1. CASE d = c
    BY <1>1, <2>1
  <2>2. CASE d # c
    BY <1>1, <2>2 DEF SeeInv, AnswersSee
  <2> QED
    BY <2>1, <2>2
<1> QED
  BY <1>3, <1>4, <1>5, <1>6, <1>7 DEF SeeInv

\* A fetch ends: its caller has its answer or none, and whoever waited asks again.
LEMMA SettleSees ==
  ASSUME CacheTyped, SeeInv, UNCHANGED <<reported, now>>, NEW c \in Callers, NEW s \in CallState,
         call[c].at = "fetching", call' = Settle(c, s), s.at \in {"idle", "answered"},
         s.at # "idle" => s.since <= reported, Sees(s), EntrySees'
  PROVE  SeeInv'
<1>1. /\ call'[c] = s
      /\ \A d \in Callers \ {c} : call[d].at # "waiting" => call'[d] = call[d]
      /\ \A d \in Callers \ {c} : call[d].at = "waiting" =>
           call'[d].at = "called" /\ call'[d].since = call[d].since
  BY SettleFacts
<1>2. \A d \in Callers : call'[d].at # "fetching"
  BY <1>1 DEF SeeInv, OneFetch
<1>3. OneFetch' /\ FetchSees'
  BY <1>2 DEF OneFetch, FetchSees
<1>4. SinceReported'
  BY <1>1 DEF SeeInv, SinceReported
<1>5. AnswersSee'
  <2> SUFFICES ASSUME NEW d \in Callers PROVE Sees(call'[d])
    BY DEF AnswersSee, Sees
  <2>1. CASE d = c
    BY <1>1, <2>1
  <2>2. CASE d # c /\ call[d].at = "waiting"
    BY <1>1, <2>2 DEF Sees
  <2>3. CASE d # c /\ call[d].at # "waiting"
    BY <1>1, <2>3 DEF SeeInv, AnswersSee
  <2> QED
    BY <2>1, <2>2, <2>3
<1> QED
  BY <1>3, <1>4, <1>5 DEF SeeInv

\* An entry that is marked invalid now is not fresh, and a fetch that is in
\* flight is dated too early to make it so.
LEMMA InvalidatedSees ==
  ASSUME CacheTyped, SeeInv, now' = now, entry' = Invalidated
  PROVE  /\ EntrySees'
         /\ \A c \in Callers : call[c].at = "fetching" =>
              entry' # NoEntry /\ entry'.inFlight /\ ~(entry'.invalidated < call[c].started)
<1>1. CASE entry = NoEntry
  BY <1>1 DEF Invalidated, SeeInv, EntrySees, OneFetch
<1>2. CASE entry # NoEntry
  <2>1. entry \in EntryState /\ now \in Nat
    BY <1>2 DEF CacheTyped
  <2>2. /\ entry' \in EntryState /\ entry'.attempted = entry.attempted
        /\ entry'.invalidated = now /\ entry'.inFlight = entry.inFlight
    BY <1>2, <2>1 DEF Invalidated, EntryState
  <2>3. entry'.attempted \in Int
    BY <2>2 DEF EntryState
  <2>4. EntrySees'
    BY <1>2, <2>1, <2>2, <2>3 DEF SeeInv, EntrySees
  <2>5. ASSUME NEW c \in Callers, call[c].at = "fetching"
        PROVE  entry' # NoEntry /\ entry'.inFlight /\ ~(entry'.invalidated < call[c].started)
    <3>1. call[c].started \in Nat /\ call[c].started <= now
      BY <2>5, CallFields DEF Fetching, SeeInv, FetchSees
    <3> QED
      BY <2>1, <2>2, <2>5, <3>1, EntryIsEntry DEF SeeInv, OneFetch
  <2> QED
    BY <2>4, <2>5
<1> QED
  BY <1>1, <1>2

\* A claimed entry keeps the value of the same plan and drops another's.
LEMMA ClaimedSees ==
  ASSUME CacheTyped, SeeInv, NEW p \in Projects, UNCHANGED <<now, reported>>, entry' = Claimed(p)
  PROVE  EntrySees'
<1>1. CASE entry = NoEntry
  BY <1>1 DEF Claimed, EntrySees, CacheTyped, Never
<1>2. CASE entry # NoEntry /\ entry.plan # p
  <2>1. entry \in EntryState
    BY <1>2 DEF CacheTyped
  <2>2. entry'.good = NoGood /\ entry'.attempted = entry.attempted
    BY <1>2, <2>1 DEF Claimed, EntryState
  <2> QED
    BY <1>2, <2>2 DEF SeeInv, EntrySees
<1>3. CASE entry # NoEntry /\ entry.plan = p
  <2>1. entry \in EntryState
    BY <1>3 DEF CacheTyped
  <2>2. /\ entry'.good = entry.good /\ entry'.attempted = entry.attempted
        /\ entry'.error = entry.error /\ entry'.invalidated = entry.invalidated
    BY <1>3, <2>1 DEF Claimed, EntryState
  <2> QED
    BY <1>3, <2>2 DEF SeeInv, EntrySees
<1> QED
  BY <1>1, <1>2, <1>3

LEMMA SeeStep ==
  ASSUME CacheTyped, WorkerCall, WaitInv, Worker \notin Readers, ~removed => SeeInv, [Next]_vars
  PROVE  ~removed' => SeeInv'
<1>0. Worker \in Callers /\ (\A r \in Readers : r \in Callers)
  BY DEF Callers
<1>1. CASE RemoveEntry
  BY <1>1 DEF RemoveEntry
<1> SUFFICES ASSUME ~RemoveEntry, SeeInv PROVE SeeInv'
  BY <1>1 DEF Next, vars, Tick, Rebind, Snapshot, ForceRead, AnswerFresh, AwaitFetch, StartFetch,
              FinishFetch, UnwindFetch, Report, Schedule, StartPass, Refetch, Refetched, EndPass, ClearPass
<1>3. now \in Nat /\ reported \in Nat /\ linear \in Nat /\ reported <= linear
  BY DEF CacheTyped
<1>4. CASE UNCHANGED <<entry, call, reported, now>>
  BY <1>3, <1>4, CalmSees
<1>5. CASE Tick
  BY <1>3, <1>5, CalmSees DEF Tick
<1>6. ASSUME NEW r \in Readers, NEW force \in BOOLEAN, Snapshot(r, force) PROVE SeeInv'
  <2> DEFINE s == [at |-> IF force THEN "forcing" ELSE "called", plan |-> binding, since |-> reported]
  <2>1. /\ s.at \notin {"fetching", "answered"} /\ s.since = reported
        /\ call' = [call EXCEPT ![r] = s] /\ call[r].at # "fetching"
        /\ UNCHANGED <<entry, reported, now>>
    BY <1>6 DEF Snapshot
  <2> HIDE DEF s
  <2>2. Sees(s) /\ s.since <= reported
    BY <1>3, <2>1 DEF Sees
  <2> QED
    BY <1>0, <2>1, <2>2, CallSees
<1>7. ASSUME NEW r \in Readers, ForceRead(r) PROVE SeeInv'
  <2>1. /\ entry' = Invalidated /\ UNCHANGED <<now, reported>>
        /\ call' = [call EXCEPT ![r] = [call[r] EXCEPT !.at = "called"]]
        /\ call[r] \in Asked
    BY <1>0, <1>7, CallFields DEF ForceRead
  <2>2. [call[r] EXCEPT !.at = "called"].at = "called"
        /\ [call[r] EXCEPT !.at = "called"].since = call[r].since
    BY <2>1 DEF Asked
  <2>3. \A d \in Callers : /\ call'[d].at # "called" => call'[d] = call[d]
                           /\ call'[d].at = "called" => call'[d].since = call[d].since
                                                        /\ call[d].at # "idle"
    BY <1>7, <2>1, <2>2 DEF CacheTyped, ForceRead
  <2>4. EntrySees' /\ OneFetch' /\ FetchSees'
    BY <2>1, <2>3, InvalidatedSees DEF SeeInv, OneFetch, FetchSees
  <2>5. SinceReported' /\ AnswersSee'
    BY <2>1, <2>3 DEF SeeInv, SinceReported, AnswersSee, Sees
  <2> QED
    BY <2>4, <2>5 DEF SeeInv
<1>8. ASSUME NEW c \in Callers, AnswerFresh(c) PROVE SeeInv'
  <2> DEFINE s == [at |-> "answered", plan |-> call[c].plan, since |-> call[c].since,
                   answer |-> Answer(entry.good, entry.error)]
  <2>1. call[c] \in Asked /\ entry \in EntryState /\ call[c].since <= reported
    BY <1>8, CallFields DEF AnswerFresh, Fresh, CacheTyped, SeeInv, SinceReported
  <2>2. (entry.good # NoGood /\ ~entry.error) => reported <= entry.good.version
    BY <1>8, <2>1 DEF AnswerFresh, Fresh, SeeInv, EntrySees, EntryState, Never
  <2>3. (entry.good # NoGood /\ ~entry.error) => call[c].since <= entry.good.version
    BY <1>3, <2>1, <2>2 DEF Asked, EntryState, Good
  <2>4. Sees(s)
    BY <2>3 DEF Sees, Answer
  <2>5. /\ s.at = "answered" /\ s.since = call[c].since /\ call' = [call EXCEPT ![c] = s]
        /\ call[c].at # "fetching" /\ UNCHANGED <<entry, reported, now>>
    BY <1>8 DEF AnswerFresh, CacheTyped
  <2> HIDE DEF s
  <2> QED
    BY <2>1, <2>4, <2>5, CallSees
<1>9. ASSUME NEW c \in Callers, AwaitFetch(c) PROVE SeeInv'
  <2> DEFINE s == [call[c] EXCEPT !.at = "waiting"]
  <2>1. /\ s.at = "waiting" /\ s.since = call[c].since /\ call' = [call EXCEPT ![c] = s]
        /\ call[c].at = "called" /\ UNCHANGED <<entry, reported, now>>
    BY <1>9, CallFields DEF AwaitFetch, Asked
  <2> HIDE DEF s
  <2>2. Sees(s) /\ s.since <= reported
    BY <2>1 DEF Sees, SeeInv, SinceReported
  <2> QED
    BY <2>1, <2>2, CallSees
<1>10. ASSUME NEW c \in Callers, StartFetch(c) PROVE SeeInv'
  <2>1. /\ call[c] \in Asked /\ ~entry.inFlight
        /\ entry' = Claimed(call[c].plan) /\ UNCHANGED <<now, reported>>
        /\ call' = [call EXCEPT ![c] = [at |-> "fetching", plan |-> call[c].plan,
                                        since |-> call[c].since, started |-> now, seen |-> linear]]
    BY <1>10, CallFields DEF StartFetch, CacheTyped
  <2>2. \A d \in Callers : call[d].at # "fetching"
    BY <2>1 DEF SeeInv, OneFetch
  <2>3. /\ call'[c] = [at |-> "fetching", plan |-> call[c].plan, since |-> call[c].since,
                       started |-> now, seen |-> linear]
        /\ \A d \in Callers \ {c} : call'[d] = call[d]
    BY <2>1 DEF CacheTyped
  <2>4. entry' \in EntryState /\ entry'.inFlight = TRUE
    BY <2>1, ClaimedFacts DEF Asked
  <2>5. call[c].since <= reported /\ call[c].since \in Nat
    BY <1>10, <2>1 DEF StartFetch, SeeInv, SinceReported, Asked
  <2>6. OneFetch'
    BY <2>2, <2>3, <2>4, EntryIsEntry DEF OneFetch
  <2>7. FetchSees'
    BY <1>3, <2>1, <2>2, <2>3, <2>5 DEF FetchSees
  <2>8. EntrySees'
    BY <1>3, <2>1, ClaimedSees DEF Asked
  <2>9. SinceReported' /\ AnswersSee'
    BY <2>1, <2>3, <2>5 DEF SeeInv, SinceReported, AnswersSee, Sees
  <2> QED
    BY <2>6, <2>7, <2>8, <2>9 DEF SeeInv
<1>11. ASSUME NEW c \in Callers, NEW ok \in BOOLEAN, FinishFetch(c, ok) PROVE SeeInv'
  <2>1. /\ call[c] \in Fetching /\ call[c].at = "fetching" /\ UNCHANGED <<now, reported>>
        /\ entry \in EntryState
    BY <1>11, CallFields DEF FinishFetch, SeeInv, OneFetch, CacheTyped
  <2>2. PICK v \in call[c].seen .. linear, good \in Good, bad \in BOOLEAN :
          /\ entry' = [entry EXCEPT !.inFlight = FALSE, !.attempted = call[c].started,
                                    !.good = good, !.error = bad]
          /\ call' = Settle(c, [at |-> "answered", plan |-> call[c].plan,
                                since |-> call[c].since, answer |-> Answer(good, bad)])
          /\ ~bad => good.version = v
    <3>1. entry # NoEntry
      BY <2>1, EntryIsEntry
    <3>2. PICK v \in call[c].seen .. linear, good \in Good, bad \in BOOLEAN :
            /\ entry' = IF entry = NoEntry THEN entry
                        ELSE [entry EXCEPT !.inFlight = FALSE, !.attempted = call[c].started,
                                           !.good = good, !.error = bad]
            /\ call' = Settle(c, [at |-> "answered", plan |-> call[c].plan,
                                  since |-> call[c].since, answer |-> Answer(good, bad)])
            /\ bad = ~ok
            /\ good = IF ok THEN [plan |-> call[c].plan, version |-> v]
                      ELSE IF entry = NoEntry THEN NoGood ELSE entry.good
      BY <1>11, Landing
    <3>3. ~bad => good.version = v
      BY <3>2
    <3> QED
      BY <3>1, <3>2, <3>3
  <2>3. /\ entry' \in EntryState /\ entry'.attempted = call[c].started /\ entry'.good = good
        /\ entry'.error = bad /\ entry'.invalidated = entry.invalidated
    <3>1. call[c].started \in Int
      BY <2>1 DEF Fetching
    <3>2. entry' = [entry EXCEPT !.inFlight = FALSE, !.attempted = call[c].started,
                                 !.good = good, !.error = bad]
      BY <2>2
    <3> QED
      BY <2>1, <3>1, <3>2 DEF EntryState
  <2>4. v \in Nat /\ call[c].seen \in Nat /\ call[c].seen <= v /\ call[c].started \in Nat
        /\ call[c].since \in Nat
    BY <1>3, <2>1, <2>2 DEF Fetching
  <2>5. /\ call[c].since <= call[c].seen /\ call[c].started <= now
        /\ entry.invalidated < call[c].started => reported <= call[c].seen
    BY <2>1 DEF SeeInv, FetchSees
  <2>6. EntrySees'
    BY <1>3, <2>1, <2>2, <2>3, <2>4, <2>5 DEF EntrySees, Never
  <2> DEFINE s == [at |-> "answered", plan |-> call[c].plan, since |-> call[c].since,
                   answer |-> Answer(good, bad)]
  <2>7. s \in CallState
    BY <2>1 DEF CallState, Answered, Fetching, Answer
  <2>8. s.at = "answered" /\ s.since = call[c].since /\ call' = Settle(c, s)
    BY <2>2
  <2>9. Sees(s)
    BY <2>2, <2>4, <2>5 DEF Sees, Answer
  <2>10. call[c].since <= reported
    BY <2>1 DEF SeeInv, SinceReported
  <2> HIDE DEF s
  <2> QED
    BY <2>1, <2>6, <2>7, <2>8, <2>9, <2>10, SettleSees
<1>12. ASSUME NEW c \in Callers, UnwindFetch(c) PROVE SeeInv'
  <2>1. /\ call[c].at = "fetching" /\ UNCHANGED <<now, reported>> /\ call' = Settle(c, Idle)
        /\ entry \in EntryState /\ entry' = [entry EXCEPT !.inFlight = FALSE]
    BY <1>12 DEF UnwindFetch, SeeInv, OneFetch, CacheTyped
  <2>2. /\ entry'.attempted = entry.attempted /\ entry'.good = entry.good
        /\ entry'.error = entry.error /\ entry'.invalidated = entry.invalidated
    BY <2>1 DEF EntryState
  <2>3. EntrySees'
    BY <2>1, <2>2, EntryIsEntry DEF SeeInv, EntrySees
  <2>4. Idle \in CallState /\ Idle.at = "idle" /\ Sees(Idle)
    BY DEF CallState, Idle, Sees
  <2> QED
    BY <2>1, <2>3, <2>4, SettleSees
<1>13. CASE Report
  <2>1. /\ entry' = Invalidated /\ UNCHANGED <<now, call>>
        /\ reported' = linear + 1
    BY <1>13 DEF Report
  <2>2. EntrySees' /\ OneFetch' /\ FetchSees'
    BY <2>1, InvalidatedSees DEF SeeInv, OneFetch, FetchSees
  <2>3. SinceReported' /\ AnswersSee'
    <3>1. \A c \in Callers : call[c].at # "idle" => call[c].since \in Nat
      BY CallFields DEF CallState, Asked, Fetching, Answered, Idle
    <3> QED
      BY <1>3, <2>1, <3>1 DEF SeeInv, SinceReported, AnswersSee, Sees
  <2> QED
    BY <2>2, <2>3 DEF SeeInv
<1>14. CASE Refetch
  <2> DEFINE s == [at |-> "called", plan |-> binding, since |-> reported]
  <2>1. /\ s.at = "called" /\ s.since = reported /\ UNCHANGED <<entry, reported, now>>
        /\ call' = call \/ call' = [call EXCEPT ![Worker] = s]
    BY <1>14 DEF Refetch
  <2>2. call[Worker].at = "idle"
    BY <1>14 DEF Refetch, WorkerCall, Idle
  <2> HIDE DEF s
  <2>3. Sees(s) /\ s.since <= reported
    BY <1>3, <2>1 DEF Sees
  <2> QED
    BY <1>0, <1>4, <2>1, <2>2, <2>3, CallSees
<1>15. CASE Refetched
  <2>1. /\ call' = [call EXCEPT ![Worker] = Idle] /\ UNCHANGED <<entry, reported, now>>
        /\ call[Worker].at = "answered"
    BY <1>15 DEF Refetched
  <2>2. Idle.at = "idle" /\ Sees(Idle)
    BY DEF Idle, Sees
  <2> QED
    BY <1>0, <2>1, <2>2, CallSees
<1> QED
  BY <1>4, <1>5, <1>6, <1>7, <1>8, <1>9, <1>10, <1>11, <1>12, <1>13, <1>14, <1>15
  DEF Next, vars, Rebind, Schedule, StartPass, EndPass, ClearPass

(* A snapshot without an error that was asked for after linear.activity.   *)
(* record reported a Linear write holds that write, until the entry is     *)
(* removed: the fetch that was in flight when the report came is dated too *)
(* early to be served for it.                                              *)
THEOREM ReportsAreSeen ==
  ASSUME Worker \notin Readers
  PROVE  Spec => []ReadsSeeReports
<1> DEFINE Inv == CacheTyped /\ WorkerCall /\ WaitInv /\ (~removed => SeeInv)
<1>1. Init => Inv
  <2> SUFFICES ASSUME Init PROVE WaitInv /\ SeeInv
    BY TypedInit
  <2> QED
    BY DEF Init, WaitInv, SeeInv, OneFetch, FetchSees, EntrySees, SinceReported, AnswersSee, Sees,
           Idle, NoEntry
<1>2. Inv /\ [Next]_vars => Inv'
  BY TypedStep, WaitStep, SeeStep
<1>3. Inv => ReadsSeeReports
  <2> SUFFICES ASSUME Inv, ~removed, NEW c \in Callers, call[c].at = "answered",
                      ~call[c].answer.error, call[c].answer.good # NoGood
               PROVE  call[c].answer.good.version >= call[c].since
    BY DEF ReadsSeeReports
  <2>1. call[c].answer.good.version \in Int /\ call[c].since \in Nat
    BY CallFields DEF Answered, Good
  <2> QED
    BY <2>1 DEF SeeInv, AnswersSee, Sees
<1> QED
  BY <1>1, <1>2, <1>3, PTL DEF Spec

-----------------------------------------------------------------------------
(* Reports are followed by a pass.                                         *)

PassTyped == pass \in {"none", "waiting", "running", "again"}

(* A report that scheduled a refetch has its pass ahead of it: the         *)
(* Debouncer neither drops it nor folds it into a pass already running;    *)
(* only the unwinding of a refetch that panicked loses it.                 *)
THEOREM ReportsAreFollowed == Spec => RefetchFollowsReport
<1>1. Init => PassTyped /\ Followed
  BY DEF Init, PassTyped, Followed
<1>2. PassTyped /\ [Next]_vars =>
        /\ PassTyped'
        /\ [Followed \/ (reporting /\ ~reporting') =>
              Followed' \/ (working = "unwinding" /\ working' # working)]_vars
  <2> SUFFICES ASSUME PassTyped, [Next]_vars
               PROVE  /\ PassTyped'
                      /\ Followed \/ (reporting /\ ~reporting') \/ UNCHANGED vars =>
                           \/ Followed' \/ UNCHANGED vars
                           \/ working = "unwinding" /\ working' # working
    OBVIOUS
  <2> DEFINE Kept == PassTyped' /\ (Followed \/ (reporting /\ ~reporting') => Followed')
  <2>1. ASSUME UNCHANGED <<pass, due>>, reporting => reporting' PROVE Kept
    BY <2>1 DEF PassTyped, Followed
  <2>2. CASE Schedule
    BY <2>2 DEF Schedule, PassTyped, Followed
  <2>3. CASE StartPass
    BY <2>3 DEF StartPass, PassTyped, Followed
  <2>4. CASE EndPass
    BY <2>4 DEF EndPass, PassTyped, Followed
  <2>5. CASE ClearPass
    BY <2>5 DEF ClearPass, PassTyped
  <2>6. ASSUME NEW c \in Callers, UnwindFetch(c) PROVE Kept
    BY <2>1, <2>6 DEF UnwindFetch
  <2>7. ASSUME NEW c \in Callers, NEW ok \in BOOLEAN, FinishFetch(c, ok) PROVE Kept
    BY <2>1, <2>7 DEF FinishFetch
  <2>8. ASSUME UNCHANGED vars PROVE Kept
    BY <2>1, <2>8 DEF vars
  <2> HIDE DEF Kept
  <2>9. Kept \/ Schedule \/ StartPass \/ EndPass \/ ClearPass
    BY <2>1, <2>6, <2>7, <2>8
    DEF Next, Tick, Rebind, Snapshot, ForceRead, AnswerFresh, AwaitFetch, StartFetch, Report,
        Refetch, RemoveEntry, Refetched
  <2> QED
    BY <2>2, <2>3, <2>4, <2>5, <2>9 DEF Kept
<1> QED
  BY <1>1, <1>2, PTL DEF Spec, RefetchFollowsReport

-----------------------------------------------------------------------------
(* DaemonSocket: who holds the lock, and whose socket the path is.         *)

\* From the lock to the exit.
Held == {"recovering", "binding", "serving", "stopping", "closed", "leaving"}
\* A daemon whose socket may be at the path; one that will not listen again.
Past == {"serving", "stopping", "closed", "leaving", "gone"}
Silent == {"closed", "leaving", "gone"}

SocketTyped ==
  /\ started \in Nat /\ lock \in 0 .. MaxDaemons /\ path \in 0 .. MaxDaemons
  /\ DOMAIN daemon = Daemons /\ DOMAIN inode = Daemons /\ DOMAIN command = Commands
  /\ \A c \in Commands : {"at", "asked", "original", "failed", "looked"} \subseteq DOMAIN command[c]

\* Only the process that holds the lock gets past it.
HolderOnly == \A d \in Daemons : daemon[d] \in Held => lock = d

FreshNone == \A d \in Daemons : d > started => daemon[d] = "none"

PathBound == path # NoFile => daemon[path] \in Past

(* The file at which a connect failed is stale; the file that a command    *)
(* goes to unlink, as it saw it last, has the identity that it read first. *)
ShapedCommand(j) ==
  /\ j.failed # NoFile => j.failed \in Daemons /\ daemon[j.failed] \in Silent
  /\ j.at = "unlink" /\ j.looked # NoFile =>
       j.looked \in Daemons /\ daemon[j.looked] \in Past /\ inode[j.looked] = j.original

SocketInv ==
  /\ SocketTyped /\ HolderOnly /\ FreshNone /\ PathBound
  /\ \A c \in Commands : ShapedCommand(command[c])

(* Daemons go on, and only one that has not bound yet gets an inode.       *)
DaemonsGoOn ==
  \A d \in Daemons : /\ daemon[d] \in Past => daemon'[d] \in Past /\ inode'[d] = inode[d]
                     /\ daemon[d] \in Silent => daemon'[d] \in Silent

LEMMA GoOnKeepsShape ==
  ASSUME DaemonsGoOn, NEW j, ShapedCommand(j)
  PROVE  ShapedCommand(j)'
BY DEF DaemonsGoOn, ShapedCommand, Past, Silent

(* A step of one process, which has the lock before and after or neither.  *)
ProcessTo(d, step) ==
  /\ daemon' = [daemon EXCEPT ![d] = step] /\ command' = command
  /\ step = "none" \/ d <= started'
  /\ started' \in Nat /\ started <= started'
  /\ DOMAIN inode' = Daemons /\ \A e \in Daemons \ {d} : inode'[e] = inode[e]
  /\ daemon[d] \in Past => step \in Past /\ inode'[d] = inode[d]
  /\ daemon[d] \in Silent => step \in Silent
  /\ lock' \in 0 .. MaxDaemons /\ path' \in 0 .. MaxDaemons
  /\ step \in Held => lock' = d
  /\ lock' = lock \/ \A e \in Daemons \ {d} : daemon[e] \notin Held
  /\ path' = NoFile \/ path' = path \/ (path' = d /\ step \in Past)

LEMMA ProcessStep ==
  ASSUME MaxDaemons \in Nat, SocketInv, NEW d \in Daemons, NEW step, ProcessTo(d, step)
  PROVE  SocketInv'
<1> USE DEF ProcessTo
<1>1. DaemonsGoOn
  BY DEF DaemonsGoOn, SocketInv, SocketTyped
<1>2. SocketTyped'
  BY DEF SocketInv, SocketTyped
<1>3. HolderOnly'
  BY DEF SocketInv, SocketTyped, HolderOnly
<1>4. FreshNone'
  <2> SUFFICES ASSUME NEW e \in Daemons, e > started' PROVE daemon'[e] = "none"
    BY DEF FreshNone
  <2>1. e > started
    BY DEF Daemons, SocketInv, SocketTyped
  <2>2. CASE e = d
    <3>1. daemon'[d] = step
      BY DEF SocketInv, SocketTyped
    <3>2. ~(d <= started')
      BY <2>2 DEF Daemons
    <3> QED
      BY <2>2, <3>1, <3>2
  <2>3. CASE e # d
    BY <2>1, <2>3 DEF SocketInv, FreshNone, SocketTyped
  <2> QED
    BY <2>2, <2>3
<1>5. PathBound'
  <2>1. path \in Daemons \/ path = NoFile
    BY DEF SocketInv, SocketTyped, Daemons, NoFile
  <2> QED
    BY <1>1, <2>1 DEF PathBound, SocketInv, SocketTyped, DaemonsGoOn
<1>6. \A c \in Commands : ShapedCommand(command[c])'
  BY <1>1, GoOnKeepsShape DEF SocketInv
<1> QED
  BY <1>2, <1>3, <1>4, <1>5, <1>6 DEF SocketInv

(* A step of one command, which may take the path away.                    *)
LEMMA CommandStep ==
  ASSUME MaxDaemons \in Nat, SocketInv, NEW c \in Commands,
         UNCHANGED <<started, daemon, lock, inode>>, path' \in {path, NoFile},
         DOMAIN command' = Commands, \A b \in Commands \ {c} : command'[b] = command[b],
         {"at", "asked", "original", "failed", "looked"} \subseteq DOMAIN command'[c],
         ShapedCommand(command'[c])
  PROVE  SocketInv'
<1>1. SocketTyped'
  <2>1. path' \in 0 .. MaxDaemons
    BY DEF SocketInv, SocketTyped, NoFile
  <2> QED
    BY <2>1 DEF SocketInv, SocketTyped
<1>2. HolderOnly' /\ FreshNone' /\ PathBound'
  BY DEF SocketInv, HolderOnly, FreshNone, PathBound
<1>3. \A b \in Commands : ShapedCommand(command'[b])
  BY DEF SocketInv
<1> QED
  BY <1>1, <1>2, <1>3 DEF SocketInv, ShapedCommand

LEMMA RestIsIdle ==
  /\ {"at", "asked", "original", "failed", "looked"} \subseteq DOMAIN Rest
  /\ Rest.at = "idle" /\ Rest.failed = NoFile /\ Rest.looked = NoFile
BY DEF Rest

LEMMA EndsKeepsSocket ==
  ASSUME MaxDaemons \in Nat, SocketInv, NEW c \in Commands, Ends(c),
         UNCHANGED <<started, daemon, lock, inode>>, path' \in {path, NoFile}
  PROVE  SocketInv'
<1>1. ShapedCommand(Rest)
  BY RestIsIdle DEF ShapedCommand
<1> QED
  BY <1>1, RestIsIdle, CommandStep DEF Ends, SocketInv, SocketTyped

(* A step to another place than the unlink.                                *)
LEMMA DoesKeepsSocket ==
  ASSUME MaxDaemons \in Nat, SocketInv, NEW c \in Commands, NEW step, step # "unlink",
         Does(c, step), UNCHANGED <<started, daemon, lock, inode>>, path' \in {path, NoFile}
  PROVE  SocketInv'
<1>1. /\ DOMAIN command' = Commands /\ \A b \in Commands \ {c} : command'[b] = command[b]
      /\ DOMAIN command'[c] = DOMAIN command[c]
      /\ command'[c].at = step /\ command'[c].failed = command[c].failed
  BY DEF Does, SocketInv, SocketTyped
<1>2. ShapedCommand(command'[c])
  BY <1>1 DEF ShapedCommand, SocketInv
<1> QED
  BY <1>1, <1>2, CommandStep DEF SocketInv, SocketTyped

LEMMA DaemonStep ==
  ASSUME MaxDaemons \in Nat, SocketInv, NEW d \in Daemons,
         \/ Acquire(d) \/ RemoveStale(d) \/ Bind(d) \/ Told(d) \/ StopAccepting(d)
         \/ RemoveOwn(d) \/ Exit(d) \/ Crash(d)
  PROVE  SocketInv'
<1>1. /\ started \in Nat /\ lock \in 0 .. MaxDaemons /\ path \in 0 .. MaxDaemons
      /\ DOMAIN inode = Daemons /\ d \in 1 .. MaxDaemons /\ NoFile = 0
  BY DEF SocketInv, SocketTyped, Daemons, NoFile
<1>2. daemon[d] # "none" => d <= started
  BY <1>1 DEF SocketInv, FreshNone
<1>3. daemon[d] \in Held => lock = d
  BY DEF SocketInv, HolderOnly
<1>4. lock = 0 \/ lock = d => \A e \in Daemons \ {d} : daemon[e] \notin Held
  BY DEF SocketInv, HolderOnly, Daemons
<1>5. CASE Acquire(d)
  <2>1. UNCHANGED <<started, path, inode, command>> /\ daemon[d] = "spawned"
    BY <1>5 DEF Acquire
  <2>2. CASE lock = 0
    <3>1. lock' = d /\ daemon' = [daemon EXCEPT ![d] = "recovering"]
      BY <1>5, <2>2 DEF Acquire, Now
    <3>2. daemon[d] \notin Past /\ daemon[d] \notin Silent
      BY <2>1 DEF Past, Silent
    <3>9. ProcessTo(d, "recovering")
      BY <1>1, <1>2, <1>4, <2>1, <2>2, <3>1, <3>2 DEF ProcessTo
    <3> QED
      BY <3>9, ProcessStep
  <2>3. CASE lock # 0
    <3>1. lock' = lock /\ daemon' = [daemon EXCEPT ![d] = "gone"]
      BY <1>5, <2>3 DEF Acquire, Now
    <3>2. daemon[d] \notin Past /\ daemon[d] \notin Silent /\ "gone" \notin Held
      BY <2>1 DEF Past, Silent, Held
    <3>9. ProcessTo(d, "gone")
      BY <1>1, <1>2, <2>1, <3>1, <3>2 DEF ProcessTo
    <3> QED
      BY <3>9, ProcessStep
  <2> QED
    BY <2>2, <2>3
<1>6. CASE RemoveStale(d)
  <2>1. /\ UNCHANGED <<started, lock, inode, command>> /\ daemon[d] = "recovering" /\ path' = 0
        /\ daemon' = [daemon EXCEPT ![d] = "binding"]
    BY <1>1, <1>6 DEF RemoveStale, Now
  <2>2. daemon[d] \notin Past /\ daemon[d] \notin Silent /\ daemon[d] \in Held
    BY <2>1 DEF Past, Silent, Held
  <2>3. path' \in 0 .. MaxDaemons
    BY <1>1, <2>1
  <2>9. ProcessTo(d, "binding")
    BY <1>1, <1>2, <1>3, <2>1, <2>2, <2>3 DEF ProcessTo
  <2> QED
    BY <2>9, ProcessStep
<1>7. CASE Bind(d)
  <2>1. /\ UNCHANGED <<started, lock, command>> /\ daemon[d] = "binding" /\ path' = d
        /\ daemon' = [daemon EXCEPT ![d] = "serving"]
        /\ \E i : inode' = [inode EXCEPT ![d] = i]
    BY <1>7 DEF Bind, Now
  <2>2. /\ daemon[d] \notin Past /\ daemon[d] \notin Silent /\ daemon[d] \in Held
        /\ "serving" \in Past
    BY <2>1 DEF Past, Silent, Held
  <2>3. DOMAIN inode' = Daemons /\ \A e \in Daemons \ {d} : inode'[e] = inode[e]
    BY <1>1, <2>1
  <2>4. path' \in 0 .. MaxDaemons
    BY <1>1, <2>1
  <2>9. ProcessTo(d, "serving")
    BY <1>1, <1>2, <1>3, <2>1, <2>2, <2>3, <2>4 DEF ProcessTo
  <2> QED
    BY <2>9, ProcessStep
<1>8. CASE Told(d) \/ StopAccepting(d) \/ RemoveOwn(d)
  <2>1. PICK step \in {"stopping", "closed", "leaving"} :
          /\ UNCHANGED <<started, lock, inode, command>>
          /\ daemon' = [daemon EXCEPT ![d] = step] /\ path' \in {path, 0}
          /\ daemon[d] \in {"serving", "stopping", "closed"}
          /\ daemon[d] = "closed" => step = "leaving"
    BY <1>1, <1>8 DEF Told, StopAccepting, RemoveOwn, Now
  <2>2. /\ daemon[d] \in Held /\ step \in Past
        /\ daemon[d] \in Silent => step \in Silent
    BY <2>1 DEF Past, Silent, Held
  <2>3. path' \in 0 .. MaxDaemons
    BY <1>1, <2>1
  <2>9. ProcessTo(d, step)
    BY <1>1, <1>2, <1>3, <2>1, <2>2, <2>3 DEF ProcessTo
  <2> QED
    BY <2>9, ProcessStep
<1>9. CASE Exit(d) \/ Crash(d)
  <2>1. /\ UNCHANGED <<started, path, inode, command>> /\ lock' = 0 /\ daemon[d] \in Held
        /\ daemon' = [daemon EXCEPT ![d] = "gone"]
    BY <1>9 DEF Exit, Crash, Now, Held
  <2>2. "gone" \in Past /\ "gone" \in Silent /\ "gone" \notin Held /\ daemon[d] # "none"
    BY <2>1 DEF Past, Silent, Held
  <2>3. \A e \in Daemons \ {d} : daemon[e] \notin Held
    BY <1>3, <1>4, <2>1
  <2>4. lock' \in 0 .. MaxDaemons
    BY <1>1, <2>1
  <2>9. ProcessTo(d, "gone")
    BY <1>1, <1>2, <2>1, <2>2, <2>3, <2>4 DEF ProcessTo
  <2> QED
    BY <2>9, ProcessStep
<1> QED
  BY <1>5, <1>6, <1>7, <1>8, <1>9

LEMMA StopStep ==
  ASSUME MaxDaemons \in Nat, SocketInv, NEW c \in Commands,
         \/ ConnectOrStart(c) \/ Retry(c) \/ Identify(c) \/ Ask(c) \/ Wait(c)
         \/ Recheck(c) \/ Compare(c) \/ CompareAgain(c) \/ Unlink(c) \/ Confirm(c)
  PROVE  SocketInv'
<1>1. /\ started \in Nat /\ lock \in 0 .. MaxDaemons /\ path \in 0 .. MaxDaemons
      /\ DOMAIN inode = Daemons /\ NoFile = 0
      /\ path # NoFile => path \in Daemons /\ daemon[path] \in Past
  BY DEF SocketInv, SocketTyped, PathBound, Daemons, NoFile
<1>2. CASE /\ UNCHANGED <<started, daemon, lock, inode>> /\ path' \in {path, NoFile}
           /\ Ends(c) \/ \E step : step # "unlink" /\ Does(c, step)
  BY <1>2, EndsKeepsSocket, DoesKeepsSocket
<1>3. CASE ConnectOrStart(c)
  <2>1. CASE Connects
    <3>1. UNCHANGED <<started, daemon, lock, path, inode, command>>
      BY <1>3, <2>1 DEF ConnectOrStart
    <3> QED
      BY <3>1, CommandStep DEF SocketInv, SocketTyped
  <2>2. CASE ~Connects
    <3> DEFINE d == started + 1
    <3>1. /\ started < MaxDaemons /\ started' = d /\ daemon' = [daemon EXCEPT ![d] = "spawned"]
          /\ Does(c, "retrying") /\ UNCHANGED <<lock, path, inode>>
      BY <1>3, <2>2 DEF ConnectOrStart, Now
    <3>2. d \in Daemons /\ d > started
      BY <1>1, <3>1 DEF Daemons
    <3>3. daemon[d] \notin Past /\ daemon[d] \notin Silent /\ "spawned" \notin Held
      BY <3>2 DEF SocketInv, FreshNone, Past, Silent, Held
    <3>4. SocketTyped' /\ HolderOnly' /\ PathBound'
      BY <1>1, <3>1, <3>2, <3>3 DEF SocketInv, SocketTyped, HolderOnly, PathBound, Does
    <3>5. FreshNone'
      <4> SUFFICES ASSUME NEW e \in Daemons, e > d PROVE daemon'[e] = "none"
        BY <3>1 DEF FreshNone
      <4>1. e > started /\ e # d
        BY <1>1 DEF Daemons
      <4> QED
        BY <3>1, <4>1 DEF SocketInv, SocketTyped, FreshNone
    <3>6. DaemonsGoOn
      BY <3>1, <3>3 DEF DaemonsGoOn, SocketInv, SocketTyped
    <3>7. \A b \in Commands : ShapedCommand(command[b])'
      <4> SUFFICES ASSUME NEW b \in Commands, NEW j, j = command'[b] PROVE ShapedCommand(j)'
        BY DEF ShapedCommand
      <4>1. ShapedCommand(j)
        <5>1. /\ b # c => j = command[b]
              /\ b = c => j.at = "retrying" /\ j.failed = command[c].failed
          BY <3>1 DEF Does, SocketInv, SocketTyped
        <5> QED
          BY <5>1 DEF ShapedCommand, SocketInv
      <4> QED
        BY <3>6, <4>1, GoOnKeepsShape
    <3> QED
      BY <3>4, <3>5, <3>7 DEF SocketInv
  <2> QED
    BY <2>1, <2>2
<1>4. CASE Identify(c)
  <2>1. PICK j : j = [Rest EXCEPT !.at = "ask", !.original = file_identity]
    OBVIOUS
  <2>2. command' = [command EXCEPT ![c] = j] /\ OnlyCommand
    BY <1>4, <2>1 DEF Identify
  <2>3. /\ {"at", "asked", "original", "failed", "looked"} \subseteq DOMAIN j
        /\ j.at = "ask" /\ j.failed = NoFile
    BY <2>1, RestIsIdle
  <2>4. ShapedCommand(j)
    BY <2>3 DEF ShapedCommand
  <2> QED
    BY <2>2, <2>3, <2>4, CommandStep DEF SocketInv, SocketTyped, OnlyCommand
<1>5. CASE /\ Ask(c) /\ Connects /\ Now(path, "stopping")
           /\ command' = [command EXCEPT ![c].at = "wait", ![c].asked = TRUE]
  <2>1. /\ daemon' = [daemon EXCEPT ![path] = "stopping"]
        /\ command' = [command EXCEPT ![c].at = "wait", ![c].asked = TRUE]
        /\ UNCHANGED <<started, lock, path, inode>>
        /\ path \in Daemons /\ daemon[path] \in {"serving", "stopping"}
    BY <1>1, <1>5 DEF Ask, Connects, Listening, Now
  <2>2. DaemonsGoOn
    BY <2>1 DEF DaemonsGoOn, SocketInv, SocketTyped, Past, Silent
  <2>3. SocketTyped' /\ HolderOnly' /\ PathBound'
    BY <2>1 DEF SocketInv, SocketTyped, HolderOnly, PathBound, Held, Past
  <2>4. FreshNone'
    BY <2>1 DEF SocketInv, SocketTyped, FreshNone
  <2>5. \A b \in Commands : ShapedCommand(command[b])'
    <3> SUFFICES ASSUME NEW b \in Commands, NEW j, j = command'[b] PROVE ShapedCommand(j)'
      BY DEF ShapedCommand
    <3>1. /\ b # c => j = command[b]
          /\ b = c => j.at = "wait" /\ j.failed = command[c].failed
      BY <2>1 DEF SocketInv, SocketTyped
    <3>2. ShapedCommand(j)
      BY <3>1 DEF ShapedCommand, SocketInv
    <3> QED
      BY <2>2, <3>2, GoOnKeepsShape
  <2> QED
    BY <2>3, <2>4, <2>5 DEF SocketInv
<1>6. CASE Recheck(c) /\ ~Connects
  <2>1. /\ command' = [command EXCEPT ![c].at = "compare", ![c].failed = path] /\ OnlyCommand
        /\ path # NoFile => daemon[path] \in Silent
    BY <1>1, <1>6 DEF Recheck, Connects, Listening, Past, Silent
  <2>2. /\ DOMAIN command' = Commands /\ \A b \in Commands \ {c} : command'[b] = command[b]
        /\ DOMAIN command'[c] = DOMAIN command[c]
        /\ command'[c].at = "compare" /\ command'[c].failed = path
    BY <2>1 DEF SocketInv, SocketTyped
  <2>3. ShapedCommand(command'[c])
    BY <1>1, <2>1, <2>2 DEF ShapedCommand
  <2> QED
    BY <2>1, <2>2, <2>3, CommandStep DEF SocketInv, SocketTyped, OnlyCommand
<1>7. CASE CompareAgain(c) /\ ~Ends(c)
  <2>1. /\ command' = [command EXCEPT ![c].at = "unlink", ![c].looked = path] /\ OnlyCommand
        /\ path # NoFile => inode[path] = command[c].original
    BY <1>7 DEF CompareAgain, file_identity
  <2>2. /\ DOMAIN command' = Commands /\ \A b \in Commands \ {c} : command'[b] = command[b]
        /\ DOMAIN command'[c] = DOMAIN command[c]
        /\ command'[c].failed = command[c].failed /\ command'[c].looked = path
        /\ command'[c].original = command[c].original
    BY <2>1 DEF SocketInv, SocketTyped
  <2>3. ShapedCommand(command'[c])
    BY <1>1, <2>1, <2>2 DEF ShapedCommand, SocketInv
  <2> QED
    BY <2>1, <2>2, <2>3, CommandStep DEF SocketInv, SocketTyped, OnlyCommand
<1>8. CASE Retry(c) \/ Confirm(c)
  BY <1>2, <1>8 DEF Retry, Confirm, OnlyCommand
<1>9. CASE Ask(c) /\ UNCHANGED daemon /\ (Ends(c) \/ Does(c, "check"))
  <2>1. /\ UNCHANGED <<started, daemon, lock, inode>> /\ path' = path
        /\ Ends(c) \/ Does(c, "check")
    BY <1>9 DEF Ask
  <2> QED
    BY <1>2, <2>1
<1>10. CASE Wait(c) \/ Compare(c)
  <2>1. /\ UNCHANGED <<started, daemon, lock, inode>> /\ path' = path
        /\ Ends(c) \/ Does(c, "check") \/ Does(c, "again")
    BY <1>10 DEF Wait, Compare, OnlyCommand
  <2> QED
    BY <1>2, <2>1
<1>11. CASE Recheck(c) /\ Connects
  <2>1. /\ UNCHANGED <<started, daemon, lock, inode>> /\ path' = path
        /\ Ends(c) \/ Does(c, "wait")
    BY <1>11 DEF Recheck, OnlyCommand
  <2> QED
    BY <1>2, <2>1
<1>12. CASE CompareAgain(c) /\ Ends(c)
  BY <1>2, <1>12 DEF CompareAgain, OnlyCommand
<1>13. CASE Unlink(c)
  <2>1. /\ UNCHANGED <<started, daemon, lock, inode>> /\ path' = NoFile
        /\ Ends(c) \/ Does(c, "unlinked")
    BY <1>13 DEF Unlink
  <2> QED
    BY <1>2, <2>1
<1> QED
  BY <1>3, <1>4, <1>5, <1>6, <1>7, <1>8, <1>9, <1>10, <1>11, <1>12, <1>13 DEF Ask

-----------------------------------------------------------------------------
(* The path of a daemon that accepts connections is taken away by nobody   *)
(* but a stop command that had found another, stale file there when its    *)
(* connect failed, and whose last look found that file too, or a file with *)
(* its inode: singleton::acquire lets one process at a time recover, clear *)
(* the path, bind and clean up, however the processes that lose the race,  *)
(* stop or crash are interleaved, and whichever inodes are given again.    *)
THEOREM ListeningPathKept ==
  ASSUME MaxDaemons \in Nat
  PROVE  SocketSpec => ServedPathIsMine
<1>1. SocketInit => SocketInv
  <2> SUFFICES ASSUME SocketInit PROVE SocketInv
    OBVIOUS
  <2>1. \A c \in Commands : command[c] = Rest
    BY DEF SocketInit
  <2>2. \A c \in Commands : ShapedCommand(command[c])
    BY <2>1, RestIsIdle DEF ShapedCommand
  <2>3. SocketTyped
    BY <2>1, RestIsIdle DEF SocketInit, SocketTyped, NoFile
  <2> QED
    BY <2>2, <2>3 DEF SocketInit, SocketInv, HolderOnly, FreshNone, PathBound, NoFile, Held
<1>2. SocketInv /\ [SocketNext]_socketVars => SocketInv'
  <2> SUFFICES ASSUME SocketInv, [SocketNext]_socketVars PROVE SocketInv'
    OBVIOUS
  <2>1. CASE UNCHANGED socketVars
    BY <2>1 DEF socketVars, SocketInv, SocketTyped, HolderOnly, FreshNone, PathBound, ShapedCommand
  <2> QED
    BY <2>1, DaemonStep, StopStep DEF SocketNext
<1>3. SocketInv /\ [SocketNext]_socketVars =>
        [\A d \in Daemons :
           Listening(d) /\ path = d /\ path' # d /\ daemon'[d] = daemon[d] =>
             \E c \in Commands :
                /\ command[c].at = "unlink" /\ command'[c].at = "unlinked"
                /\ command[c].failed # d
                /\ command[c].looked = d => inode[d] = command[c].original]_socketVars
  <2> SUFFICES ASSUME SocketInv, SocketNext, NEW d \in Daemons,
                      Listening(d), path = d, path' # d
               PROVE  \E c \in Commands :
                        /\ command[c].at = "unlink" /\ command'[c].at = "unlinked"
                        /\ command[c].failed # d
                        /\ command[c].looked = d => inode[d] = command[c].original
    OBVIOUS
  <2>1. lock = d /\ d # NoFile /\ daemon[d] \in {"serving", "stopping"}
    BY DEF Listening, SocketInv, HolderOnly, Held, Daemons, NoFile
  <2>2. \A e \in Daemons : ~RemoveStale(e) /\ ~RemoveOwn(e)
    BY <2>1 DEF RemoveStale, RemoveOwn, SocketInv, HolderOnly, Held
  <2>3. \A e \in Daemons : ~Bind(e)
    BY <2>1 DEF Bind
  <2>4. \A e \in Daemons : ~(Acquire(e) \/ Told(e) \/ StopAccepting(e) \/ Exit(e) \/ Crash(e))
    BY DEF Acquire, Told, StopAccepting, Exit, Crash
  <2>5. PICK c \in Commands :
          \/ ConnectOrStart(c) \/ Retry(c) \/ Identify(c) \/ Ask(c) \/ Wait(c)
          \/ Recheck(c) \/ Compare(c) \/ CompareAgain(c) \/ Unlink(c) \/ Confirm(c)
    BY <2>2, <2>3, <2>4 DEF SocketNext
  <2>6. Unlink(c)
    BY <2>5 DEF ConnectOrStart, Retry, Identify, Ask, Wait, Recheck, Compare, CompareAgain,
                Confirm, OnlyCommand
  <2>7. command[c].at = "unlink" /\ Does(c, "unlinked")
    BY <2>1, <2>6 DEF Unlink
  <2>8. command'[c].at = "unlinked"
    BY <2>7 DEF Does, SocketInv, SocketTyped
  <2>9. ShapedCommand(command[c])
    BY DEF SocketInv
  <2> QED
    BY <2>1, <2>7, <2>8, <2>9 DEF ShapedCommand, Silent
<1> QED
  BY <1>1, <1>2, <1>3, PTL DEF SocketSpec, ServedPathIsMine

-----------------------------------------------------------------------------
(* IssuePage: the reads of the page that is open.                          *)

(* A page on the walk was left with the document of its own issue.         *)
Left == {s \in [issue : Issues, doc : [issue : Issues, read : Nat], seeded : BOOLEAN] :
           s.doc.issue = s.issue /\ s.doc.read <= reads}

PageTyped ==
  /\ page \in Issues \cup {NoIssue} /\ seeded \in BOOLEAN /\ reads \in Nat
  /\ doc \in [issue : Issues, read : Nat] \cup {NoDoc}
  /\ loading \in [issue : Issues, read : Nat] \cup {NoDoc}
  /\ running \subseteq [issue : Issues, read : Nat \ {0}]

(* The read that is waited for is the last one that was started, and it is *)
(* newer than every document.                                              *)
LastRead ==
  /\ loading # NoDoc => loading \in running /\ loading.read = reads
  /\ \A r \in running : r.read <= reads
  /\ \A r, s \in running : r.read = s.read => r = s
  /\ doc.read <= reads

NewerThanShown ==
  loading # NoDoc => /\ doc.issue \in {loading.issue, NoIssue} /\ doc.read < reads
                     /\ \A k \in DOMAIN walk : walk[k].doc.read < reads

ScreenFits ==
  /\ screen = "page" => page # NoIssue
  /\ screen = "board" => page = NoIssue

PageInv ==
  PageTyped /\ walk \in Seq(Left) /\ ScreenFits /\ LastRead /\ NewerThanShown /\ NoStuckPage

(* What a request for a read leaves, for a page whose document d is its    *)
(* own or none.                                                            *)
LEMMA RequestKeepsReads ==
  ASSUME NoIssue \notin Issues, PageTyped, LastRead, NewerThanShown,
         NEW i \in Issues, NEW d \in [issue : Issues, read : Nat] \cup {NoDoc}, NEW error,
         d.read <= reads,
         loading.issue = i => d.issue \in {i, NoIssue} /\ d.read < reads,
         RequestIssue(i, d, error), page' = i, seeded' \in BOOLEAN,
         \A k \in DOMAIN walk' : walk'[k].doc.read \in Nat /\ walk'[k].doc.read <= reads,
         loading.issue = i => \A k \in DOMAIN walk' : walk'[k].doc.read < reads
  PROVE  PageTyped' /\ LastRead' /\ NewerThanShown' /\ NoStuckPage' /\ reads <= reads'
<1>1. CASE loading.issue = i
  <2>1. UNCHANGED <<loading, reads, running>> /\ doc' = d
    BY <1>1 DEF RequestIssue
  <2>2. loading # NoDoc
    BY <1>1 DEF NoDoc
  <2>3. PageTyped' /\ LastRead'
    BY <2>1 DEF PageTyped, LastRead
  <2>4. NewerThanShown'
    BY <1>1, <2>1 DEF NewerThanShown
  <2>5. NoStuckPage'
    BY <1>1, <2>1, <2>2 DEF NoStuckPage, LastRead
  <2> QED
    BY <2>1, <2>3, <2>4, <2>5 DEF PageTyped
<1>2. CASE loading.issue # i
  <2> DEFINE new == [issue |-> i, read |-> reads + 1]
  <2>1. /\ reads' = reads + 1 /\ loading' = new
        /\ running' = running \cup {new}
        /\ doc' = IF d.issue = i THEN d ELSE NoDoc
    BY <1>2 DEF RequestIssue
  <2>2. new \in [issue : Issues, read : Nat \ {0}] /\ new.issue = i /\ new.read = reads + 1
    BY DEF PageTyped
  <2>3. NoDoc.issue = NoIssue /\ NoDoc.read = 0
    BY DEF NoDoc
  <2> HIDE DEF new
  <2>4. /\ doc' \in [issue : Issues, read : Nat] \cup {NoDoc}
        /\ doc'.issue \in {i, NoIssue} /\ doc'.read < reads'
    BY <2>1, <2>3 DEF PageTyped
  <2>5. PageTyped'
    BY <2>1, <2>2, <2>4 DEF PageTyped
  <2>6. LastRead'
    <3>1. \A r \in running : r.read # new.read
      BY <2>2 DEF LastRead, PageTyped
    <3>2. loading' # NoDoc => loading' \in running' /\ loading'.read = reads'
      BY <2>1, <2>2
    <3>3. \A r \in running' : r.read <= reads'
      BY <2>1, <2>2 DEF LastRead, PageTyped
    <3>4. \A r, s \in running' : r.read = s.read => r = s
      BY <2>1, <3>1 DEF LastRead
    <3>5. doc'.read <= reads'
      <4>1. doc'.read \in Nat /\ reads' \in Nat
        BY <2>1, <2>3, <2>4 DEF PageTyped
      <4> QED
        BY <2>4, <4>1
    <3> QED
      BY <3>2, <3>3, <3>4, <3>5 DEF LastRead
  <2>7. NewerThanShown'
    <3>1. loading'.issue = i
      BY <2>1, <2>2
    <3>2. \A k \in DOMAIN walk' : walk'[k].doc.read < reads'
      BY <2>1 DEF PageTyped
    <3> QED
      BY <2>4, <3>1, <3>2 DEF NewerThanShown
  <2>8. NoStuckPage'
    BY <2>1, <2>2, <2>4 DEF NoStuckPage
  <2> QED
    BY <2>1, <2>5, <2>6, <2>7, <2>8 DEF PageTyped
<1> QED
  BY <1>1, <1>2

LEMMA LeftGrows ==
  ASSUME walk \in Seq(Left), reads \in Nat, reads' \in Nat, reads <= reads'
  PROVE  walk \in Seq(Left')
<1>1. Left \subseteq Left'
  BY DEF Left
<1> QED
  BY <1>1, SeqMonotonic

(* The document of a step of the walk.                                     *)
LEMMA LeftDocs ==
  ASSUME walk \in Seq(Left), NEW k \in DOMAIN walk
  PROVE  /\ walk[k].issue \in Issues /\ walk[k].seeded \in BOOLEAN
         /\ walk[k].doc \in [issue : Issues, read : Nat]
         /\ walk[k].doc.issue = walk[k].issue /\ walk[k].doc.read <= reads
BY DEF Left

LEMMA PageStep ==
  ASSUME NoIssue \notin Issues, PageInv, [PageNext]_pageVars
  PROVE  PageInv'
<1> USE DEF PageInv
<1>1. ASSUME NEW i \in Issues, OpenCard(i) PROVE PageInv'
  <2>1. walk' = <<>> /\ page' = i /\ seeded' = FALSE /\ RequestIssue(i, doc, failed)
    BY <1>1 DEF OpenCard
  <2>4. DOMAIN walk' = {} /\ walk' \in Seq(Left')
    BY <2>1, EmptySeq
  <2>2. /\ loading.issue = i => doc.issue \in {i, NoIssue} /\ doc.read < reads
        /\ doc.read <= reads
    BY DEF NewerThanShown, LastRead, NoDoc
  <2>3. PageTyped' /\ LastRead' /\ NewerThanShown' /\ NoStuckPage'
    BY <2>1, <2>2, <2>4, RequestKeepsReads DEF PageTyped
  <2>5. ScreenFits'
    BY <1>1, <2>1 DEF OpenCard, ScreenFits
  <2> QED
    BY <2>3, <2>4, <2>5
<1>2. ASSUME NEW i \in Issues, ShowTarget(i) PROVE PageInv'
  <2>1. walk' = <<>> /\ page' = i /\ seeded' = TRUE /\ RequestIssue(i, NoDoc, NoIssue)
    BY <1>2 DEF ShowTarget
  <2>4. DOMAIN walk' = {} /\ walk' \in Seq(Left')
    BY <2>1, EmptySeq
  <2>2. /\ loading.issue = i => NoDoc.issue \in {i, NoIssue} /\ NoDoc.read < reads
        /\ NoDoc.read <= reads
    BY DEF NewerThanShown, LastRead, NoDoc, PageTyped
  <2>3. PageTyped' /\ LastRead' /\ NewerThanShown' /\ NoStuckPage'
    BY <2>1, <2>2, <2>4, RequestKeepsReads DEF PageTyped
  <2>5. ScreenFits'
    BY <1>2, <2>1 DEF ShowTarget, ScreenFits
  <2> QED
    BY <2>3, <2>4, <2>5
<1>3. ASSUME NEW i \in Issues, OpenLinked(i) PROVE PageInv'
  <2> DEFINE here == [issue |-> page, doc |-> doc, seeded |-> seeded]
             steps == Append(walk, here)
  <2>1. /\ walk' = IF Len(steps) > StackMax THEN Tail(steps) ELSE steps
        /\ doc.issue = page /\ page' = i /\ seeded' = TRUE /\ RequestIssue(i, NoDoc, NoIssue)
    BY <1>3 DEF OpenLinked
  <2>10. screen = "page" /\ screen' = screen
    BY <1>3 DEF OpenLinked
  <2>2. page \in Issues /\ doc \in [issue : Issues, read : Nat]
    BY <2>1, <2>10 DEF PageTyped, NoDoc, ScreenFits
  <2>3. here \in Left /\ here.doc = doc
    BY <2>1, <2>2 DEF Left, PageTyped, LastRead
  <2> HIDE DEF here
  <2>4. steps \in Seq(Left) /\ Len(steps) = Len(walk) + 1
        /\ \A k \in 1 .. Len(steps) : steps[k] = here \/ \E j \in DOMAIN walk : steps[k] = walk[j]
    BY <2>3, AppendProperties
  <2> HIDE DEF steps
  <2>5. /\ walk' \in Seq(Left)
        /\ \A k \in DOMAIN walk' : walk'[k] = here \/ \E j \in DOMAIN walk : walk'[k] = walk[j]
    <3>1. CASE walk' = steps
      BY <2>4, <3>1
    <3>2. CASE walk' = Tail(steps)
      <4>1. steps # << >>
        BY <2>4
      <4>2. walk' \in Seq(Left) /\ Len(walk') = Len(steps) - 1
            /\ \A k \in 1 .. Len(walk') : walk'[k] = steps[k + 1]
        BY <2>4, <3>2, <4>1, HeadTailProperties
      <4>3. \A k \in DOMAIN walk' : k + 1 \in 1 .. Len(steps) /\ walk'[k] = steps[k + 1]
        BY <2>4, <4>2
      <4> QED
        BY <2>4, <4>2, <4>3
    <3> QED
      BY <2>1, <3>1, <3>2
  <2>6. /\ loading.issue = i => NoDoc.issue \in {i, NoIssue} /\ NoDoc.read < reads
        /\ NoDoc.read <= reads
    BY DEF NewerThanShown, LastRead, NoDoc, PageTyped
  <2>7. /\ \A k \in DOMAIN walk' : walk'[k].doc.read \in Nat /\ walk'[k].doc.read <= reads
        /\ loading.issue = i => \A k \in DOMAIN walk' : walk'[k].doc.read < reads
    <3>1. \A k \in DOMAIN walk : walk[k].doc.read \in Nat /\ walk[k].doc.read <= reads
      BY LeftDocs
    <3>2. loading.issue = i => loading # NoDoc
      BY DEF NoDoc
    <3> QED
      BY <2>2, <2>3, <2>5, <3>1, <3>2 DEF NewerThanShown, LastRead
  <2>8. PageTyped' /\ LastRead' /\ NewerThanShown' /\ NoStuckPage' /\ reads <= reads'
    BY <2>1, <2>6, <2>7, RequestKeepsReads DEF PageTyped
  <2>9. walk' \in Seq(Left')
    <3>1. Left \subseteq Left'
      BY <2>8 DEF Left, PageTyped
    <3> QED
      BY <2>5, <3>1, SeqMonotonic
  <2>11. ScreenFits'
    BY <2>1, <2>10 DEF ScreenFits
  <2> QED
    BY <2>8, <2>9, <2>11
<1>4. CASE StepBack
  <2>1. walk # <<>> /\ Len(walk) \in Nat /\ Len(walk) > 0 /\ DOMAIN walk = 1 .. Len(walk)
    BY <1>4, EmptySeq DEF StepBack
  <2>2. PICK step : step = walk[Len(walk)]
    OBVIOUS
  <2>3. /\ page' = step.issue /\ seeded' = step.seeded
        /\ RequestIssue(step.issue, step.doc, NoIssue)
        /\ walk' = SubSeq(walk, 1, Len(walk) - 1)
    BY <1>4, <2>2 DEF StepBack, Last, Front
  <2>4. /\ walk' \in Seq(Left) /\ Len(walk') = Len(walk) - 1
        /\ \A k \in 1 .. Len(walk') : walk'[k] = walk[k]
    BY <2>1, <2>3, SubSeqProperties
  <2>5. /\ step.issue \in Issues /\ step.seeded \in BOOLEAN
        /\ step.doc \in [issue : Issues, read : Nat]
        /\ step.doc.issue = step.issue /\ step.doc.read <= reads
    BY <2>1, <2>2, LeftDocs
  <2>6. \A k \in DOMAIN walk' : k \in DOMAIN walk /\ walk'[k] = walk[k]
    BY <2>1, <2>4
  <2>7. \A k \in DOMAIN walk : walk[k].doc.read \in Nat /\ walk[k].doc.read <= reads
    BY LeftDocs
  <2>8. loading.issue = step.issue => loading # NoDoc
    BY <2>5 DEF NoDoc
  <2>9. /\ loading.issue = step.issue => step.doc.read < reads
        /\ loading.issue = step.issue => \A k \in DOMAIN walk' : walk'[k].doc.read < reads
    BY <2>1, <2>2, <2>6, <2>8 DEF NewerThanShown
  <2>10. PageTyped' /\ LastRead' /\ NewerThanShown' /\ NoStuckPage' /\ reads <= reads'
    BY <2>3, <2>5, <2>6, <2>7, <2>9, RequestKeepsReads
  <2>11. walk' \in Seq(Left')
    <3>1. Left \subseteq Left'
      BY <2>10 DEF Left, PageTyped
    <3> QED
      BY <2>4, <3>1, SeqMonotonic
  <2>12. ScreenFits'
    BY <1>4, <2>3, <2>5 DEF StepBack, ScreenFits
  <2> QED
    BY <2>10, <2>11, <2>12
<1>5. CASE LeavePage
  <2>1. UNCHANGED <<walk, reads, running>> /\ page' = NoIssue /\ doc' = NoDoc /\ loading' = NoDoc
        /\ seeded' = FALSE
    BY <1>5 DEF LeavePage
  <2>2. Left' = Left
    BY <2>1 DEF Left
  <2>3. PageTyped' /\ NewerThanShown' /\ NoStuckPage'
    BY <2>1 DEF PageTyped, NewerThanShown, NoStuckPage
  <2>4. LastRead'
    BY <2>1 DEF LastRead, NoDoc, PageTyped
  <2>5. ScreenFits'
    BY <1>5 DEF LeavePage, ScreenFits
  <2> QED
    BY <2>1, <2>2, <2>3, <2>4, <2>5
<1>6. CASE RetryRead
  <2>1. UNCHANGED <<walk, page, seeded>> /\ page \in Issues /\ RequestIssue(page, doc, failed)
    BY <1>6 DEF RetryRead, PageTyped
  <2>2. PICK i \in Issues : page = i
    BY <2>1
  <2>3. /\ loading.issue = i => doc.issue \in {i, NoIssue} /\ doc.read < reads
        /\ doc.read <= reads
    BY DEF NewerThanShown, LastRead, NoDoc
  <2>4. \A k \in DOMAIN walk : walk[k].doc.read \in Nat /\ walk[k].doc.read <= reads
    BY LeftDocs
  <2>5. loading.issue = i => \A k \in DOMAIN walk : walk[k].doc.read < reads
    BY DEF NewerThanShown, NoDoc
  <2>6. PageTyped' /\ LastRead' /\ NewerThanShown' /\ NoStuckPage' /\ reads <= reads'
    BY <2>1, <2>2, <2>3, <2>4, <2>5, RequestKeepsReads DEF PageTyped
  <2>7. walk' \in Seq(Left')
    BY <2>1, <2>6, LeftGrows DEF PageTyped
  <2>8. ScreenFits'
    BY <1>6 DEF RetryRead, ScreenFits
  <2> QED
    BY <2>6, <2>7, <2>8
<1>7. ASSUME UNCHANGED <<seeded, doc, failed, walk, loading, reads, running>>,
             page' \in {page, NoIssue}, ScreenFits'
      PROVE  PageInv'
  <2>1. Left' = Left
    BY <1>7 DEF Left
  <2> QED
    BY <1>7, <2>1 DEF PageTyped, LastRead, NewerThanShown, NoStuckPage
<1>8. ASSUME NEW bound \in Issues \cup {NoIssue}, NEW issues \in SUBSET Issues,
             FollowIssue(bound, issues)
      PROVE  PageInv'
  <2> DEFINE error == IF bound # NoIssue /\ page # bound THEN NoIssue ELSE failed
  <2>1. page' = bound /\ seeded' \in BOOLEAN /\ UNCHANGED walk /\ ScreenFits'
    BY <1>8 DEF FollowIssue, ScreenFits, HomeScreen
  <2>2. CASE /\ bound = NoIssue \/ doc.issue = bound \/ error = bound
             /\ failed' = error /\ UNCHANGED <<doc, loading, reads, running>>
    <3>1. Left' = Left
      BY <2>2 DEF Left
    <3>2. NoStuckPage'
      BY <2>1, <2>2 DEF NoStuckPage
    <3> QED
      BY <2>1, <2>2, <3>1, <3>2 DEF PageTyped, LastRead, NewerThanShown
  <2>3. CASE bound # NoIssue /\ RequestIssue(bound, doc, error)
    <3>1. /\ loading.issue = bound => doc.issue \in {bound, NoIssue} /\ doc.read < reads
          /\ doc.read <= reads
      BY <2>3 DEF NewerThanShown, LastRead, NoDoc
    <3>2. \A k \in DOMAIN walk : walk[k].doc.read \in Nat /\ walk[k].doc.read <= reads
      BY LeftDocs
    <3>3. loading.issue = bound => \A k \in DOMAIN walk : walk[k].doc.read < reads
      BY <2>3 DEF NewerThanShown, NoDoc
    <3>4. PICK e : RequestIssue(bound, doc, e)
      BY <2>3
    <3>5. PageTyped' /\ LastRead' /\ NewerThanShown' /\ NoStuckPage' /\ reads <= reads'
      BY <2>1, <2>3, <3>1, <3>2, <3>3, <3>4, RequestKeepsReads DEF PageTyped
    <3>6. walk' \in Seq(Left')
      BY <2>1, <3>5, LeftGrows DEF PageTyped
    <3> QED
      BY <2>1, <3>5, <3>6
  <2> QED
    BY <1>8, <2>2, <2>3 DEF FollowIssue
<1>9. ASSUME NEW r \in running, NEW ok \in BOOLEAN, NEW again \in BOOLEAN, IssueArrives(r, ok, again)
      PROVE  PageInv'
  <2>1. /\ running' = running \ {r} /\ UNCHANGED <<page, seeded, walk, reads>>
        /\ loading' = IF loading.read = r.read THEN NoDoc ELSE loading
        /\ doc' = IF page = r.issue /\ loading.read = r.read /\ ok THEN r ELSE doc
        /\ failed' = IF ~(page = r.issue /\ loading.read = r.read) THEN failed
                     ELSE IF ok THEN NoIssue ELSE page
    BY <1>9 DEF IssueArrives
  <2>2. r \in [issue : Issues, read : Nat] /\ r.read # 0 /\ r.read <= reads
    BY DEF PageTyped, LastRead
  <2>3. loading.read = r.read => loading = r
    BY <2>2 DEF LastRead, NoDoc
  <2>4. Left' = Left
    BY <2>1 DEF Left
  <2>5. PageTyped'
    BY <2>1, <2>2 DEF PageTyped
  <2>6. LastRead'
    BY <2>1, <2>2 DEF LastRead, PageTyped
  <2>7. NewerThanShown'
    BY <2>1 DEF NewerThanShown
  <2>8. NoStuckPage'
    <3>1. CASE loading.read = r.read
      BY <2>1, <2>3, <3>1 DEF NoStuckPage, NewerThanShown, NoDoc
    <3>2. CASE loading.read # r.read
      BY <2>1, <3>2 DEF NoStuckPage
    <3> QED
      BY <3>1, <3>2
  <2>9. ScreenFits'
    BY <1>9 DEF IssueArrives, ScreenFits
  <2> QED
    BY <2>1, <2>4, <2>5, <2>6, <2>7, <2>8, <2>9
<1>10. CASE CloseError \/ SnapshotFails
  BY <1>7, <1>10 DEF CloseError, SnapshotFails, ScreenFits, HomeScreen
<1>11. ASSUME NEW issues \in SUBSET Issues, SnapshotLands(issues) PROVE PageInv'
  BY <1>7, <1>11 DEF SnapshotLands, ScreenFits, HomeScreen
<1>12. CASE UNCHANGED pageVars
  BY <1>7, <1>12 DEF pageVars, ScreenFits
<1> QED
  BY <1>1, <1>2, <1>3, <1>4, <1>5, <1>6, <1>8, <1>9, <1>10, <1>11, <1>12 DEF PageNext

LEMMA PageInvAlways ==
  ASSUME NoIssue \notin Issues
  PROVE  PageSpec => []PageInv
<1>1. PageInit => PageInv
  <2> SUFFICES ASSUME PageInit PROVE PageInv
    OBVIOUS
  <2>1. walk \in Seq(Left)
    BY EmptySeq DEF PageInit
  <2>2. LastRead
    BY DEF PageInit, LastRead, NoDoc
  <2> QED
    BY <2>1, <2>2 DEF PageInit, PageInv, PageTyped, ScreenFits, NewerThanShown, NoStuckPage
<1>2. PageInv /\ [PageNext]_pageVars => PageInv'
  BY PageStep
<1> QED
  BY <1>1, <1>2, PTL DEF PageSpec

(* However opens, links, steps back, snapshots and answers interleave, an  *)
(* open page has its document, its failure or a read under way: what       *)
(* issue_arrived drops is never the read the page waits for.               *)
THEOREM PagesNotStuck ==
  ASSUME NoIssue \notin Issues
  PROVE  PageSpec => []NoStuckPage
<1>1. PageInv => NoStuckPage
  BY DEF PageInv
<1> QED
  BY <1>1, PageInvAlways, PTL

(* While a page stays open its document is only replaced by that of a read *)
(* that was started later, for any number of reads under way.              *)
THEOREM CopiesOnlyNewer ==
  ASSUME NoIssue \notin Issues
  PROVE  PageSpec => NoOlderCopy
<1> DEFINE Newer == (page' = page /\ page # NoIssue /\ Len(walk') = Len(walk) /\ doc.issue = page
                     /\ doc' # doc) => doc'.issue = page /\ doc'.read > doc.read
<1>1. PageInv /\ [PageNext]_pageVars => [Newer]_pageVars
  <2> SUFFICES ASSUME PageInv, [PageNext]_pageVars, page' = page, page # NoIssue,
                      Len(walk') = Len(walk), doc.issue = page, doc' # doc
               PROVE  doc'.issue = page /\ doc'.read > doc.read
    OBVIOUS
  <2>1. ASSUME NEW r \in running, NEW ok \in BOOLEAN, NEW again \in BOOLEAN,
               IssueArrives(r, ok, again)
        PROVE  doc'.issue = page /\ doc'.read > doc.read
    <3>1. doc' = r /\ page = r.issue /\ loading.read = r.read
      BY <2>1 DEF IssueArrives
    <3>2. r.read \in Nat /\ r.read # 0 /\ doc.read \in Nat /\ reads \in Nat
      BY DEF PageInv, PageTyped, NoDoc
    <3>3. loading # NoDoc
      BY <3>1, <3>2 DEF NoDoc
    <3> QED
      BY <3>1, <3>2, <3>3 DEF PageInv, LastRead, NewerThanShown
  <2>2. ASSUME NEW i, NEW error, i = page, RequestIssue(i, doc, error) PROVE FALSE
    BY <2>2 DEF RequestIssue
  <2>3. CASE \E i \in Issues : OpenCard(i) \/ ShowTarget(i) \/ OpenLinked(i)
    BY <2>3 DEF OpenCard, ShowTarget, OpenLinked, PageInv, ScreenFits
  <2>4. CASE StepBack
    <3>1. walk # <<>> /\ walk' = SubSeq(walk, 1, Len(walk) - 1)
      BY <2>4 DEF StepBack, Front
    <3>2. Len(walk) \in Nat /\ Len(walk) > 0 /\ walk \in Seq(Left)
      BY <3>1, EmptySeq DEF PageInv
    <3>3. Len(walk') = Len(walk) - 1
      BY <3>1, <3>2, SubSeqProperties
    <3> QED
      BY <3>2, <3>3
  <2>5. CASE LeavePage \/ RetryRead
    BY <2>2, <2>5 DEF LeavePage, RetryRead
  <2>6. ASSUME NEW bound, NEW issues, FollowIssue(bound, issues) PROVE FALSE
    BY <2>6 DEF FollowIssue
  <2>7. CASE CloseError \/ SnapshotFails \/ (\E issues \in SUBSET Issues : SnapshotLands(issues))
             \/ UNCHANGED pageVars
    BY <2>7 DEF CloseError, SnapshotFails, SnapshotLands, pageVars
  <2> QED
    BY <2>1, <2>3, <2>4, <2>5, <2>6, <2>7 DEF PageNext
<1> QED
  BY <1>1, PageInvAlways, PTL DEF PageSpec, NoOlderCopy

-----------------------------------------------------------------------------
(* BoardFeed: what is under way between a write and the screen.            *)

Carried(s) == {s[k] : k \in 1 .. Len(s)}

(* A signal that makes the board read topic t.                             *)
Asks(t) == {"reconnected"} \cup {SignalOf(e) : e \in {e \in Events : t \in TopicOf(e)}}

FeedTyped ==
  /\ mode \in {"board", "linear"} /\ up \in BOOLEAN /\ requests \in BOOLEAN
  /\ subscribed \in BOOLEAN /\ closed \in BOOLEAN
  /\ lagged \in BOOLEAN /\ overrun \in BOOLEAN
  /\ value \in [Topics -> Nat] /\ written \in 0 .. MaxWrites
  /\ announcing \subseteq Events
  /\ ring \in Seq(Events) /\ outbox \in Seq(Events)
  /\ signals \subseteq Signals
  /\ client \in {"starting", "listening", "reconnecting"}
  /\ DOMAIN read = Topics /\ queued \subseteq Topics
  /\ DOMAIN shown = Topics

(* A connection that listens gets the events, or was refused one.          *)
Connected ==
  /\ client = "listening" => up /\ (subscribed \/ closed)
  /\ client # "listening" => ~subscribed /\ ~closed
  /\ closed => ~subscribed

(* A read is queued only behind a read.                                    *)
QueuedBehind == \A t \in queued : read[t] # NoRead

(* What is still to come may bring topic t to the screen as it is now.     *)
Coming(t) ==
  \/ client # "listening" \/ closed
  \/ \E e \in announcing \cup Carried(ring) \cup Carried(outbox) : t \in TopicOf(e)
  \/ lagged /\ t = "cards"
  \/ overrun /\ mode = "linear"
  \/ signals \cap Asks(t) # {}
  \/ t \in queued \/ read[t] = ReadAsked
  \/ read[t] = [at |-> "answered", version |-> value[t]]
  \/ mode = "board" /\ ~requests

Seen == \A t \in OnScreen : value[t] \in {shown[t], since[t]} \/ Coming(t)

(* A document that lands is never older than the one it replaces.          *)
Landed(t) ==
  /\ shown[t] \in Int /\ shown[t] <= value[t]
  /\ read[t].at = "answered" /\ read[t].version # Nothing =>
       /\ read[t].version \in Int
       /\ shown[t] <= read[t].version /\ read[t].version <= value[t]

ReadsFit == \A t \in {"local", "linear"} : Landed(t)

FeedInv == FeedTyped /\ Connected /\ QueuedBehind /\ Seen

-----------------------------------------------------------------------------

LEMMA AppendCarries ==
  ASSUME NEW s \in Seq(Events), NEW e \in Events
  PROVE  /\ Append(s, e) \in Seq(Events) /\ Len(Append(s, e)) = Len(s) + 1
         /\ Carried(Append(s, e)) = Carried(s) \cup {e}
<1>1. /\ Append(s, e) \in Seq(Events) /\ Len(Append(s, e)) = Len(s) + 1
      /\ \A k \in 1 .. Len(s) : Append(s, e)[k] = s[k]
      /\ Append(s, e)[Len(s) + 1] = e
  BY AppendProperties
<1>2. 1 .. Len(s) + 1 = (1 .. Len(s)) \cup {Len(s) + 1}
  OBVIOUS
<1> QED
  BY <1>1, <1>2 DEF Carried

LEMMA TailCarries ==
  ASSUME NEW s \in Seq(Events), s # << >>
  PROVE  /\ Tail(s) \in Seq(Events) /\ Len(Tail(s)) = Len(s) - 1 /\ Head(s) \in Events
         /\ Carried(s) = Carried(Tail(s)) \cup {Head(s)}
<1>1. /\ Tail(s) \in Seq(Events) /\ Len(Tail(s)) = Len(s) - 1 /\ Head(s) = s[1] /\ Len(s) \in Nat
      /\ \A k \in 1 .. Len(Tail(s)) : Tail(s)[k] = s[k + 1]
  BY HeadTailProperties
<1>2. Len(s) >= 1
  BY EmptySeq
<1>3. Head(s) \in Events /\ Head(s) \in Carried(s)
  BY <1>1, <1>2 DEF Carried
<1>4. ASSUME NEW k \in 1 .. Len(s) PROVE s[k] \in Carried(Tail(s)) \cup {Head(s)}
  <2>1. CASE k = 1
    BY <1>1, <2>1
  <2>2. CASE k # 1
    <3>1. k - 1 \in 1 .. Len(Tail(s)) /\ s[k] = Tail(s)[k - 1]
      BY <1>1, <2>2
    <3> QED
      BY <3>1 DEF Carried
  <2> QED
    BY <2>1, <2>2
<1>5. ASSUME NEW k \in 1 .. Len(Tail(s)) PROVE Tail(s)[k] \in Carried(s)
  <2>1. k + 1 \in 1 .. Len(s)
    BY <1>1
  <2> QED
    BY <1>1, <2>1 DEF Carried
<1> QED
  BY <1>1, <1>3, <1>4, <1>5 DEF Carried

LEMMA NothingCarried == Carried(<< >>) = {} /\ << >> \in Seq(Events) /\ Len(<< >>) = 0
BY EmptySeq DEF Carried

(* The topics of the screen, and what makes the board read them.           *)
LEMMA ScreenTopics ==
  ASSUME mode \in {"board", "linear"}, NEW t \in OnScreen
  PROVE  /\ t \in Topics
         /\ mode = "board" <=> t = "cards"
         /\ t = "cards" => Asks(t) = {"reconnected", "changed"}
         /\ t = "local" => Asks(t) = {"reconnected", "local"}
         /\ t = "linear" => Asks(t) = {"reconnected", "snapshot"}
<1>1. t \in Topics /\ (mode = "board" <=> t = "cards")
  BY DEF OnScreen, Topics
<1>2. t = "cards" => Asks(t) = {"reconnected", "changed"}
  BY DEF Asks, Events, TopicOf, SignalOf
<1>3. t = "local" => Asks(t) = {"reconnected", "local"}
  BY DEF Asks, Events, TopicOf, SignalOf
<1>4. t = "linear" => Asks(t) = {"reconnected", "snapshot"}
  BY DEF Asks, Events, TopicOf, SignalOf
<1> QED
  BY <1>1, <1>2, <1>3, <1>4

(* What one batch of n requests of topic t leaves asked for or queued.     *)
Batch(n, t, r, q, to) ==
  /\ DOMAIN to.read = Topics /\ to.queued \in SUBSET Topics
  /\ \A x \in to.queued : to.read[x] # NoRead
  /\ q \subseteq to.queued
  /\ \A x \in Topics : to.read[x] = r[x] \/ to.read[x] = ReadAsked
  /\ \A x \in Topics : r[x] # NoRead => to.read[x] = r[x]
  /\ n # 0 => t \in to.queued \/ to.read[t] = ReadAsked

Behind(r, q) == DOMAIN r = Topics /\ q \in SUBSET Topics /\ \A x \in q : r[x] # NoRead

LEMMA RequestedAsks ==
  ASSUME NEW n, NEW t \in Topics, NEW r, NEW q, Behind(r, q)
  PROVE  Batch(n, t, r, q, Requested(n, t, r, q))
<1> USE DEF Behind, Batch
<1>1. ReadAsked # NoRead
  BY DEF ReadAsked, NoRead
<1>2. CASE n = 0
  BY <1>2 DEF Requested
<1>3. CASE n # 0 /\ r[t] = NoRead
  BY <1>1, <1>3 DEF Requested
<1>4. CASE n # 0 /\ r[t] # NoRead
  BY <1>4 DEF Requested
<1> QED
  BY <1>2, <1>3, <1>4

-----------------------------------------------------------------------------
(* The daemon and its connection.                                          *)

LEMMA WriteComes ==
  ASSUME FeedInv, MaxWrites \in Nat, NEW e \in Events, Write(e)
  PROVE  FeedInv'
<1> USE DEF FeedInv
<1>1. /\ written' = written + 1 /\ written < MaxWrites /\ e \notin announcing
      /\ value' = [t \in Topics |-> IF t \in TopicOf(e) THEN value[t] + 1 ELSE value[t]]
      /\ announcing' = announcing \cup {e}
      /\ UNCHANGED <<mode, up, crashes, connVars, client, signals, boardVars, since>>
  BY DEF Write
<1>2. FeedTyped'
  <2>1. value' \in [Topics -> Nat]
    BY <1>1 DEF FeedTyped
  <2>2. written' \in 0 .. MaxWrites
    BY <1>1 DEF FeedTyped
  <2> QED
    BY <1>1, <2>1, <2>2 DEF FeedTyped, connVars, boardVars
<1>3. Connected' /\ QueuedBehind'
  BY <1>1 DEF Connected, QueuedBehind, connVars, boardVars
<1>5. ASSUME NEW t \in OnScreen' PROVE value'[t] \in {shown'[t], since'[t]} \/ Coming(t)'
  <2>1. t \in OnScreen /\ t \in Topics
    BY <1>1, <1>5 DEF OnScreen, Topics
  <2>2. CASE t \in TopicOf(e)
    BY <1>1, <2>2 DEF Coming
  <2>3. CASE t \notin TopicOf(e)
    <3>1. value'[t] = value[t]
      BY <1>1, <2>1, <2>3
    <3> QED
      BY <1>1, <2>1, <3>1 DEF Seen, Coming, connVars, boardVars
  <2> QED
    BY <2>2, <2>3
<1> QED
  BY <1>2, <1>3, <1>5 DEF Seen

LEMMA EmitComes ==
  ASSUME FeedInv, NEW e \in Events, Emit(e)
  PROVE  FeedInv'
<1> USE DEF FeedInv
<1> DEFINE next == Append(ring, e)
           full == Len(ring) = RingSize
<1>1. /\ e \in announcing /\ announcing' = announcing \ {e}
      /\ ring' = IF ~subscribed THEN ring ELSE IF full THEN Tail(next) ELSE next
      /\ lagged' = (lagged \/ (subscribed /\ full))
      /\ overrun' = (overrun \/ (subscribed /\ full))
      /\ UNCHANGED <<mode, up, crashes, value, written, subscribed, outbox, closed, client,
                     signals, boardVars, since>>
  BY DEF Emit
<1>2. /\ next \in Seq(Events) /\ Len(next) = Len(ring) + 1 /\ Len(ring) \in Nat
      /\ Carried(next) = Carried(ring) \cup {e}
  BY AppendCarries DEF FeedTyped
<1>3. next # << >>
  BY <1>2
<1> HIDE DEF next, full
<1>4. Tail(next) \in Seq(Events)
  BY <1>2, <1>3, TailCarries
<1>5. lagged' \in BOOLEAN /\ overrun' \in BOOLEAN
  BY <1>1
<1>6. FeedTyped'
  BY <1>1, <1>2, <1>4, <1>5 DEF FeedTyped, boardVars
<1>7. Connected' /\ QueuedBehind'
  BY <1>1 DEF Connected, QueuedBehind, boardVars
<1>9. ASSUME NEW t \in OnScreen' PROVE value'[t] \in {shown'[t], since'[t]} \/ Coming(t)'
  <2>1. t \in OnScreen /\ t \in Topics /\ (mode = "board" <=> t = "cards")
    BY <1>1, <1>9, ScreenTopics DEF OnScreen, FeedTyped
  <2>2. CASE ~subscribed
    BY <1>1, <1>7, <2>1, <2>2 DEF Connected, Coming
  <2>3. CASE subscribed /\ ~full
    BY <1>1, <1>2, <2>1, <2>3 DEF Seen, Coming, boardVars
  <2>4. CASE subscribed /\ full
    BY <1>1, <2>1, <2>4 DEF Coming, FeedTyped
  <2> QED
    BY <2>2, <2>3, <2>4
<1> QED
  BY <1>1, <1>6, <1>7, <1>9 DEF Seen

LEMMA ForwardComes ==
  ASSUME FeedInv, Forward
  PROVE  FeedInv'
<1> USE DEF FeedInv
<1> DEFINE e == IF lagged THEN "board_changed" ELSE Head(ring)
<1>1. /\ subscribed /\ (lagged \/ ring # <<>>)
      /\ UNCHANGED <<mode, daemonVars, overrun, client, signals, boardVars, since>>
  BY DEF Forward
<1>2. CASE closed' = TRUE /\ subscribed' = FALSE /\ ring' = <<>> /\ lagged' = FALSE /\ outbox' = outbox
  <2>1. FeedTyped'
    BY <1>1, <1>2, NothingCarried DEF FeedTyped, daemonVars, boardVars
  <2>2. Connected' /\ QueuedBehind'
    BY <1>1, <1>2 DEF Connected, QueuedBehind, daemonVars, boardVars
  <2>4. Seen'
    BY <1>2 DEF Seen, Coming
  <2> QED
    BY <2>1, <2>2, <2>4
<1>3. CASE /\ outbox' = IF Coalesces(e) THEN outbox ELSE Append(outbox, e)
           /\ lagged' = FALSE /\ ring' = IF lagged THEN ring ELSE Tail(ring)
           /\ UNCHANGED <<closed, subscribed>>
  <2>1. /\ e \in Events /\ ring' \in Seq(Events) /\ Len(ring') <= Len(ring)
        /\ Len(ring) \in Nat /\ Len(ring') \in Nat
        /\ Carried(ring) \subseteq Carried(ring') \cup {e}
    <3>1. CASE lagged
      BY <1>3, <3>1 DEF Events, FeedTyped
    <3>2. CASE ~lagged
      BY <1>1, <1>3, <3>2, TailCarries DEF FeedTyped
    <3> QED
      BY <3>1, <3>2
  <2>2. lagged => e = "board_changed"
    OBVIOUS
  <2> HIDE DEF e
  <2>3. outbox' \in Seq(Events) /\ Carried(outbox') = Carried(outbox) \cup {e}
    <3>1. CASE Coalesces(e)
      <4>1. outbox # <<>> /\ outbox[Len(outbox)] = e
        BY <3>1 DEF Coalesces
      <4>2. Len(outbox) \in 1 .. Len(outbox)
        BY <4>1, EmptySeq DEF FeedTyped
      <4>3. e \in Carried(outbox)
        BY <4>1, <4>2 DEF Carried
      <4> QED
        BY <1>3, <3>1, <4>3 DEF FeedTyped
    <3>2. CASE ~Coalesces(e)
      BY <1>3, <2>1, <3>2, AppendCarries DEF FeedTyped
    <3> QED
      BY <3>1, <3>2
  <2>4. FeedTyped'
    BY <1>1, <1>3, <2>1, <2>3 DEF FeedTyped, daemonVars, boardVars
  <2>5. Connected' /\ QueuedBehind'
    BY <1>1, <1>3 DEF Connected, QueuedBehind, daemonVars, boardVars
  <2>7. ASSUME NEW t \in OnScreen' PROVE value'[t] \in {shown'[t], since'[t]} \/ Coming(t)'
    <3>1. t \in OnScreen
      BY <1>1, <2>7 DEF OnScreen
    <3>2. lagged /\ t = "cards" => t \in TopicOf(e)
      BY <2>2 DEF TopicOf
    <3> QED
      BY <1>1, <1>3, <2>1, <2>3, <3>1, <3>2 DEF Seen, Coming, daemonVars, boardVars
  <2> QED
    BY <2>4, <2>5, <2>7 DEF Seen
<1> QED
  BY <1>2, <1>3 DEF Forward

(* The stream is lost: what it carried is lost with it.                    *)
LEMMA DisconnectComes ==
  ASSUME FeedInv, Disconnected, announcing' \in SUBSET announcing, up' \in BOOLEAN, requests' \in BOOLEAN,
         UNCHANGED <<mode, value, written, signals, read, queued, shown, since>>
  PROVE  FeedInv'
<1> USE DEF FeedInv, Disconnected
<1>1. client' \in {"starting", "reconnecting"}
  OBVIOUS
<1>2. FeedTyped'
  BY <1>1, NothingCarried DEF FeedTyped
<1>3. Connected' /\ QueuedBehind'
  BY <1>1 DEF Connected, QueuedBehind
<1>5. Seen'
  BY <1>1 DEF Seen, Coming
<1> QED
  BY <1>2, <1>3, <1>5

LEMMA ConnectionComes ==
  ASSUME FeedInv, FeedCrash \/ Hangup \/ FeedRestart \/ FirstSubscribe \/ Resubscribe
  PROVE  FeedInv'
<1> USE DEF FeedInv
<1>1. CASE FeedCrash \/ Hangup
  <2>1. /\ Disconnected /\ announcing' \in SUBSET announcing
        /\ UNCHANGED <<mode, value, written, signals, read, queued, shown, since>>
    BY <1>1 DEF FeedCrash, Hangup, daemonVars, boardVars
  <2>2. up' \in BOOLEAN /\ requests' \in BOOLEAN
    BY <1>1 DEF FeedCrash, Hangup, daemonVars, boardVars, FeedTyped
  <2> QED
    BY <2>1, <2>2, DisconnectComes
<1>2. CASE FeedRestart
  <2>1. client # "listening"
    BY <1>2 DEF FeedRestart, Connected
  <2>2. FeedTyped' /\ Connected' /\ QueuedBehind'
    BY <1>2, <2>1 DEF FeedRestart, FeedTyped, Connected, QueuedBehind, connVars, boardVars
  <2>3. Seen'
    BY <1>2, <2>1 DEF FeedRestart, Seen, Coming
  <2> QED
    BY <2>2, <2>3
<1>3. CASE FirstSubscribe
  <2>1. FeedTyped' /\ QueuedBehind'
    BY <1>3 DEF FirstSubscribe, FeedTyped, QueuedBehind, daemonVars, boardVars
  <2>2. Connected'
    BY <1>3 DEF FirstSubscribe, FeedTyped, Connected, daemonVars
  <2>3. Seen'
    BY <1>3 DEF FirstSubscribe, Seen, Coming, daemonVars
  <2> QED
    BY <2>1, <2>2, <2>3
<1>4. CASE Resubscribe
  <2>1. FeedTyped' /\ QueuedBehind'
    BY <1>4 DEF Resubscribe, FeedTyped, QueuedBehind, daemonVars, boardVars, Signals
  <2>2. Connected'
    BY <1>4 DEF Resubscribe, FeedTyped, Connected, daemonVars
  <2>3. \A t : "reconnected" \in signals' \cap Asks(t)
    BY <1>4 DEF Resubscribe, Asks
  <2>4. Seen'
    BY <2>3 DEF Seen, Coming
  <2> QED
    BY <2>1, <2>2, <2>4
<1> QED
  BY <1>1, <1>2, <1>3, <1>4

LEMMA DeliverComes ==
  ASSUME FeedInv, Deliver
  PROVE  FeedInv'
<1> USE DEF FeedInv
<1>1. /\ signals' = signals \cup {SignalOf(Head(outbox))} /\ outbox' = Tail(outbox)
      /\ UNCHANGED <<mode, daemonVars, subscribed, ring, lagged, overrun, closed, client,
                     boardVars, since>>
  BY DEF Deliver
<1>2. /\ outbox' \in Seq(Events) /\ Head(outbox) \in Events
      /\ Carried(outbox) = Carried(outbox') \cup {Head(outbox)}
  BY <1>1, TailCarries DEF Deliver, FeedTyped
<1>3. PICK e \in Events : e = Head(outbox)
  BY <1>2
<1>4. SignalOf(e) \in Signals /\ \A t : t \in TopicOf(e) => SignalOf(e) \in Asks(t)
  BY DEF SignalOf, Signals, Events, Asks
<1>5. FeedTyped' /\ Connected' /\ QueuedBehind'
  BY <1>1, <1>2, <1>3, <1>4 DEF FeedTyped, Connected, QueuedBehind, daemonVars, boardVars
<1>6. ASSUME NEW t \in OnScreen' PROVE value'[t] \in {shown'[t], since'[t]} \/ Coming(t)'
  <2>1. t \in OnScreen /\ (value[t] \in {shown[t], since[t]} \/ Coming(t))
    BY <1>1, <1>6 DEF OnScreen, Seen
  <2>2. t \in TopicOf(e) => signals' \cap Asks(t) # {}
    BY <1>1, <1>3, <1>4
  <2>3. signals \cap Asks(t) # {} => signals' \cap Asks(t) # {}
    BY <1>1
  <2> QED
    BY <1>1, <1>2, <1>3, <2>1, <2>2, <2>3 DEF Coming, daemonVars, boardVars
<1> QED
  BY <1>5, <1>6 DEF Seen

-----------------------------------------------------------------------------
(* The board's event loop.                                                 *)

LEMMA DrainComes ==
  ASSUME FeedInv, Drain
  PROVE  FeedInv'
<1> USE DEF FeedInv
<1>1. /\ signals' = {} /\ (DrainLinear \/ DrainBoard)
      /\ requests' = IF "reconnected" \in signals /\ up THEN TRUE ELSE requests
      /\ UNCHANGED <<mode, daemonVars, connVars, client, since>>
  BY DEF Drain
<1>2. requests' \in BOOLEAN
  BY <1>1 DEF FeedTyped
<1>3. Connected'
  BY <1>1 DEF Connected, daemonVars, connVars
<1>4. CASE DrainLinear
  <2> DEFINE again == Times("reconnected" \in signals)
             document == Times("snapshot" \in signals)
             state == Times({"snapshot", "local"} \cap signals # {})
             first == Requested(again + document, "linear", read, queued)
             both == Requested(again + state, "local", first.read, first.queued)
  <2>1. mode = "linear" /\ read' = both.read /\ queued' = both.queued /\ UNCHANGED shown
    BY <1>4 DEF DrainLinear
  <2>2. /\ signals \cap {"reconnected", "snapshot"} # {} => again + document # 0
        /\ signals \cap {"reconnected", "local"} # {} => again + state # 0
    BY DEF Times
  <2> HIDE DEF again, document, state
  <2>3. "linear" \in Topics /\ "local" \in Topics /\ Behind(read, queued)
    BY DEF Topics, Behind, FeedTyped, QueuedBehind
  <2>4. Batch(again + document, "linear", read, queued, first)
    BY <2>3, RequestedAsks
  <2> HIDE DEF first
  <2>5. Behind(first.read, first.queued)
    BY <2>4 DEF Batch, Behind
  <2>6. Batch(again + state, "local", first.read, first.queued, both)
    BY <2>3, <2>5, RequestedAsks
  <2> HIDE DEF both
  <2>7. /\ queued \subseteq first.queued
        /\ \A x \in Topics : read[x] # NoRead => first.read[x] = read[x]
        /\ again + document # 0 => "linear" \in first.queued \/ first.read["linear"] = ReadAsked
    BY <2>4 DEF Batch
  <2>8. /\ DOMAIN both.read = Topics /\ both.queued \in SUBSET Topics
        /\ \A x \in both.queued : both.read[x] # NoRead
        /\ first.queued \subseteq both.queued
        /\ \A x \in Topics : first.read[x] # NoRead => both.read[x] = first.read[x]
        /\ again + state # 0 => "local" \in both.queued \/ both.read["local"] = ReadAsked
    BY <2>6 DEF Batch
  <2>9. FeedTyped' /\ QueuedBehind'
    BY <1>1, <1>2, <2>1, <2>8 DEF FeedTyped, QueuedBehind, daemonVars, connVars
  <2>10. ReadAsked # NoRead
    BY DEF ReadAsked, NoRead
  <2>11. ASSUME NEW t \in OnScreen' PROVE value'[t] \in {shown'[t], since'[t]} \/ Coming(t)'
    <3>1. t \in OnScreen /\ t \in {"local", "linear"}
      BY <1>1, <2>1, <2>11 DEF OnScreen
    <3>2. signals \cap Asks(t) # {} => t \in queued' \/ read'[t] = ReadAsked
      <4>1. /\ t = "local" => Asks(t) = {"reconnected", "local"}
            /\ t = "linear" => Asks(t) = {"reconnected", "snapshot"}
        BY <3>1, ScreenTopics DEF FeedTyped
      <4>2. t = "linear" /\ signals \cap Asks(t) # {} =>
              "linear" \in first.queued \/ first.read["linear"] = ReadAsked
        BY <2>2, <2>7, <4>1
      <4>3. t = "linear" /\ signals \cap Asks(t) # {} => t \in queued' \/ read'[t] = ReadAsked
        BY <2>1, <2>8, <2>10, <3>1, <4>2 DEF Topics
      <4>4. t = "local" /\ signals \cap Asks(t) # {} => t \in queued' \/ read'[t] = ReadAsked
        BY <2>1, <2>2, <2>8, <4>1
      <4> QED
        BY <3>1, <4>3, <4>4
    <3>3. t \in queued => t \in queued'
      BY <2>1, <2>7, <2>8
    <3>4. read[t] # NoRead => read'[t] = read[t]
      BY <2>1, <2>7, <2>8, <3>1 DEF Topics
    <3>5. ReadAsked # NoRead /\ [at |-> "answered", version |-> value[t]] # NoRead
      BY DEF ReadAsked, NoRead
    <3> QED
      BY <1>1, <2>1, <3>1, <3>2, <3>3, <3>4, <3>5 DEF Seen, Coming, daemonVars, connVars
  <2> QED
    BY <1>3, <2>9, <2>11 DEF Seen
<1>5. CASE DrainBoard
  <2> DEFINE reconnects == "reconnected" \in signals
             connected == IF reconnects THEN up ELSE requests /\ up
  <2>1. /\ mode = "board" /\ UNCHANGED <<read, queued>>
        /\ shown' = IF connected /\ {"changed", "reconnected"} \cap signals # {}
                      THEN [shown EXCEPT !["cards"] = value["cards"]] ELSE shown
    BY <1>5 DEF DrainBoard
  <2>2. DOMAIN shown' = Topics /\ (connected /\ {"changed", "reconnected"} \cap signals # {} =>
                                    shown'["cards"] = value["cards"])
    BY <2>1 DEF FeedTyped, Topics
  <2>3. FeedTyped' /\ QueuedBehind'
    BY <1>1, <1>2, <2>1, <2>2 DEF FeedTyped, QueuedBehind, daemonVars, connVars
  <2>4. ASSUME NEW t \in OnScreen' PROVE value'[t] \in {shown'[t], since'[t]} \/ Coming(t)'
    <3>1. t \in OnScreen /\ t = "cards"
      BY <1>1, <2>1, <2>4 DEF OnScreen
    <3>2. Asks(t) = {"reconnected", "changed"}
      BY <3>1, ScreenTopics DEF FeedTyped
    <3>3. CASE signals \cap Asks(t) = {}
      <4>1. shown' = shown /\ requests' = requests
        BY <1>1, <2>1, <3>2, <3>3
      <4>2. value[t] \in {shown[t], since[t]} \/ Coming(t)
        BY <3>1 DEF Seen
      <4>3. /\ UNCHANGED <<client, closed, announcing, ring, outbox, lagged, overrun, queued, read, value>>
            /\ UNCHANGED <<mode, since>>
        BY <1>1, <2>1 DEF daemonVars, connVars
      <4>4. Coming(t) => Coming(t)'
        BY <3>3, <4>1, <4>3 DEF Coming
      <4> QED
        BY <4>1, <4>2, <4>3, <4>4
    <3>4. CASE signals \cap Asks(t) # {} /\ connected
      BY <1>1, <2>2, <3>1, <3>2, <3>4 DEF daemonVars
    <3>5. CASE ~connected
      <4>1. CASE ~up
        BY <1>1, <4>1 DEF Connected, Coming
      <4>2. CASE up
        <5>1. ~requests' /\ mode' = "board"
          BY <1>1, <2>1, <3>5, <4>2
        <5> QED
          BY <5>1 DEF Coming
      <4> QED
        BY <4>1, <4>2
    <3> QED
      BY <3>3, <3>4, <3>5
  <2> QED
    BY <1>3, <2>3, <2>4 DEF Seen
<1> QED
  BY <1>1, <1>4, <1>5

LEMMA WorkerComes ==
  ASSUME FeedInv, NEW t \in Topics, WorkerReads(t)
  PROVE  FeedInv'
<1> USE DEF FeedInv
<1> DEFINE answer == [at |-> "answered", version |-> IF up THEN value[t] ELSE Nothing]
<1>1. /\ read' = [read EXCEPT ![t] = answer]
      /\ UNCHANGED <<mode, daemonVars, connVars, client, signals, requests, queued, shown, since>>
  BY DEF WorkerReads
<1>2. answer # NoRead /\ (up => answer = [at |-> "answered", version |-> value[t]])
  BY DEF NoRead
<1> HIDE DEF answer
<1>3. FeedTyped' /\ Connected'
  BY <1>1 DEF FeedTyped, Connected, daemonVars, connVars
<1>4. QueuedBehind'
  BY <1>1, <1>2 DEF QueuedBehind, FeedTyped
<1>5. ASSUME NEW x \in OnScreen' PROVE value'[x] \in {shown'[x], since'[x]} \/ Coming(x)'
  <2>1. x \in OnScreen /\ x \in Topics
    BY <1>1, <1>5 DEF OnScreen, Topics
  <2>2. CASE x # t
    <3>1. read'[x] = read[x]
      BY <1>1, <2>1, <2>2 DEF FeedTyped
    <3> QED
      BY <1>1, <2>1, <3>1 DEF Seen, Coming, daemonVars, connVars
  <2>3. CASE x = t /\ up
    <3>1. read'[t] = [at |-> "answered", version |-> value[t]]
      BY <1>1, <1>2, <2>3 DEF FeedTyped
    <3> QED
      BY <1>1, <2>3, <3>1 DEF Coming, daemonVars
  <2>4. CASE ~up
    BY <1>1, <2>4 DEF Connected, Coming
  <2> QED
    BY <2>2, <2>3, <2>4
<1> QED
  BY <1>3, <1>4, <1>5 DEF Seen

(* A document of topic t lands, and may ask for a read of another topic o. *)
LEMMA LandingComes ==
  ASSUME FeedInv, ReadsFit, NEW t \in {"local", "linear"}, NEW o \in Topics \ {t},
         NEW n, read[t].at = "answered",
         shown' = IF read[t].version # Nothing THEN [shown EXCEPT ![t] = read[t].version] ELSE shown,
         LET landed == [read EXCEPT ![t] = IF t \in queued THEN ReadAsked ELSE NoRead]
             to == Requested(n, o, landed, queued \ {t})
         IN read' = to.read /\ queued' = to.queued,
         UNCHANGED <<mode, daemonVars, connVars, client, signals, requests, since>>
  PROVE  FeedInv' /\ ReadsFit'
<1> USE DEF FeedInv
<1> DEFINE landed == [read EXCEPT ![t] = IF t \in queued THEN ReadAsked ELSE NoRead]
           to == Requested(n, o, landed, queued \ {t})
<1>1. ReadAsked # NoRead
  BY DEF ReadAsked, NoRead
<1>2. /\ DOMAIN landed = Topics /\ t \in Topics
      /\ landed[t] = IF t \in queued THEN ReadAsked ELSE NoRead
      /\ \A x \in Topics \ {t} : landed[x] = read[x]
  BY DEF FeedTyped, Topics
<1>3. Behind(landed, queued \ {t})
  BY <1>2 DEF FeedTyped, QueuedBehind, Behind
<1> HIDE DEF landed
<1>4. /\ DOMAIN to.read = Topics /\ to.queued \in SUBSET Topics
      /\ \A x \in to.queued : to.read[x] # NoRead
      /\ queued \ {t} \subseteq to.queued
      /\ \A x \in Topics : to.read[x] = landed[x] \/ to.read[x] = ReadAsked
      /\ \A x \in Topics : landed[x] # NoRead => to.read[x] = landed[x]
  <2>1. Batch(n, o, landed, queued \ {t}, to)
    BY <1>3, RequestedAsks
  <2> QED
    BY <2>1 DEF Batch
<1>5. read' = to.read /\ queued' = to.queued
  BY DEF landed
<1> HIDE DEF to
<1>6. /\ t \in queued => read'[t] = ReadAsked
      /\ \A x \in Topics \ {t} : read'[x] = read[x] \/ read'[x] = ReadAsked
      /\ \A x \in Topics \ {t} : read[x] # NoRead => read'[x] = read[x]
      /\ \A x \in queued \ {t} : x \in queued'
      /\ read'[t] \in {NoRead, ReadAsked}
  BY <1>1, <1>2, <1>4, <1>5
<1>7. /\ DOMAIN shown' = Topics /\ \A x \in Topics \ {t} : shown'[x] = shown[x]
      /\ read[t].version # Nothing => shown'[t] = read[t].version
      /\ read[t].version = Nothing => shown'[t] = shown[t]
  BY DEF FeedTyped, Topics
<1>8. FeedTyped' /\ QueuedBehind'
  BY <1>4, <1>5, <1>7 DEF FeedTyped, QueuedBehind, daemonVars, connVars
<1>9. Connected'
  BY DEF Connected, daemonVars, connVars
<1>10. value' = value
  BY DEF daemonVars
<1>11. ReadsFit'
  <2>1. NoRead.at = "idle" /\ ReadAsked.at = "asked"
    BY DEF NoRead, ReadAsked
  <2>2. Landed(t) /\ value[t] \in Nat
    BY DEF ReadsFit, FeedTyped, Topics
  <2>3. Landed(t)'
    BY <1>6, <1>7, <1>10, <2>1, <2>2 DEF Landed
  <2>4. ASSUME NEW x \in {"local", "linear"}, x # t PROVE Landed(x)'
    <3>1. Landed(x) /\ x \in Topics \ {t}
      BY <2>4 DEF ReadsFit, Topics
    <3> QED
      BY <1>6, <1>7, <1>10, <2>1, <3>1 DEF Landed
  <2> QED
    BY <2>3, <2>4 DEF ReadsFit
<1>12. ASSUME NEW x \in OnScreen' PROVE value'[x] \in {shown'[x], since'[x]} \/ Coming(x)'
  <2>1. x \in OnScreen /\ x \in Topics /\ (value[x] \in {shown[x], since[x]} \/ Coming(x))
    BY <1>12 DEF OnScreen, Topics, Seen
  <2>2. CASE x # t
    <3>1. ReadAsked # NoRead /\ [at |-> "answered", version |-> value[x]] # NoRead
      BY DEF ReadAsked, NoRead
    <3> QED
      BY <1>6, <1>7, <1>10, <2>1, <2>2, <3>1 DEF Coming, daemonVars, connVars
  <2>3. CASE x = t /\ t \in queued
    BY <1>6, <2>3 DEF Coming
  <2>4. CASE x = t /\ t \notin queued
    <3>1. Landed(t) /\ value[t] \in Nat
      BY DEF ReadsFit, FeedTyped, Topics
    <3>2. read[t] # ReadAsked
      BY DEF ReadAsked
    <3>3. value[t] = shown[t] => shown'[t] = value[t]
      BY <1>7, <3>1 DEF Landed
    <3>4. read[t] = [at |-> "answered", version |-> value[t]] => shown'[t] = value[t]
      BY <1>7, <3>1 DEF Nothing
    <3> QED
      BY <1>10, <2>1, <2>4, <3>2, <3>3, <3>4 DEF Coming, daemonVars, connVars
  <2> QED
    BY <2>2, <2>3, <2>4
<1> QED
  BY <1>8, <1>9, <1>11, <1>12 DEF Seen

LEMMA ArrivalsCome ==
  ASSUME FeedInv, ReadsFit, LinearArrives \/ StateArrives
  PROVE  FeedInv' /\ ReadsFit'
<1>2. CASE LinearArrives
  <2>1. PICK n : LET landed == [read EXCEPT !["linear"] = IF "linear" \in queued THEN ReadAsked ELSE NoRead]
                     to == Requested(n, "local", landed, queued \ {"linear"})
                 IN read' = to.read /\ queued' = to.queued
    BY <1>2 DEF LinearArrives
  <2>2. /\ read["linear"].at = "answered"
        /\ shown' = IF read["linear"].version # Nothing
                     THEN [shown EXCEPT !["linear"] = read["linear"].version] ELSE shown
        /\ UNCHANGED <<mode, daemonVars, connVars, client, signals, requests, since>>
    BY <1>2 DEF LinearArrives
  <2>3. "linear" \in {"local", "linear"} /\ "local" \in Topics \ {"linear"}
    BY DEF Topics
  <2> QED
    BY <2>1, <2>2, <2>3, LandingComes
<1>3. CASE StateArrives
  <2>1. PICK n : LET landed == [read EXCEPT !["local"] = IF "local" \in queued THEN ReadAsked ELSE NoRead]
                     to == Requested(n, "linear", landed, queued \ {"local"})
                 IN read' = to.read /\ queued' = to.queued
    BY <1>3 DEF StateArrives
  <2>2. /\ read["local"].at = "answered"
        /\ shown' = IF read["local"].version # Nothing
                     THEN [shown EXCEPT !["local"] = read["local"].version] ELSE shown
        /\ UNCHANGED <<mode, daemonVars, connVars, client, signals, requests, since>>
    BY <1>3 DEF StateArrives
  <2>3. "local" \in {"local", "linear"} /\ "linear" \in Topics \ {"local"}
    BY DEF Topics
  <2> QED
    BY <2>1, <2>2, <2>3, LandingComes
<1> QED
  BY <1>2, <1>3

(* The other steps only raise what is written, ask for reads, or answer    *)
(* one with what is written now.                                           *)
LEMMA ReadsKeepFit ==
  ASSUME FeedInv, ReadsFit, [FeedNext]_feedVars, ~LinearArrives, ~StateArrives
  PROVE  ReadsFit'
<1> USE DEF FeedInv, FeedTyped
<1>1. ASSUME NEW t \in {"local", "linear"}, value'[t] \in Nat, value[t] <= value'[t],
             shown'[t] = shown[t], read'[t] = read[t] \/ read'[t] = ReadAsked
      PROVE  Landed(t)'
  <2>1. Landed(t) /\ value[t] \in Nat
    BY DEF ReadsFit, Topics
  <2>2. ReadAsked.at = "asked"
    BY DEF ReadAsked
  <2> QED
    BY <1>1, <2>1, <2>2 DEF Landed
<1>2. \A t \in {"local", "linear"} : t \in Topics /\ value[t] \in Nat /\ value[t] <= value[t]
  BY DEF Topics
<1>3. ASSUME UNCHANGED <<value, read, shown>> PROVE ReadsFit'
  BY <1>1, <1>2, <1>3 DEF ReadsFit
<1>4. ASSUME NEW e \in Events, Write(e) PROVE ReadsFit'
  <2>1. value' = [t \in Topics |-> IF t \in TopicOf(e) THEN value[t] + 1 ELSE value[t]]
        /\ UNCHANGED <<read, shown>>
    BY <1>4 DEF Write, boardVars
  <2>2. \A t \in {"local", "linear"} : value'[t] \in Nat /\ value[t] <= value'[t]
    BY <1>2, <2>1
  <2> QED
    BY <1>1, <2>1, <2>2 DEF ReadsFit
<1>5. CASE Drain /\ DrainLinear
  <2> DEFINE again == Times("reconnected" \in signals)
             document == Times("snapshot" \in signals)
             state == Times({"snapshot", "local"} \cap signals # {})
             first == Requested(again + document, "linear", read, queued)
             both == Requested(again + state, "local", first.read, first.queued)
  <2>1. read' = both.read /\ UNCHANGED <<value, shown>>
    BY <1>5 DEF Drain, DrainLinear, daemonVars
  <2> HIDE DEF again, document, state
  <2>2. "linear" \in Topics /\ "local" \in Topics /\ Behind(read, queued)
    BY DEF Topics, Behind, QueuedBehind
  <2>3. Batch(again + document, "linear", read, queued, first)
    BY <2>2, RequestedAsks
  <2> HIDE DEF first
  <2>4. Behind(first.read, first.queued)
    BY <2>3 DEF Batch, Behind
  <2>5. Batch(again + state, "local", first.read, first.queued, both)
    BY <2>2, <2>4, RequestedAsks
  <2> HIDE DEF both
  <2>6. \A x \in Topics : first.read[x] = read[x] \/ first.read[x] = ReadAsked
    BY <2>3 DEF Batch
  <2>7. \A x \in Topics : both.read[x] = first.read[x] \/ both.read[x] = ReadAsked
    BY <2>5 DEF Batch
  <2>8. \A x \in Topics : read'[x] = read[x] \/ read'[x] = ReadAsked
    BY <2>1, <2>6, <2>7
  <2> QED
    BY <1>1, <1>2, <2>1, <2>8 DEF ReadsFit
<1>6. CASE Drain /\ DrainBoard
  <2>1. UNCHANGED <<value, read>> /\ \A t \in Topics \ {"cards"} : shown'[t] = shown[t]
    BY <1>6 DEF Drain, DrainBoard, daemonVars
  <2> QED
    BY <1>1, <1>2, <2>1 DEF ReadsFit
<1>7. ASSUME NEW t \in Topics, WorkerReads(t) PROVE ReadsFit'
  <2>1. /\ read' = [read EXCEPT ![t] = [at |-> "answered", version |-> IF up THEN value[t] ELSE Nothing]]
        /\ UNCHANGED <<value, shown>>
    BY <1>7 DEF WorkerReads, daemonVars
  <2>2. ASSUME NEW x \in {"local", "linear"}, x # t PROVE Landed(x)'
    BY <1>1, <1>2, <2>1, <2>2
  <2>3. ASSUME t \in {"local", "linear"} PROVE Landed(t)'
    <3>1. Landed(t) /\ value[t] \in Nat
      BY <2>3 DEF ReadsFit
    <3>2. PICK v \in Int : /\ v = Nothing \/ v = value[t]
                           /\ read'[t] = [at |-> "answered", version |-> v]
      <4>1. value[t] \in Int /\ Nothing \in Int
        BY <3>1 DEF Nothing
      <4>2. DOMAIN read = Topics
        OBVIOUS
      <4>3. read'[t] = [at |-> "answered", version |-> IF up THEN value[t] ELSE Nothing]
        BY <2>1, <4>2
      <4> QED
        BY <4>1, <4>3
    <3>3. shown'[t] = shown[t] /\ value'[t] = value[t]
      BY <2>1
    <3> QED
      BY <3>1, <3>2, <3>3 DEF Landed
  <2> QED
    BY <2>2, <2>3 DEF ReadsFit
<1>8. CASE UNCHANGED feedVars
  BY <1>3, <1>8 DEF feedVars, daemonVars, boardVars
<1>9. CASE (\E e \in Events : Emit(e)) \/ Forward \/ FeedCrash \/ FeedRestart
           \/ FirstSubscribe \/ Resubscribe \/ Deliver \/ Hangup
  BY <1>3, <1>9 DEF Emit, Forward, FeedCrash, FeedRestart, FirstSubscribe, Resubscribe, Deliver,
                    Hangup, daemonVars, boardVars
<1> QED
  BY <1>4, <1>5, <1>6, <1>7, <1>8, <1>9 DEF FeedNext, Drain

(* A board at rest that listens shows what was written last, or nothing    *)
(* was written since it first subscribed: signals are coalesced, reads are *)
(* queued behind reads, queues overflow and daemons crash without a write  *)
(* going unseen, for a broadcast that keeps any number of events and any   *)
(* number of writes.  The one loss, of a Linear board whose receiver has   *)
(* lagged since it last subscribed, is that of the code.                   *)
THEOREM WritesAreSeen ==
  ASSUME MaxWrites \in Nat, Modes \subseteq {"board", "linear"}
  PROVE  FeedSpec => []NoWriteUnseen
<1>1. FeedInit => FeedInv /\ ReadsFit
  <2> SUFFICES ASSUME FeedInit PROVE FeedInv /\ ReadsFit
    OBVIOUS
  <2>1. FeedTyped
    <3>1. ring \in Seq(Events) /\ outbox \in Seq(Events)
      BY NothingCarried DEF FeedInit
    <3>2. value \in [Topics -> Nat] /\ DOMAIN read = Topics /\ DOMAIN shown = Topics
      BY DEF FeedInit
    <3>3. mode \in {"board", "linear"} /\ written \in 0 .. MaxWrites
      BY DEF FeedInit
    <3>4. announcing \subseteq Events /\ signals \subseteq Signals /\ queued \subseteq Topics
      BY DEF FeedInit
    <3>5. /\ up \in BOOLEAN /\ requests \in BOOLEAN /\ subscribed \in BOOLEAN
          /\ closed \in BOOLEAN /\ lagged \in BOOLEAN /\ overrun \in BOOLEAN /\ client = "starting"
      BY DEF FeedInit
    <3> QED
      BY <3>1, <3>2, <3>3, <3>4, <3>5 DEF FeedTyped
  <2>2. Connected /\ QueuedBehind
    BY DEF FeedInit, Connected, QueuedBehind
  <2>4. Seen
    BY DEF FeedInit, Seen, Coming
  <2>5. ReadsFit
    <3>1. ASSUME NEW t \in {"local", "linear"} PROVE Landed(t)
      <4>1. /\ t \in Topics /\ shown[t] = Nothing /\ value[t] = 0
            /\ read[t] \in {NoRead, ReadAsked}
        BY DEF FeedInit, Topics
      <4> QED
        BY <4>1 DEF Landed, NoRead, ReadAsked, Nothing
    <3> QED
      BY <3>1 DEF ReadsFit
  <2> QED
    BY <2>1, <2>2, <2>4, <2>5 DEF FeedInv
<1>2. FeedInv /\ ReadsFit /\ [FeedNext]_feedVars => FeedInv' /\ ReadsFit'
  <2> SUFFICES ASSUME FeedInv, ReadsFit, [FeedNext]_feedVars PROVE FeedInv' /\ ReadsFit'
    OBVIOUS
  <2>1. CASE LinearArrives \/ StateArrives
    BY <2>1, ArrivalsCome
  <2>2. CASE ~LinearArrives /\ ~StateArrives
    <3>1. ReadsFit'
      BY <2>2, ReadsKeepFit
    <3>2. ASSUME NEW e \in Events, Write(e) \/ Emit(e) PROVE FeedInv'
      BY <3>2, WriteComes, EmitComes
    <3>3. ASSUME UNCHANGED feedVars PROVE FeedInv'
      <4>1. /\ UNCHANGED <<mode, up, value, written, announcing, subscribed, ring, lagged, overrun>>
            /\ UNCHANGED <<outbox, closed, client, signals, requests, read, queued, shown, since>>
        BY <3>3 DEF feedVars, daemonVars, connVars, boardVars
      <4>2. FeedTyped'
        BY <4>1 DEF FeedInv, FeedTyped
      <4>3. Connected' /\ QueuedBehind'
        BY <4>1 DEF FeedInv, Connected, QueuedBehind
      <4>4. Seen'
        BY <4>1 DEF FeedInv, Seen, Coming, OnScreen
      <4> QED
        BY <4>2, <4>3, <4>4 DEF FeedInv
    <3>4. FeedInv'
      BY <2>2, <3>2, <3>3, ForwardComes, ConnectionComes, DeliverComes, DrainComes, WorkerComes
         DEF FeedNext
    <3> QED
      BY <3>1, <3>4
  <2> QED
    BY <2>1, <2>2
<1>3. FeedInv => NoWriteUnseen
  <2> SUFFICES ASSUME FeedInv, Quiet, mode = "board" => requests, mode = "linear" => ~overrun,
                      NEW t \in OnScreen
               PROVE  value[t] \in {shown[t], since[t]}
    BY DEF NoWriteUnseen
  <2>1. t \in Topics /\ (mode = "board" <=> t = "cards")
    BY ScreenTopics DEF FeedInv, FeedTyped
  <2>2. t \notin queued
    BY <2>1 DEF Quiet, FeedInv, QueuedBehind
  <2>3. /\ read[t] # ReadAsked
        /\ read[t] # [at |-> "answered", version |-> value[t]]
    BY <2>1 DEF Quiet, NoRead, ReadAsked
  <2>4. announcing \cup Carried(ring) \cup Carried(outbox) = {}
    BY NothingCarried DEF Quiet
  <2>5. ~Coming(t)
    BY <2>2, <2>3, <2>4 DEF Coming, Quiet, FeedInv, Connected
  <2> QED
    BY <2>5 DEF FeedInv, Seen
<1> QED
  BY <1>1, <1>2, <1>3, PTL DEF FeedSpec
=============================================================================

---------------------------- MODULE LinearCache ----------------------------
(***************************************************************************)
(* The shared Linear read of one space: the snapshot cache and the         *)
(* debouncer of linear/cache.rs, with the daemon operations of             *)
(* ops/linear/native.rs that use them. Callers are the threads of          *)
(* `linear.snapshot' requests and the one refetch thread, Worker. Nothing  *)
(* is shared between two keys but the condition variable, so one key is    *)
(* modelled.                                                               *)
(*                                                                         *)
(* A plan is named by the project it reads. The Linear workspace is a      *)
(* version number: how many writes it holds. A fetch answers with some     *)
(* version that was current while it was in flight.                        *)
(***************************************************************************)
EXTENDS Integers, FiniteSets

CONSTANTS
  Readers,      \* threads of linear.snapshot requests
  Worker,       \* the refetch thread
  Projects,     \* what a space can be bound to
  Unbound,      \* no binding
  TTL,          \* how many ticks a read stays fresh
  MaxNow,       \* bound: ticks of the clock
  MaxChanges,   \* bound: reported Linear writes and changes of the binding
  CanUnbind     \* whether the binding may be dropped, which lets a refetch remove the entry

VARIABLES
  now,       \* the monotonic clock
  linear,    \* the version Linear is at
  binding,   \* the project the store binds the space to, or Unbound
  binds,     \* how often the binding has changed
  entry,     \* the cache's entry for the space, or NoEntry
  call,      \* what each caller is doing in SnapshotCache::read
  pass,      \* the debouncer's mark for the space
  working,   \* where the refetch thread is between its passes
  reporting, \* a reporter has invalidated the entry and not yet scheduled the refetch
  reported,  \* history: the version the last report announced
  due,       \* history: a report scheduled a refetch and no pass began since
  removed    \* history: the entry was removed

vars == <<now, linear, binding, binds, entry, call, pass, working, reporting,
          reported, due, removed>>

Callers == Readers \cup {Worker}
Never == -1
NoEntry == [inFlight |-> FALSE]

Idle == [at |-> "idle"]
\* What a read gives back: CacheRead.
Answer(good, error) == [good |-> good, error |-> error]
NoGood == [plan |-> Unbound, version |-> Never]

Entry == [plan : Projects, good : [plan : Projects, version : 0..MaxChanges] \cup {NoGood},
          error : BOOLEAN, attempted : Never..MaxNow, invalidated : Never..MaxNow,
          inFlight : BOOLEAN]

TypeOK ==
  /\ now \in 0..MaxNow
  /\ linear \in 0..MaxChanges
  /\ binding \in Projects \cup {Unbound}
  /\ binds \in 0..MaxChanges
  /\ entry \in Entry \cup {NoEntry}
  /\ \A c \in Callers : call[c].at \in {"idle", "forcing", "called", "waiting",
                                        "fetching", "answered"}
  /\ pass \in {"none", "waiting", "running", "again"}
  /\ working \in {"asleep", "begun", "removing", "reading", "ended", "unwinding"}
  /\ reporting \in BOOLEAN
  /\ reported \in 0..MaxChanges
  /\ due \in BOOLEAN
  /\ removed \in BOOLEAN

Init ==
  /\ now = 0
  /\ linear = 0
  /\ binding \in Projects
  /\ binds = 0
  /\ entry = NoEntry
  /\ call = [c \in Callers |-> Idle]
  /\ pass = "none"
  /\ working = "asleep"
  /\ reporting = FALSE
  /\ reported = 0
  /\ due = FALSE
  /\ removed = FALSE

-----------------------------------------------------------------------------
(* Operators on an entry and on the callers.                               *)

Fresh(e, plan) ==
  /\ e # NoEntry
  /\ e.attempted # Never
  /\ e.plan = plan
  /\ now - e.attempted < TTL
  /\ e.invalidated = Never \/ e.attempted > e.invalidated

\* Condvar::notify_all, after the named caller moved to state s.
Settle(c, s) ==
  [d \in Callers |->
     IF d = c THEN s
     ELSE IF call[d].at = "waiting" THEN [call[d] EXCEPT !.at = "called"] ELSE call[d]]

\* The entry a fetching caller leaves: a new one, or the one found, whose
\* value goes when it was read for another plan.
Claimed(plan) ==
  IF entry = NoEntry
    THEN [plan |-> plan, good |-> NoGood, error |-> FALSE, attempted |-> Never,
          invalidated |-> Never, inFlight |-> TRUE]
  ELSE IF entry.plan # plan
    THEN [entry EXCEPT !.plan = plan, !.good = NoGood, !.error = FALSE, !.inFlight = TRUE]
  ELSE [entry EXCEPT !.inFlight = TRUE]

Invalidated == IF entry = NoEntry THEN entry ELSE [entry EXCEPT !.invalidated = now]

-----------------------------------------------------------------------------
(* The environment.                                                        *)

Tick ==
  /\ now < MaxNow
  /\ now' = now + 1
  /\ UNCHANGED <<linear, binding, binds, entry, call, pass, working, reporting,
                 reported, due, removed>>

\* linear.space.bind: only the store is written, the cache is left alone.
Rebind(p) ==
  /\ linear + binds < MaxChanges
  /\ p # binding
  /\ p = Unbound => CanUnbind
  /\ binding' = p
  /\ binds' = binds + 1
  /\ UNCHANGED <<now, linear, entry, call, pass, working, reporting, reported, due, removed>>

-----------------------------------------------------------------------------
(* A linear.snapshot request and SnapshotCache::read.                      *)

\* The request, of a thread that has none or has answered its last one, reads
\* the binding under the store lock and builds its plan.
Snapshot(r, force) ==
  /\ call[r].at \in {"idle", "answered"}
  /\ binding # Unbound
  /\ call' = [call EXCEPT ![r] = [at |-> IF force THEN "forcing" ELSE "called",
                                  plan |-> binding, since |-> reported]]
  /\ UNCHANGED <<now, linear, binding, binds, entry, pass, working, reporting, reported,
                 due, removed>>

\* A forced snapshot invalidates the entry before it reads.
ForceRead(r) ==
  /\ call[r].at = "forcing"
  /\ entry' = Invalidated
  /\ call' = [call EXCEPT ![r].at = "called"]
  /\ UNCHANGED <<now, linear, binding, binds, pass, working, reporting, reported, due, removed>>

AnswerFresh(c) ==
  /\ call[c].at = "called"
  /\ Fresh(entry, call[c].plan)
  /\ call' = [call EXCEPT ![c] = [at |-> "answered", plan |-> @.plan, since |-> @.since,
                                  answer |-> Answer(entry.good, entry.error)]]
  /\ UNCHANGED <<now, linear, binding, binds, entry, pass, working, reporting, reported,
                 due, removed>>

AwaitFetch(c) ==
  /\ call[c].at = "called"
  /\ ~Fresh(entry, call[c].plan)
  /\ entry.inFlight
  /\ call' = [call EXCEPT ![c].at = "waiting"]
  /\ UNCHANGED <<now, linear, binding, binds, entry, pass, working, reporting, reported,
                 due, removed>>

StartFetch(c) ==
  /\ call[c].at = "called"
  /\ ~Fresh(entry, call[c].plan)
  /\ ~entry.inFlight
  /\ entry' = Claimed(call[c].plan)
  /\ call' = [call EXCEPT ![c] = [at |-> "fetching", plan |-> @.plan, since |-> @.since,
                                  started |-> now, seen |-> linear]]
  /\ UNCHANGED <<now, linear, binding, binds, pass, working, reporting, reported, due, removed>>

FinishDatedNow(c, ok) == \* mutant: the read is dated by its end
  /\ call[c].at = "fetching"
  /\ \E v \in call[c].seen..linear :
       LET value == [plan |-> call[c].plan, version |-> v]
           good == IF ok THEN value ELSE IF entry = NoEntry THEN NoGood ELSE entry.good
       IN /\ v = call[c].seen \/ ok
          /\ entry' = IF entry = NoEntry THEN entry
                      ELSE [entry EXCEPT !.inFlight = FALSE, !.attempted = now,
                                         !.good = good, !.error = ~ok]
          /\ call' = Settle(c, [at |-> "answered", plan |-> call[c].plan,
                                since |-> call[c].since, answer |-> Answer(good, ~ok)])
  /\ UNCHANGED <<now, linear, binding, binds, pass, working, reporting, reported, due, removed>>

\* The fetch returns: its value or its error goes into whatever entry the key
\* has by then, dated by the start of the fetch.
FinishFetch(c, ok) ==
  /\ call[c].at = "fetching"
  /\ \E v \in call[c].seen..linear :
       LET value == [plan |-> call[c].plan, version |-> v]
           good == IF ok THEN value ELSE IF entry = NoEntry THEN NoGood ELSE entry.good
       IN /\ v = call[c].seen \/ ok
          /\ entry' = IF entry = NoEntry THEN entry
                      ELSE [entry EXCEPT !.inFlight = FALSE, !.attempted = call[c].started,
                                         !.good = good, !.error = ~ok]
          /\ call' = Settle(c, [at |-> "answered", plan |-> call[c].plan,
                                since |-> call[c].since, answer |-> Answer(good, ~ok)])
  /\ UNCHANGED <<now, linear, binding, binds, pass, working, reporting, reported, due, removed>>

\* A fetch that panics: InFlight clears the mark and wakes the waiters; the
\* refetch thread goes on unwinding.
UnwindMarked(c) == \* mutant: nothing clears the in-flight mark
  /\ call[c].at = "fetching"
  /\ call' = [call EXCEPT ![c] = Idle]
  /\ working' = IF c = Worker THEN "unwinding" ELSE working
  /\ UNCHANGED <<now, linear, binding, binds, entry, pass, reporting, reported, due, removed>>

UnwindFetch(c) ==
  /\ call[c].at = "fetching"
  /\ entry' = IF entry = NoEntry THEN entry ELSE [entry EXCEPT !.inFlight = FALSE]
  /\ call' = Settle(c, Idle)
  /\ working' = IF c = Worker THEN "unwinding" ELSE working
  /\ UNCHANGED <<now, linear, binding, binds, pass, reporting, reported, due, removed>>

\* The drop of ClearPass in a panicking refetch thread: the pass goes, whatever
\* `again' it holds, and nothing begins another.
ClearPass ==
  /\ working = "unwinding"
  /\ pass' = "none"
  /\ working' = "asleep"
  /\ UNCHANGED <<now, linear, binding, binds, entry, call, reporting, reported, due, removed>>

-----------------------------------------------------------------------------
(* A reported Linear write and the refetch it schedules.                   *)

\* linear.activity.record: Linear was written, and the entry is invalidated.
\* A space nobody has read schedules nothing.
Report ==
  /\ linear + binds < MaxChanges
  /\ ~reporting
  /\ linear' = linear + 1
  /\ reported' = linear + 1
  /\ entry' = Invalidated
  /\ reporting' = (entry # NoEntry)
  /\ UNCHANGED <<now, binding, binds, call, pass, working, due, removed>>

\* Debouncer::schedule.
ScheduleOnce == \* mutant: a report during a pass is folded into it
  /\ reporting
  /\ reporting' = FALSE
  /\ pass' = IF pass = "none" THEN "waiting" ELSE pass
  /\ due' = TRUE
  /\ UNCHANGED <<now, linear, binding, binds, entry, call, working, reported, removed>>

Schedule ==
  /\ reporting
  /\ reporting' = FALSE
  /\ pass' = CASE pass = "none" -> "waiting" [] pass = "running" -> "again" [] OTHER -> pass
  /\ due' = TRUE
  /\ UNCHANGED <<now, linear, binding, binds, entry, call, working, reported, removed>>

\* The refetch thread wakes and marks the pass as running.
StartPass ==
  /\ pass = "waiting"
  /\ working = "asleep"
  /\ pass' = "running"
  /\ working' = "begun"
  /\ due' = FALSE
  /\ UNCHANGED <<now, linear, binding, binds, entry, call, reporting, reported, removed>>

\* refetch: nobody has read the space, or its binding is gone, or its plan is
\* read through the cache like any other caller's.
Refetch ==
  /\ working = "begun"
  /\ IF entry # NoEntry /\ binding # Unbound
       THEN /\ call' = [call EXCEPT ![Worker] = [at |-> "called", plan |-> binding,
                                                since |-> reported]]
            /\ working' = "reading"
       ELSE /\ working' = IF entry = NoEntry THEN "ended" ELSE "removing"
            /\ UNCHANGED call
  /\ UNCHANGED <<now, linear, binding, binds, entry, pass, reporting, reported, due, removed>>

\* SnapshotCache::remove, on what the store said a lock ago.
RemoveEntry ==
  /\ working = "removing"
  /\ entry' = NoEntry
  /\ call' = Settle(Worker, Idle)
  /\ removed' = TRUE
  /\ working' = "ended"
  /\ UNCHANGED <<now, linear, binding, binds, pass, reporting, reported, due>>

Refetched ==
  /\ working = "reading"
  /\ call[Worker].at = "answered"
  /\ call' = [call EXCEPT ![Worker] = Idle]
  /\ working' = "ended"
  /\ UNCHANGED <<now, linear, binding, binds, entry, pass, reporting, reported, due, removed>>

\* After its work the thread goes round again or clears the pass and stops.
EndPass ==
  /\ working = "ended"
  /\ pass' = CASE pass = "again" -> "waiting" [] pass = "running" -> "none" [] OTHER -> pass
  /\ working' = "asleep"
  /\ UNCHANGED <<now, linear, binding, binds, entry, call, reporting, reported, due, removed>>

Next ==
  \/ Tick
  \/ \E p \in Projects \cup {Unbound} : Rebind(p)
  \/ \E r \in Readers : (\E force \in BOOLEAN : Snapshot(r, force)) \/ ForceRead(r)
  \/ \E c \in Callers :
       \/ AnswerFresh(c)
       \/ AwaitFetch(c)
       \/ StartFetch(c)
       \/ \E ok \in BOOLEAN : FinishFetch(c, ok)
       \/ UnwindFetch(c)
  \/ Report
  \/ Schedule
  \/ StartPass
  \/ Refetch
  \/ RemoveEntry
  \/ Refetched
  \/ EndPass
  \/ ClearPass

-----------------------------------------------------------------------------
(* Properties.                                                             *)

\* A caller waits for another's fetch only while some fetch is in flight: no
\* panic, removal or change of plan leaves it on the condition variable.
NoStrandedWaiter ==
  (\E c \in Callers : call[c].at = "waiting") => \E c \in Callers : call[c].at = "fetching"

\* As long as the entry is never removed, a read that carries no error and was
\* asked for after a Linear write was reported holds that write: a fetch that
\* was in flight when the report came does not answer it.
ReadsSeeReports ==
  ~removed => \A c \in Callers :
    (call[c].at = "answered" /\ ~call[c].answer.error /\ call[c].answer.good # NoGood)
      => call[c].answer.good.version >= call[c].since

\* A report that scheduled a refetch has a pass ahead of it that begins after
\* it, also when it came while a pass was running: no step takes that pass away
\* but the last one of a panicking refetch, and the next report is given one.
Followed == due => pass \in {"waiting", "again"}
RefetchFollowsReport ==
  /\ Followed
  /\ [][Followed \/ (reporting /\ ~reporting') =>
          Followed' \/ (working = "unwinding" /\ working' # working)]_vars

Spec == Init /\ [][Next]_vars
=============================================================================

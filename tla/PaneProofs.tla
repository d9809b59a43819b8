----------------------------- MODULE PaneProofs -----------------------------
(***************************************************************************)
(* Theorems about panes and the agents in them, for any panes, placers and *)
(* number of breaks, acts and retries: no exit of a watched pane is missed,*)
(* no agent is told anything twice, a run's rescue opens one pane in each  *)
(* workspace, nothing but a rescue that abandons its own workspace closes  *)
(* a pane that is a user's or an open run's, and a context has one board   *)
(* beside its agents.                                                      *)
(***************************************************************************)
EXTENDS PaneWatch, ManagedLaunch, CardTabs, BoardPanes, NaturalOrder, SequenceTheorems, TLAPS

-----------------------------------------------------------------------------
(* PaneWatch: the watched set, the streams and the active map.             *)
Refresh == [at : {"idle", "collect", "store"}, grouped : SUBSET Panes]
Follow == [panes : SUBSET Panes, at : {"absent", "down", "subscribed", "read", "up"},
           gone : SUBSET Panes]

WatchTyped ==
  /\ active \subseteq Panes /\ watched \subseteq Panes
  /\ refresh \in [Threads -> Refresh]
  /\ sock \in [Sockets -> Follow]
  /\ \A s \in Sockets : sock[s].panes \subseteq On(s, Panes)
  /\ exits \in [Sockets -> SUBSET Panes]
  /\ hops \in [Panes -> 0 .. 2]
  /\ breaks \in Nat

(* Every pane of the active map, or that was read from it, has had a run.  *)
FirstRunCounted ==
  /\ \A p \in active \cup watched : hops[p] # 0
  /\ \A t \in Threads : \A p \in refresh[t].grouped : hops[p] # 0
  /\ \A s \in Sockets : \A p \in sock[s].panes : hops[p] # 0

(* The followed panes that have exited under their first run.              *)
Missing(s) == {p \in sock[s].panes \cap active : p \notin alive /\ hops[p] = 1}

(* Their exits are in the snapshot being applied or in the stream.         *)
ExitKnown ==
  breaks = 0 => \A s \in Sockets :
    /\ sock[s].at = "read" => Missing(s) \subseteq sock[s].gone \cup exits[s]
    /\ sock[s].at = "up" => Missing(s) \subseteq exits[s]

WatchInv == WatchTyped /\ FirstRunCounted /\ ExitKnown

(* One field of one socket is written.                                     *)
LEMMA SockAtTyped ==
  ASSUME WatchTyped, NEW s \in Sockets, NEW a \in {"down", "subscribed", "read", "up"},
         sock' = [sock EXCEPT ![s].at = a]
  PROVE  /\ sock' \in [Sockets -> Follow]
         /\ sock'[s].at = a
         /\ \A q \in Sockets : /\ sock'[q].panes = sock[q].panes /\ sock'[q].gone = sock[q].gone
                               /\ q # s => sock'[q] = sock[q]
<1>1. sock \in [Sockets -> Follow]
  BY DEF WatchTyped
<1>2. sock' \in [Sockets -> Follow]
  BY <1>1 DEF Follow
<1> QED
  BY <1>1, <1>2 DEF Follow

LEMMA FollowKept ==
  ASSUME WatchTyped, NEW s \in Sockets, NEW a \in {"down", "subscribed", "read", "up"},
         sock' = [sock EXCEPT ![s].at = a]
  PROVE  /\ sock' \in [Sockets -> Follow]
         /\ \A q \in Sockets : sock'[q].panes = sock[q].panes
<1>1. /\ sock' \in [Sockets -> Follow]
      /\ \A q \in Sockets : sock'[q].panes = sock[q].panes /\ sock'[q].gone = sock[q].gone
  BY SockAtTyped
<1> QED
  BY <1>1

(* A step that takes no exit away, registers no run and follows no other   *)
(* pane keeps the exits known.                                             *)
LEMMA ExitsKept ==
  ASSUME WatchInv, breaks' = breaks, hops' = hops, active' \subseteq active,
         \A s \in Sockets :
           /\ sock'[s].at \in {"read", "up"} =>
                sock'[s].at = sock[s].at /\ sock'[s].panes = sock[s].panes
           /\ \A p \in active' : p \in sock[s].gone => p \in sock'[s].gone
           /\ \A p \in active' : p \in exits[s] => p \in exits'[s],
         alive \subseteq alive'
  PROVE  ExitKnown'
<1> SUFFICES ASSUME breaks = 0, NEW s \in Sockets
             PROVE  /\ sock'[s].at = "read" => Missing(s)' \subseteq sock'[s].gone \cup exits'[s]
                    /\ sock'[s].at = "up" => Missing(s)' \subseteq exits'[s]
  BY DEF ExitKnown
<1>1. sock'[s].at \in {"read", "up"} => Missing(s)' \subseteq Missing(s) \cap active'
  BY DEF Missing
<1>2. sock[s].at = "read" => Missing(s) \subseteq sock[s].gone \cup exits[s]
  BY DEF WatchInv, ExitKnown
<1>3. sock[s].at = "up" => Missing(s) \subseteq exits[s]
  BY DEF WatchInv, ExitKnown
<1> QED
  BY <1>1, <1>2, <1>3

(* Runs that start and end, and the refreshes that follow.                 *)
LEMMA RunsKeepExits ==
  ASSUME WatchInv, NEW t \in Threads, NEW p,
         \/ p \in Panes /\ (Registers(t, p) \/ Finalizes(t, p) \/ Spawned(p))
         \/ Collect(t) \/ Store(t)
  PROVE  WatchInv'
<1> USE DEF WatchInv, WatchTyped, FirstRunCounted
<1>1. CASE p \in Panes /\ Registers(t, p)
  <2>1. WatchTyped' /\ FirstRunCounted'
    BY <1>1 DEF Registers, Refreshes, Refresh
  <2>2. ExitKnown'
    <3> SUFFICES ASSUME breaks = 0, NEW s \in Sockets
                 PROVE  Missing(s)' \subseteq Missing(s)
      BY <1>1 DEF Registers, ExitKnown
    <3> QED
      BY <1>1 DEF Registers, Missing
  <2> QED
    BY <2>1, <2>2
<1>2. CASE p \in Panes /\ Finalizes(t, p)
  <2>1. WatchTyped' /\ FirstRunCounted'
    BY <1>2 DEF Finalizes, Refreshes, Refresh
  <2>2. ExitKnown'
    BY <1>2, ExitsKept DEF Finalizes
  <2> QED
    BY <2>1, <2>2
<1>3. CASE Collect(t)
  <2>1. WatchTyped' /\ FirstRunCounted'
    BY <1>3 DEF Collect, Refresh
  <2>2. ExitKnown'
    BY <1>3, ExitsKept DEF Collect
  <2> QED
    BY <2>1, <2>2
<1>4. CASE Store(t)
  <2>1. WatchTyped' /\ FirstRunCounted'
    BY <1>4 DEF Store, Refresh, NoPanes
  <2>2. ExitKnown'
    BY <1>4, ExitsKept DEF Store
  <2> QED
    BY <2>1, <2>2
<1>5. CASE p \in Panes /\ Spawned(p)
  <2>1. WatchTyped' /\ FirstRunCounted'
    BY <1>5 DEF Spawned
  <2>2. ExitKnown'
    BY <1>5, ExitsKept DEF Spawned
  <2> QED
    BY <2>1, <2>2
<1> QED
  BY <1>1, <1>2, <1>3, <1>4, <1>5

(* A pane that exits puts its exit in the open stream of its socket.       *)
LEMMA DeathKnown ==
  ASSUME WatchInv, NEW p \in Panes, Dies(p)
  PROVE  WatchInv'
<1> USE DEF WatchInv, WatchTyped, FirstRunCounted
<1>1. WatchTyped' /\ FirstRunCounted'
  BY DEF Dies
<1>2. ASSUME NEW s \in Sockets PROVE Missing(s)' \subseteq Missing(s) \cup (On(s, {p}))
  BY DEF Dies, Missing, On
<1>3. ASSUME NEW s \in Sockets, sock[s].at \in {"read", "up"}
      PROVE  exits'[s] = exits[s] \cup On(s, {p})
  BY <1>3 DEF Dies, Streaming, On
<1>4. sock' = sock /\ breaks' = breaks
  BY DEF Dies
<1>5. ExitKnown'
  BY <1>2, <1>3, <1>4 DEF ExitKnown
<1> QED
  BY <1>1, <1>5

(* sync_watches starts a socket anew, or leaves it alone.                  *)
LEMMA SyncKeepsExits ==
  ASSUME WatchInv, Sync
  PROVE  WatchInv'
<1> USE DEF WatchInv, WatchTyped, FirstRunCounted
<1>1. /\ DOMAIN sock' = Sockets /\ DOMAIN exits' = Sockets
      /\ UNCHANGED <<active, alive, refresh, watched, hops, breaks>>
  BY DEF Sync
<1>2. ASSUME NEW s \in Sockets
      PROVE  \/ sock'[s] = Absent /\ exits'[s] = NoPanes
             \/ /\ sock'[s] = [panes |-> On(s, watched), at |-> "down", gone |-> NoPanes]
                /\ exits'[s] = NoPanes
             \/ sock'[s] = sock[s] /\ exits'[s] = exits[s]
             \/ sock'[s] = sock[s] /\ exits'[s] = NoPanes /\ sock[s].at = "down"
  BY DEF Sync, Absent
<1>3. ASSUME NEW s \in Sockets
      PROVE  /\ sock'[s] \in Follow /\ sock'[s].panes \subseteq On(s, Panes)
             /\ exits'[s] \in SUBSET Panes
             /\ \A p \in sock'[s].panes : hops[p] # 0
             /\ sock'[s].at \in {"read", "up"} => sock'[s] = sock[s] /\ exits'[s] = exits[s]
  <2>1. CASE sock'[s] = Absent /\ exits'[s] = NoPanes
    BY <2>1 DEF Absent, NoPanes, Follow
  <2>2. CASE /\ sock'[s] = [panes |-> On(s, watched), at |-> "down", gone |-> NoPanes]
             /\ exits'[s] = NoPanes
    BY <2>2 DEF NoPanes, Follow, On
  <2>3. CASE sock'[s] = sock[s] /\ exits'[s] = exits[s]
    BY <2>3
  <2>4. CASE sock'[s] = sock[s] /\ exits'[s] = NoPanes /\ sock[s].at = "down"
    BY <2>4 DEF NoPanes
  <2> QED
    BY <1>2, <2>1, <2>2, <2>3, <2>4
<1>4. sock' \in [Sockets -> Follow] /\ exits' \in [Sockets -> SUBSET Panes]
  BY <1>3 DEF Sync
<1>5. WatchTyped' /\ FirstRunCounted'
  BY <1>1, <1>3, <1>4
<1>6. ASSUME NEW s \in Sockets, sock'[s].at \in {"read", "up"}
      PROVE  sock'[s] = sock[s] /\ exits'[s] = exits[s]
  BY <1>3, <1>6
<1>7. ExitKnown'
  BY <1>1, <1>6 DEF ExitKnown, Missing
<1> QED
  BY <1>5, <1>7

(* The exit of one pane, applied.                                          *)
LEMMA ExitedTyped ==
  ASSUME WatchInv, NEW p \in Panes, Exited(p)
  PROVE  active' = active \ {p} /\ refresh' \in [Threads -> Refresh]
         /\ \A t \in Threads : refresh'[t].grouped = refresh[t].grouped
<1> USE DEF WatchInv, WatchTyped
<1>1. CASE p \in active
  BY <1>1 DEF Exited, Refreshes, Refresh, Threads
<1>2. CASE p \notin active
  BY <1>2 DEF Exited
<1> QED
  BY <1>1, <1>2

(* The supervisor's own steps on one socket.                               *)
LEMMA SocketKeepsExits ==
  ASSUME WatchInv, NEW s \in Sockets,
         \/ Subscribe(s) \/ ReconcileSnapshot(s) \/ ReconcileFails(s) \/ Reconcile(s)
         \/ ReconcileAgain(s) \/ Poll(s) \/ Breaks(s)
  PROVE  WatchInv'
<1> USE DEF WatchInv, WatchTyped, FirstRunCounted
<1>1. CASE Subscribe(s) \/ ReconcileAgain(s)
  <2>1. /\ sock' = [sock EXCEPT ![s].at = "subscribed"]
        /\ UNCHANGED <<unborn, alive, active, refresh, watched, exits, hops, breaks>>
    BY <1>1 DEF Subscribe, ReconcileAgain
  <2>2. WatchTyped'
    BY <2>1, FollowKept
  <2>3. FirstRunCounted'
    BY <2>1, FollowKept
  <2>4. ExitKnown'
    BY <2>1, SockAtTyped, ExitsKept
  <2> QED
    BY <2>2, <2>3, <2>4
<1>2. CASE ReconcileSnapshot(s)
  <2>1. WatchTyped' /\ FirstRunCounted'
    BY <1>2 DEF ReconcileSnapshot, Follow
  <2>2. ASSUME NEW q \in Sockets, q # s
        PROVE  sock'[q] = sock[q] /\ exits'[q] = exits[q] /\ Missing(q)' = Missing(q)
    BY <1>2, <2>2 DEF ReconcileSnapshot, Missing
  <2>3. Missing(s)' \subseteq sock'[s].gone /\ sock'[s].at = "read"
    BY <1>2 DEF ReconcileSnapshot, Missing, Follow
  <2>4. ExitKnown'
    BY <1>2, <2>2, <2>3 DEF ExitKnown, ReconcileSnapshot
  <2> QED
    BY <2>1, <2>4
<1>3. CASE ReconcileFails(s) \/ Breaks(s)
  <2>1. /\ \E a \in {"down", "subscribed", "read", "up"} : sock' = [sock EXCEPT ![s].at = a]
        /\ UNCHANGED <<unborn, alive, active, refresh, watched, hops>> /\ breaks' = breaks + 1
        /\ \/ exits' = exits
           \/ exits' = [exits EXCEPT ![s] = NoPanes]
    BY <1>3 DEF ReconcileFails, Breaks
  <2>2. PICK a \in {"down", "subscribed", "read", "up"} : sock' = [sock EXCEPT ![s].at = a]
    BY <2>1
  <2>3. /\ sock' \in [Sockets -> Follow]
        /\ \A q \in Sockets : sock'[q].panes = sock[q].panes
    BY <2>2, FollowKept
  <2>4. exits' \in [Sockets -> SUBSET Panes]
    BY <2>1 DEF NoPanes
  <2>5. WatchTyped'
    BY <2>1, <2>3, <2>4
  <2>6. FirstRunCounted'
    BY <2>1, <2>3
  <2>7. breaks' # 0
    BY <2>1
  <2> QED
    BY <2>5, <2>6, <2>7 DEF ExitKnown
<1>4. CASE Reconcile(s)
  <2>1. CASE sock[s].gone = NoPanes
    <3>1. /\ sock' = [sock EXCEPT ![s].at = "up"] /\ sock[s].at = "read"
          /\ UNCHANGED <<unborn, alive, active, refresh, watched, exits, hops, breaks>>
      BY <1>4, <2>1 DEF Reconcile
    <3>2. /\ sock' \in [Sockets -> Follow]
          /\ \A q \in Sockets : sock'[q].panes = sock[q].panes
      BY <3>1, FollowKept
    <3>5. WatchTyped'
      BY <3>1, <3>2
    <3>6. FirstRunCounted'
      BY <3>1, <3>2
    <3>3. \A q \in Sockets : Missing(q)' = Missing(q)
      BY <3>1, SockAtTyped DEF Missing
    <3>4. ExitKnown'
      BY <2>1, <3>1, <3>3, SockAtTyped DEF ExitKnown, NoPanes
    <3> QED
      BY <3>4, <3>5, <3>6
  <2>2. CASE sock[s].gone # NoPanes
    <3>1. PICK p \in sock[s].gone :
            Exited(p) /\ sock' = [sock EXCEPT ![s].gone = @ \ {p}]
      BY <1>4, <2>2 DEF Reconcile
    <3>2. p \in Panes
      BY DEF Follow
    <3>3. /\ active' = active \ {p} /\ refresh' \in [Threads -> Refresh]
          /\ \A t \in Threads : refresh'[t].grouped = refresh[t].grouped
      BY <3>1, <3>2, ExitedTyped
    <3>4. UNCHANGED <<unborn, alive, watched, exits, hops, breaks>>
      BY <1>4 DEF Reconcile
    <3>5. WatchTyped'
      BY <3>1, <3>3, <3>4 DEF Follow
    <3>6. FirstRunCounted'
      BY <3>1, <3>3, <3>4 DEF Follow
    <3>7. ExitKnown'
      BY <3>1, <3>3, <3>4, ExitsKept DEF Follow
    <3> QED
      BY <3>5, <3>6, <3>7
  <2> QED
    BY <2>1, <2>2
<1>5. CASE Poll(s)
  <2>1. PICK p \in exits[s] : Exited(p) /\ exits' = [exits EXCEPT ![s] = @ \ {p}]
    BY <1>5 DEF Poll
  <2>2. p \in Panes
    OBVIOUS
  <2>3. /\ active' = active \ {p} /\ refresh' \in [Threads -> Refresh]
        /\ \A t \in Threads : refresh'[t].grouped = refresh[t].grouped
    BY <2>1, <2>2, ExitedTyped
  <2>4. UNCHANGED <<unborn, alive, watched, sock, hops, breaks>>
    BY <1>5 DEF Poll
  <2>5. WatchTyped' /\ FirstRunCounted'
    BY <2>1, <2>3, <2>4
  <2>6. ExitKnown'
    BY <2>1, <2>3, <2>4, ExitsKept
  <2> QED
    BY <2>5, <2>6
<1> QED
  BY <1>1, <1>2, <1>3, <1>4, <1>5

(* No order of the exit of a pane, the acknowledgement of a subscription,  *)
(* the snapshot and the registration of the pane's first run loses the     *)
(* exit between reconcile_socket's snapshot and the event stream, whatever *)
(* the number of panes, sockets and tasks.                                 *)
THEOREM ExitsNotMissed ==
  ASSUME MaxBreaks \in Nat
  PROVE  WatchSpec => []NoMissedExit
<1>1. WatchInit => WatchInv
  BY DEF WatchInit, WatchInv, WatchTyped, FirstRunCounted, ExitKnown, Absent, NoPanes, Refresh,
         Follow
<1>2. WatchInv /\ [WatchNext]_watchVars => WatchInv'
  <2> SUFFICES ASSUME WatchInv, [WatchNext]_watchVars PROVE WatchInv'
    OBVIOUS
  <2>1. CASE UNCHANGED watchVars
    BY <2>1 DEF watchVars, WatchInv, WatchTyped, FirstRunCounted, ExitKnown, Missing
  <2>2. ASSUME NEW p \in Panes, Spawned(p) PROVE WatchInv'
    BY <2>2, RunsKeepExits DEF Threads
  <2>3. ASSUME NEW t \in Threads, Collect(t) \/ Store(t) PROVE WatchInv'
    BY <2>3, RunsKeepExits
  <2> QED
    BY <2>1, <2>2, <2>3, RunsKeepExits, DeathKnown, SyncKeepsExits, SocketKeepsExits
    DEF WatchNext, Threads
<1>3. WatchInv => NoMissedExit
  BY DEF WatchInv, ExitKnown, Missing, NoMissedExit
<1> QED
  BY <1>1, <1>2, <1>3, PTL DEF WatchSpec

-----------------------------------------------------------------------------
(* ManagedLaunch: what the agent has been told at each phase.              *)

LaunchTyped ==
  /\ plan \in Plans
  /\ phase \in {"place", "start", "ready", "reuse", "session", "capture",
                "prompt", "handover", "launched", "failed"}
  /\ agent \in [is : {"shell", "starting", "ready", "gone"},
                turn : {"idle", "working"}, id : {NoId, Own, Foreign}]
  /\ told \in [system : 0 .. 1, task : 0 .. 1]

(* The plan, the pane and the file that fit the phase.                     *)
PhaseFits ==
  /\ phase \in {"start", "ready", "capture"} => ~plan.reuse
  /\ phase \in {"reuse", "session", "prompt"} => plan.prompt
  /\ phase = "reuse" => plan.reuse
  /\ phase \in {"place", "start"} => agent.is \in {"shell", "gone"}
  /\ agent.is = "starting" => phase \in {"ready", "failed"}
  /\ phase \in {"start", "ready"} => file = (plan.kind \in FileKinds)
  /\ phase = "failed" => file = FALSE

(* The instructions that the program reads before the prompt.              *)
FromFile == IF ~plan.reuse /\ plan.kind \in FileKinds THEN 1 ELSE 0

ToldSoFar ==
  /\ phase \in {"place", "start", "reuse"} => told = [system |-> 0, task |-> 0]
  /\ phase = "ready" => /\ told.task = 0
                        /\ agent.is = "starting" => told.system = 0
                        /\ agent.is = "ready" => told.system = FromFile
  /\ phase \in {"session", "capture", "prompt"} => told = [system |-> FromFile, task |-> 0]
  /\ phase \in {"handover", "launched"} => told = Expected

LaunchInv == LaunchTyped /\ PhaseFits /\ ToldSoFar

(* A failed launch leaves an agent that will be told nothing more.         *)
LEMMA FailKeepsTold ==
  ASSUME LaunchInv, Fail
  PROVE  LaunchInv'
<1>1. LaunchTyped'
  BY DEF LaunchInv, LaunchTyped, Fail
<1>2. PhaseFits'
  BY DEF LaunchInv, LaunchTyped, PhaseFits, Fail
<1>3. ToldSoFar'
  BY DEF Fail, ToldSoFar
<1> QED
  BY <1>1, <1>2, <1>3 DEF LaunchInv

(* The launch reaches the pane and starts the agent.                       *)
LEMMA StartKeepsTold ==
  ASSUME LaunchInv, Place \/ StartAccepted \/ StartBusy \/ NameTaken \/ PaneNotFound \/ StartLost
  PROVE  LaunchInv'
<1> USE DEF LaunchInv, LaunchTyped
<1>1. CASE Place
  <2>1. LaunchTyped'
    <3>1. plan' \in Plans
      BY <1>1 DEF Place, Plans
    <3>2. agent' \in [is : {"shell", "starting", "ready", "gone"},
                     turn : {"idle", "working"}, id : {NoId, Own, Foreign}]
      BY <1>1 DEF Place
    <3> QED
      BY <1>1, <3>1, <3>2 DEF Place
  <2>2. PhaseFits'
    BY <1>1 DEF Place, Plans, PhaseFits
  <2>3. ToldSoFar'
    BY <1>1 DEF Place, ToldSoFar
  <2> QED
    BY <2>1, <2>2, <2>3
<1>2. CASE StartAccepted
  <2>1. LaunchTyped'
    BY <1>2 DEF StartAccepted
  <2>2. PhaseFits'
    BY <1>2 DEF StartAccepted, PhaseFits
  <2>3. ToldSoFar'
    BY <1>2 DEF StartAccepted, ToldSoFar
  <2> QED
    BY <2>1, <2>2, <2>3
<1>3. CASE ~Fail /\ (StartBusy \/ NameTaken)
  <2>1. UNCHANGED <<plan, phase, file, agent, told>>
    BY <1>3 DEF StartBusy, NameTaken
  <2> QED
    BY <2>1 DEF PhaseFits, ToldSoFar, FromFile, Expected, Reused
<1>4. CASE ~Fail /\ PaneNotFound
  <2>1. LaunchTyped'
    BY <1>4 DEF PaneNotFound
  <2>2. PhaseFits'
    BY <1>4 DEF PaneNotFound, PhaseFits
  <2>3. ToldSoFar'
    BY <1>4 DEF PaneNotFound, ToldSoFar
  <2> QED
    BY <2>1, <2>2, <2>3
<1>5. CASE Fail \/ StartLost
  BY <1>5, FailKeepsTold DEF StartLost
<1> QED
  BY <1>1, <1>2, <1>3, <1>4, <1>5

(* The gates, the capture and the end of the launch.                       *)
LEMMA GatesKeepTold ==
  ASSUME LaunchInv, AwaitInteractive \/ AwaitReuse \/ AwaitSession \/ Capture \/ HandOver
  PROVE  LaunchInv'
<1> USE DEF LaunchInv, LaunchTyped
<1>1. CASE ~Fail /\ AwaitInteractive
  <2>1. GoTo(AfterReady) /\ phase = "ready" /\ agent.is = "ready"
    BY <1>1 DEF AwaitInteractive, interactive
  <2>2. AfterReady \in {"capture", "handover", "session", "prompt"}
    BY DEF AfterReady
  <2>3. LaunchTyped'
    BY <2>1, <2>2 DEF GoTo
  <2>4. PhaseFits'
    BY <2>1, <2>2 DEF GoTo, AfterReady, PhaseFits
  <2>5. told = [system |-> FromFile, task |-> 0]
    BY <2>1 DEF ToldSoFar
  <2>6. AfterReady = "handover" => told = Expected'
    BY <2>1, <2>5 DEF AfterReady, Expected, FromFile, Reused, GoTo, PhaseFits, Plans
  <2>7. ToldSoFar'
    BY <2>1, <2>2, <2>5, <2>6 DEF GoTo, ToldSoFar, FromFile
  <2> QED
    BY <2>3, <2>4, <2>7
<1>2. CASE ~Fail /\ AwaitReuse
  <2>1. GoTo("session") /\ phase = "reuse" /\ agent.is = "ready"
    BY <1>2 DEF AwaitReuse, interactive
  <2> QED
    BY <2>1 DEF GoTo, PhaseFits, ToldSoFar, FromFile
<1>3. CASE AwaitSession
  BY <1>3 DEF AwaitSession, GoTo, PhaseFits, ToldSoFar, FromFile
<1>4. CASE Capture \/ HandOver
  <2>1. /\ UNCHANGED <<plan, agent, told>> /\ file' = FALSE
        /\ \/ phase = "handover" /\ phase' = "launched"
           \/ phase = "capture" /\ phase' = IF plan.prompt THEN "prompt" ELSE "handover"
    BY <1>4 DEF Capture, HandOver
  <2>2. PhaseFits'
    BY <2>1 DEF PhaseFits
  <2>3. CASE phase = "handover"
    BY <2>1, <2>2, <2>3 DEF ToldSoFar, Expected, Reused
  <2>4. CASE phase = "capture"
    <3>1. ~plan.prompt => [system |-> FromFile, task |-> 0] = Expected
      BY <2>4 DEF Expected, FromFile, Reused, PhaseFits, Plans
    <3> QED
      BY <2>1, <2>2, <2>4, <3>1 DEF ToldSoFar, Expected, FromFile, Reused
  <2> QED
    BY <2>1, <2>3, <2>4
<1>5. CASE Fail
  BY <1>5, FailKeepsTold
<1> QED
  BY <1>1, <1>2, <1>3, <1>4, <1>5

(* The prompt, with what it adds when it lands.                            *)
LEMMA PromptKeepsTold ==
  ASSUME LaunchInv, PromptAccepted \/ PromptBusy \/ PromptLost
  PROVE  LaunchInv'
<1> USE DEF LaunchInv, LaunchTyped
<1>1. ASSUME phase = "prompt", Landed
      PROVE  told' \in [system : 0 .. 1, task : 0 .. 1]
  BY <1>1 DEF Landed, ToldSoFar, FromFile, FileKinds, MintingKinds
<1>2. CASE PromptAccepted
  <2>1. LaunchTyped'
    BY <1>1, <1>2 DEF PromptAccepted
  <2>2. PhaseFits'
    BY <1>2 DEF PromptAccepted, PhaseFits, interactive
  <2>3. told' = Expected'
    BY <1>2 DEF PromptAccepted, Landed, ToldSoFar, Expected, FromFile, Reused, PhaseFits, Plans,
                FileKinds, MintingKinds
  <2>4. ToldSoFar'
    BY <1>2, <2>3 DEF PromptAccepted, ToldSoFar
  <2> QED
    BY <2>1, <2>2, <2>4
<1>3. CASE ~Fail /\ PromptBusy
  <2>1. UNCHANGED <<plan, phase, file, agent, told>>
    BY <1>3 DEF PromptBusy
  <2> QED
    BY <2>1 DEF PhaseFits, ToldSoFar, FromFile, Expected, Reused
<1>4. CASE PromptLost
  <2>1. LaunchTyped'
    BY <1>1, <1>4 DEF PromptLost
  <2>2. PhaseFits'
    BY <1>4 DEF PromptLost, PhaseFits
  <2>3. ToldSoFar'
    BY <1>4 DEF PromptLost, ToldSoFar
  <2> QED
    BY <2>1, <2>2, <2>3
<1>5. CASE Fail
  BY <1>5, FailKeepsTold
<1> QED
  BY <1>2, <1>3, <1>4, <1>5

(* Herdr, the agent and the person.                                        *)
LEMMA AgentKeepsTold ==
  ASSUME LaunchInv, Boots \/ ReportsSession \/ Turns \/ Closes
  PROVE  LaunchInv'
<1> USE DEF LaunchInv, LaunchTyped
<1>1. CASE Boots
  <2>1. LaunchTyped'
    BY <1>1 DEF Boots, PhaseFits, ToldSoFar
  <2>2. PhaseFits'
    BY <1>1 DEF Boots, PhaseFits
  <2>3. phase = "ready" => told'.system = FromFile
    <3>1. ASSUME phase = "ready", plan.kind \in FileKinds PROVE told'.system = FromFile
      <4>1. file = TRUE /\ told.system = 0
        BY <1>1, <3>1 DEF Boots, PhaseFits, ToldSoFar
      <4>2. FromFile = 1
        BY <3>1 DEF PhaseFits, FromFile
      <4> QED
        BY <1>1, <4>1, <4>2 DEF Boots
    <3>2. CASE plan.kind \notin FileKinds
      BY <1>1, <3>2 DEF Boots, PhaseFits, ToldSoFar, FromFile
    <3> QED
      BY <3>1, <3>2
  <2>4. phase = "ready" => told'.task = 0
    BY <1>1 DEF Boots, ToldSoFar
  <2>5. ToldSoFar'
    BY <1>1, <2>3, <2>4 DEF Boots, PhaseFits, ToldSoFar, FromFile
  <2> QED
    BY <2>1, <2>2, <2>5
<1>2. CASE ReportsSession \/ Turns \/ Closes
  <2>1. /\ UNCHANGED <<plan, phase, file, told>>
        /\ agent' \in [is : {"shell", "starting", "ready", "gone"},
                       turn : {"idle", "working"}, id : {NoId, Own, Foreign}]
        /\ agent'.is = agent.is \/ agent'.is = "gone"
    BY <1>2 DEF ReportsSession, Turns, Closes, interactive
  <2>2. LaunchTyped'
    BY <2>1
  <2>3. PhaseFits'
    BY <2>1 DEF PhaseFits
  <2>4. ToldSoFar'
    BY <2>1 DEF ToldSoFar, FromFile, Expected, Reused
  <2> QED
    BY <2>2, <2>3, <2>4
<1> QED
  BY <1>1, <1>2

(* However the start, the gates and the prompt are refused, lost, retried  *)
(* or outlived by the agent, agent_prompt_with_busy_retry and the start    *)
(* tell the agent its task and its instructions at most once, and a launch *)
(* that succeeds has told it both as planned, for any number of retries.   *)
THEOREM NeverToldTwice == LaunchSpec => []ToldOnce
<1>1. LaunchInit => LaunchInv
  <2> SUFFICES ASSUME LaunchInit PROVE LaunchInv
    OBVIOUS
  <2>1. LaunchTyped
    BY DEF LaunchInit, LaunchTyped
  <2>2. PhaseFits
    BY DEF LaunchInit, PhaseFits
  <2>3. ToldSoFar
    BY DEF LaunchInit, ToldSoFar
  <2> QED
    BY <2>1, <2>2, <2>3 DEF LaunchInv
<1>2. LaunchInv /\ [LaunchNext]_launchVars => LaunchInv'
  <2> SUFFICES ASSUME LaunchInv, [LaunchNext]_launchVars PROVE LaunchInv'
    OBVIOUS
  <2>1. CASE UNCHANGED launchVars
    BY <2>1 DEF launchVars, LaunchInv, LaunchTyped, PhaseFits, ToldSoFar, FromFile, Expected, Reused
  <2> QED
    BY <2>1, StartKeepsTold, GatesKeepTold, PromptKeepsTold, AgentKeepsTold DEF LaunchNext
<1>3. LaunchInv => ToldOnce
  BY DEF LaunchInv, LaunchTyped, ToldSoFar, ToldOnce
<1> QED
  BY <1>1, <1>2, <1>3, PTL DEF LaunchSpec

-----------------------------------------------------------------------------
(* CardTabs: who may place panes, and which panes carry a run's marker.    *)

(* The steps between rescue_run_pane's search and its own marker.          *)
Seeking == Placing \ {"look", "trim"}

TabShape ==
  /\ made \in Nat /\ DOMAIN panes \subseteq 1 .. made /\ doubled \in BOOLEAN
  /\ \A q \in DOMAIN panes : {"mark", "space"} \subseteq DOMAIN panes[q]
  /\ DOMAIN job = Placers
  /\ \A p \in Placers : {"at", "run", "space", "reuse", "pane"} \subseteq DOMAIN job[p]
  /\ \E S : rows \in Seq(S)

(* Two placers hold two locks, of two workspaces.                          *)
LockHeld ==
  \A p, q \in Placers :
    job[p].at \in Placing /\ job[q].at \in Placing /\ job[p].space = job[q].space => p = q

RescuesNameRuns == \A p \in Placers \ {Dispatch} : job[p].at # "idle" => job[p].run # None

SoughtUnmarked ==
  \A p \in Placers \ {Dispatch} :
    job[p].at \in Seeking => \A q \in SpaceOf(job[p].space) : panes[q].mark # job[p].run

(* A rescue starts its harness in a pane that it split in its workspace.   *)
StartsInSpace(j) ==
  /\ j.reuse = None
  /\ j.at \in {"recover", "reclaim"} => j.pane = None
  /\ j.at = "start" => j.pane \in 1 .. made /\ (Live(j.pane) => panes[j.pane].space = j.space)

RescuesSplit == \A p \in Placers \ {Dispatch} : StartsInSpace(job[p])

OneSpace == ~doubled => \A q, r \in DOMAIN panes : panes[q].space = panes[r].space

TabInv ==
  /\ TabShape /\ LockHeld /\ RescuesNameRuns /\ SoughtUnmarked /\ RescuesSplit
  /\ OneSpace /\ OneRescuePane

(* The state of one placer changes: it keeps the run and the workspace     *)
(* that it is about.                                                       *)
Moves(p, to) ==
  /\ DOMAIN job' = Placers
  /\ \A q \in Placers \ {p} : job'[q] = job[q]
  /\ {"at", "run", "space", "reuse", "pane"} \subseteq DOMAIN job'[p]
  /\ job'[p].at \in to
  /\ job'[p].run = job[p].run /\ job'[p].space = job[p].space /\ job'[p].reuse = job[p].reuse

(* Set writes the fields it is given and keeps the others.                 *)
LEMMA SetKeepsRun ==
  ASSUME TabShape, NEW p \in Placers, NEW fields, NEW to,
         Set(p, fields), "at" \in DOMAIN fields, fields["at"] \in to,
         DOMAIN fields \cap {"run", "space", "reuse"} = {}
  PROVE  /\ Moves(p, to) /\ job'[p].at = fields["at"]
         /\ job'[p].pane = IF "pane" \in DOMAIN fields THEN fields["pane"] ELSE job[p].pane
<1>1. job'[p] = With(job[p], fields)
  BY DEF Set, TabShape
<1>2. /\ DOMAIN job'[p] = DOMAIN fields \cup DOMAIN job[p]
      /\ job'[p]["at"] = fields["at"] /\ job'[p]["run"] = job[p]["run"]
      /\ job'[p]["space"] = job[p]["space"] /\ job'[p]["reuse"] = job[p]["reuse"]
      /\ job'[p]["pane"] = IF "pane" \in DOMAIN fields THEN fields["pane"] ELSE job[p]["pane"]
  BY <1>1 DEF With, TabShape
<1> QED
  BY <1>2 DEF Set, TabShape, Moves

LEMMA NoJobFields ==
  /\ {"at", "run", "space", "reuse", "pane"} \subseteq DOMAIN NoJob
  /\ NoJob.at = "idle" /\ NoJob.run = None /\ NoJob.reuse = None
BY DEF NoJob

LEMMA ChooseMoves ==
  ASSUME TabShape, NEW p \in Placers, Choose(p)
  PROVE  /\ Moves(p, {"split", "reclaim", "recover", "create"})
         /\ UNCHANGED <<panes, made, rows, doubled>> /\ job[p].at = "choose"
         /\ job'[p].pane = None \/ (job'[p].pane = job[p].reuse /\ job[p].reuse \in DOMAIN panes)
<1>1. UNCHANGED <<panes, made, rows, doubled>> /\ job[p].at = "choose"
  BY DEF Choose
<1>2. PICK f :
        /\ Set(p, f) /\ DOMAIN f = {"at", "tab", "anchor", "pane", "close", "fresh"}
        /\ f["at"] \in {"split", "reclaim", "recover", "create"}
        /\ f["pane"] = None \/ (f["pane"] = job[p].reuse /\ Reusable(p))
  BY DEF Choose
<1>3. Reusable(p) => job[p].reuse \in DOMAIN panes
  BY DEF Reusable, CardTab, TabOf, SpaceOf
<1> QED
  BY <1>1, <1>2, <1>3, SetKeepsRun

(* Panes open without a marker, in a workspace that is open or in one that *)
(* `doubled` knows of; or they close, or change what runs in them.         *)
MarksKept ==
  /\ \A q \in DOMAIN panes' : {"mark", "space"} \subseteq DOMAIN panes'[q]
  /\ \A q \in DOMAIN panes' :
       \/ /\ q = made + 1 /\ panes'[q].mark = None
          /\ doubled' \/ \A r \in DOMAIN panes : panes'[q].space = panes[r].space
       \/ /\ q \in DOMAIN panes
          /\ panes'[q].mark = panes[q].mark /\ panes'[q].space = panes[q].space
  /\ made' \in Nat /\ made <= made' /\ DOMAIN panes' \subseteq 1 .. made'
  /\ doubled' \in BOOLEAN /\ (doubled => doubled')

LEMMA OpenedUnmarked ==
  ASSUME TabShape, NEW w, NEW t, NEW m, panes' = NewPane(w, t, m), made' = made + 1,
         doubled' \in BOOLEAN, doubled => doubled',
         doubled' \/ \A r \in DOMAIN panes : w = panes[r].space
  PROVE  MarksKept /\ made + 1 \in DOMAIN panes' /\ panes'[made + 1].space = w
<1>1. DOMAIN panes' = DOMAIN panes \cup {made + 1} /\ made + 1 \notin DOMAIN panes
  BY DEF NewPane, TabShape
<1>2. /\ {"mark", "space"} \subseteq DOMAIN panes'[made + 1]
      /\ panes'[made + 1].mark = None /\ panes'[made + 1].space = w
  BY <1>1 DEF NewPane
<1>3. \A q \in DOMAIN panes : q # made + 1 /\ panes'[q] = panes[q]
  BY <1>1 DEF NewPane, TabShape
<1>4. made' \in Nat /\ made <= made' /\ DOMAIN panes' \subseteq 1 .. made'
  BY <1>1 DEF TabShape
<1> QED
  BY <1>1, <1>2, <1>3, <1>4 DEF MarksKept, TabShape

LEMMA ClosedUnmarked ==
  ASSUME TabShape, NEW gone, panes' = Without(gone), made' = made, doubled' = doubled
  PROVE  MarksKept
BY DEF Without, TabShape, MarksKept

LEMMA UntouchedMarks ==
  ASSUME TabShape, panes' = panes, made' = made, doubled' = doubled
  PROVE  MarksKept
BY DEF TabShape, MarksKept

(* While no workspace has been made in vain, all panes are in one.         *)
LEMMA InTheSpace ==
  ASSUME TabInv, NEW w, NEW q \in SpaceOf(w)
  PROVE  doubled \/ \A r \in DOMAIN panes : w = panes[r].space
BY DEF TabInv, OneSpace, SpaceOf

(* What holds of all panes and of the other placers.                       *)
LEMMA OthersKept ==
  ASSUME TabInv, MarksKept
  PROVE  /\ OneSpace' /\ OneRescuePane'
         /\ \A j : StartsInSpace(j) => StartsInSpace(j)'
<1>1. OneSpace'
  BY DEF TabInv, OneSpace, MarksKept
<1>2. OneRescuePane'
  BY DEF TabInv, OneRescuePane, MarksKept
<1>3. ASSUME NEW j, StartsInSpace(j) PROVE StartsInSpace(j)'
  <2>1. ASSUME j.at = "start" PROVE j.pane \in 1 .. made' /\ j.pane # made + 1
    BY <1>3, <2>1 DEF StartsInSpace, MarksKept, TabInv, TabShape
  <2>2. ASSUME j.at = "start", j.pane \in DOMAIN panes' PROVE panes'[j.pane].space = j.space
    BY <1>3, <2>1, <2>2 DEF StartsInSpace, MarksKept, Live
  <2> QED
    BY <1>3, <2>1, <2>2 DEF StartsInSpace, Live
<1> QED
  BY <1>1, <1>2, <1>3

(* A step of one placer, to j, that marks no pane.                         *)
LEMMA StepKeepsRescue ==
  ASSUME TabInv, MarksKept, NEW p \in Placers, NEW j,
         \E S : rows' \in Seq(S),
         DOMAIN job' = Placers, job'[p] = j,
         {"at", "run", "space", "reuse", "pane"} \subseteq DOMAIN j,
         \A q \in Placers \ {p} : job'[q] = job[q],
         j.at \in Placing =>
           \A q \in Placers \ {p} : job[q].at \in Placing => job[q].space # j.space,
         p # Dispatch => /\ j.at # "idle" => j.run # None
                         /\ j.at \in Seeking => \A q \in SpaceOf(j.space)' : panes'[q].mark # j.run
                         /\ StartsInSpace(j)'
  PROVE  TabInv'
<1> USE DEF TabInv
<1>1. TabShape'
  BY DEF TabShape, MarksKept
<1>2. LockHeld'
  BY DEF LockHeld
<1>3. RescuesNameRuns'
  BY DEF RescuesNameRuns
<1>4. SoughtUnmarked'
  <2> SUFFICES ASSUME NEW f \in Placers \ {Dispatch}, NEW i, i = job'[f], i.at \in Seeking
               PROVE  \A q \in SpaceOf(i.space)' : panes'[q].mark # i.run
    BY DEF SoughtUnmarked, SpaceOf
  <2>1. CASE f = p
    BY <2>1
  <2>2. CASE f # p
    <3>1. i = job[f] /\ i.run # None
      BY <2>2 DEF RescuesNameRuns, Seeking, Placing
    <3>2. \A q \in SpaceOf(i.space) : panes[q].mark # i.run
      BY <3>1 DEF SoughtUnmarked
    <3> QED
      BY <3>1, <3>2 DEF SpaceOf, MarksKept
  <2> QED
    BY <2>1, <2>2
<1>5. RescuesSplit'
  <2> SUFFICES ASSUME NEW f \in Placers \ {Dispatch}, NEW i, i = job'[f] PROVE StartsInSpace(i)'
    BY DEF RescuesSplit, StartsInSpace, Live
  <2>1. f # p => StartsInSpace(i)
    BY DEF RescuesSplit
  <2> QED
    BY <2>1, OthersKept
<1>6. OneSpace' /\ OneRescuePane'
  BY OthersKept
<1> QED
  BY <1>1, <1>2, <1>3, <1>4, <1>5, <1>6

(* A placer that holds its lock goes on with it.                           *)
LEMMA HolderGoesOn ==
  ASSUME TabInv, MarksKept, NEW p \in Placers, rows' = rows,
         job[p].at \in Seeking, Moves(p, Seeking),
         p # Dispatch => /\ job'[p].at \in {"recover", "reclaim"} => job'[p].pane = None
                         /\ job'[p].at = "start" => /\ job'[p].pane = made + 1 /\ made' = made + 1
                                                    /\ panes'[made + 1].space = job[p].space
  PROVE  TabInv'
<1>1. PICK j : j = job'[p]
  OBVIOUS
<1>2. /\ j.run = job[p].run /\ j.space = job[p].space /\ j.reuse = job[p].reuse
      /\ j.at \in Seeking /\ {"at", "run", "space", "reuse", "pane"} \subseteq DOMAIN j
      /\ job[p].at \in Placing /\ job[p].at # "idle"
  BY <1>1 DEF Moves, Seeking, Placing
<1>3. \A q \in Placers \ {p} : job[q].at \in Placing => job[q].space # j.space
  BY <1>2 DEF TabInv, LockHeld
<1>4. ASSUME p # Dispatch PROVE j.run # None /\ j.reuse = None
  BY <1>2, <1>4 DEF TabInv, RescuesNameRuns, RescuesSplit, StartsInSpace
<1>5. ASSUME p # Dispatch PROVE \A q \in SpaceOf(j.space)' : panes'[q].mark # j.run
  <2>1. \A q \in SpaceOf(j.space) : panes[q].mark # j.run
    BY <1>2, <1>5 DEF TabInv, SoughtUnmarked
  <2> QED
    BY <1>4, <1>5, <2>1 DEF SpaceOf, MarksKept
<1>6. ASSUME p # Dispatch PROVE StartsInSpace(j)'
  <2>1. made \in Nat
    BY DEF TabInv, TabShape
  <2>2. j.at = "start" => j.pane \in 1 .. made' /\ panes'[j.pane].space = j.space
    BY <1>1, <1>2, <1>6, <2>1
  <2>3. j.at \in {"recover", "reclaim"} => j.pane = None
    BY <1>1, <1>6
  <2> QED
    BY <1>4, <1>6, <2>2, <2>3 DEF StartsInSpace
<1>7. \E S : rows' \in Seq(S)
  BY DEF TabInv, TabShape
<1> QED
  BY <1>1, <1>2, <1>3, <1>4, <1>5, <1>6, <1>7, StepKeepsRescue DEF Moves

(* A placer that ends its placement gives the lock up.                     *)
LEMMA ReleaseKeepsRescue ==
  ASSUME TabInv, MarksKept, NEW p \in Placers, rows' = rows, Release(p)
  PROVE  TabInv'
<1>1. job'[p] = NoJob /\ DOMAIN job' = Placers /\ \A q \in Placers \ {p} : job'[q] = job[q]
  BY DEF Release, TabInv, TabShape
<1>2. \E S : rows' \in Seq(S)
  BY DEF TabInv, TabShape
<1>3. StartsInSpace(NoJob)'
  BY NoJobFields DEF StartsInSpace
<1>4. NoJob.at \notin Placing /\ NoJob.at \notin Seeking
  BY NoJobFields DEF Seeking, Placing
<1> QED
  BY <1>1, <1>2, <1>3, <1>4, NoJobFields, StepKeepsRescue

(* The plans: what a placer has read before it has the lock.               *)
LEMMA PlanKeepsRescue ==
  ASSUME TabInv, NEW p \in Placers, NEW draft, Set(p, draft), UNCHANGED <<panes, made, rows, doubled>>,
         job[p].at = "idle", "at" \in DOMAIN draft, draft["at"] \in {"planned", "vacant"},
         p # Dispatch => /\ "run" \in DOMAIN draft /\ draft["run"] # None
                         /\ {"reuse", "pane"} \cap DOMAIN draft = {}
  PROVE  TabInv'
<1>1. PICK j : j = job'[p]
  OBVIOUS
<1>2. DOMAIN job' = Placers /\ j = With(job[p], draft) /\ \A q \in Placers \ {p} : job'[q] = job[q]
  BY <1>1 DEF Set, TabInv, TabShape
<1>3. /\ {"at", "run", "space", "reuse", "pane"} \subseteq DOMAIN j
      /\ j.at = draft["at"]
      /\ p # Dispatch => j.run = draft["run"] /\ j.reuse = job[p].reuse /\ j.pane = job[p].pane
  BY <1>2 DEF With, TabInv, TabShape
<1>4. j.at \notin Placing /\ j.at \notin Seeking /\ j.at \notin {"recover", "reclaim", "start"}
  BY <1>3 DEF Seeking, Placing
<1>5. p # Dispatch => StartsInSpace(j)'
  BY <1>3, <1>4 DEF TabInv, RescuesSplit, StartsInSpace
<1>6. MarksKept
  BY UntouchedMarks DEF TabInv
<1>7. \E S : rows' \in Seq(S)
  BY DEF TabInv, TabShape
<1> QED
  BY <1>1, <1>2, <1>3, <1>4, <1>5, <1>6, <1>7, StepKeepsRescue

LEMMA PlansKeepRescue ==
  ASSUME TabInv,
         \/ \E managed, resumes \in BOOLEAN : PlanLaunch(managed, resumes)
         \/ \E p \in Focusers, i \in DOMAIN rows : PlanRescue(p, i)
  PROVE  TabInv'
<1>1. CASE \E managed, resumes \in BOOLEAN : PlanLaunch(managed, resumes)
  <2>1. PICK draft :
          /\ Set(Dispatch, draft) /\ "at" \in DOMAIN draft /\ draft["at"] \in {"planned", "vacant"}
          /\ UNCHANGED <<panes, made, rows, doubled>> /\ job[Dispatch].at = "idle"
    BY <1>1 DEF PlanLaunch, resolve_space, With, Planned
  <2> QED
    BY <2>1, PlanKeepsRescue DEF Placers
<1>2. CASE \E p \in Focusers, i \in DOMAIN rows : PlanRescue(p, i)
  <2>1. PICK p \in Focusers, i \in DOMAIN rows : PlanRescue(p, i)
    BY <1>2
  <2>2. p \in Placers /\ i # None
    BY DEF Placers, None, TabInv, TabShape
  <2>3. /\ "at" \in DOMAIN rescue_run(i) /\ rescue_run(i)["at"] \in {"planned", "vacant"}
        /\ "run" \in DOMAIN rescue_run(i) /\ rescue_run(i)["run"] = i
        /\ {"reuse", "pane"} \cap DOMAIN rescue_run(i) = {}
    BY DEF rescue_run, With, Planned, resolve_space
  <2>4. Set(p, rescue_run(i)) /\ UNCHANGED <<panes, made, rows, doubled>> /\ job[p].at = "idle"
    BY <2>1 DEF PlanRescue
  <2> QED
    BY <2>2, <2>3, <2>4, PlanKeepsRescue
<1> QED
  BY <1>1, <1>2

(* A workspace is made for one placer; what others have found is kept.     *)
LEMMA SpaceKeepsRescue ==
  ASSUME TabInv, NEW p \in Placers, CreateSpace(p)
  PROVE  TabInv'
<1> DEFINE fields == [at |-> "planned", space |-> made + 1, boot |-> TRUE]
<1>1. /\ Set(p, fields) /\ panes' = NewPane(made + 1, made + 1, "board") /\ made' = made + 1
      /\ doubled' = (doubled \/ Spaces # {}) /\ rows' = rows /\ job[p].at = "vacant"
  BY DEF CreateSpace
<1>2. DOMAIN fields = {"at", "space", "boot"} /\ fields["at"] = "planned"
  OBVIOUS
<1> HIDE DEF fields
<1>3. PICK j : j = job'[p]
  OBVIOUS
<1>4. DOMAIN job' = Placers /\ j = With(job[p], fields) /\ \A q \in Placers \ {p} : job'[q] = job[q]
  BY <1>1, <1>3 DEF Set, TabInv, TabShape
<1>5. /\ {"at", "run", "space", "reuse", "pane"} \subseteq DOMAIN j
      /\ j.at = "planned" /\ j.run = job[p].run /\ j.reuse = job[p].reuse
  BY <1>2, <1>4 DEF With, TabInv, TabShape
<1>6. j.at \notin Placing /\ j.at \notin Seeking /\ j.at \notin {"recover", "reclaim", "start"}
  BY <1>5 DEF Seeking, Placing
<1>7. p # Dispatch => StartsInSpace(j)' /\ j.run # None
  BY <1>1, <1>5, <1>6 DEF TabInv, RescuesSplit, StartsInSpace, RescuesNameRuns
<1>8. /\ doubled' \in BOOLEAN /\ (doubled => doubled')
      /\ doubled' \/ \A r \in DOMAIN panes : made + 1 = panes[r].space
  BY <1>1 DEF Spaces, TabInv, TabShape
<1>9. MarksKept
  BY <1>1, <1>8, OpenedUnmarked DEF TabInv
<1>10. \E S : rows' \in Seq(S)
  BY <1>1 DEF TabInv, TabShape
<1> QED
  BY <1>3, <1>4, <1>5, <1>6, <1>7, <1>9, <1>10, StepKeepsRescue

(* The lock is taken, the marker is looked for, and a pane is chosen.      *)
LEMMA ChoiceKeepsRescue ==
  ASSUME TabInv, NEW p \in Placers,
         TakeLock(p) \/ Refused(p) \/ (p \in Focusers /\ Look(p)) \/ Choose(p)
  PROVE  TabInv'
<1>1. \E S : rows \in Seq(S)
  BY DEF TabInv, TabShape
<1>2. CASE TakeLock(p)
  <2>1. PICK j : j = job'[p]
    OBVIOUS
  <2>2. /\ Moves(p, {"choose", "look"}) /\ j.at = (IF p = Dispatch THEN "choose" ELSE "look")
        /\ j.pane = job[p].pane
    BY <1>2, <2>1, SetKeepsRun DEF TakeLock, TabInv
  <2>3. /\ UNCHANGED <<panes, made, rows, doubled>> /\ job[p].at = "planned"
        /\ \A q \in Placers : job[q].at \in Placing => job[q].space # job[p].space
    BY <1>2 DEF TakeLock
  <2>4. MarksKept
    BY <2>3, UntouchedMarks DEF TabInv
  <2>5. p # Dispatch => j.run # None /\ j.at = "look"
    BY <2>1, <2>2, <2>3 DEF Moves, TabInv, RescuesNameRuns
  <2>6. p # Dispatch => StartsInSpace(j)'
    BY <2>1, <2>2, <2>3, <2>5 DEF Moves, TabInv, RescuesSplit, StartsInSpace
  <2>7. p # Dispatch => j.at \notin Seeking
    BY <2>5 DEF Seeking
  <2> QED
    BY <1>1, <2>1, <2>2, <2>3, <2>4, <2>5, <2>6, <2>7, StepKeepsRescue DEF Moves
<1>3. CASE Refused(p) \/ (p \in Focusers /\ Look(p) /\ Release(p) /\ UNCHANGED panes)
  <2>1. MarksKept /\ rows' = rows /\ Release(p)
    BY <1>3, UntouchedMarks DEF TabInv, Look, Refused
  <2> QED
    BY <2>1, ReleaseKeepsRescue
<1>4. CASE p \in Focusers /\ Look(p) /\ ~(Release(p) /\ UNCHANGED panes)
  <2> DEFINE marked == {q \in SpaceOf(job[p].space) : panes[q].mark = job[p].run}
  <2>1. /\ panes' = Without({q \in marked : panes[q].agent # "busy"})
        /\ Set(p, [at |-> "choose"]) /\ UNCHANGED <<made, rows, doubled>>
        /\ job[p].at = "look"
        /\ \A q \in marked : panes[q].agent = "none"
    BY <1>4 DEF Look
  <2>2. \A q \in DOMAIN panes' : q \in DOMAIN panes /\ q \notin marked /\ panes'[q] = panes[q]
    BY <2>1 DEF Without
  <2>3. PICK j : j = job'[p]
    OBVIOUS
  <2>4. Moves(p, {"choose"}) /\ j.at = "choose" /\ j.pane = job[p].pane
    BY <2>1, <2>3, SetKeepsRun DEF TabInv
  <2>5. MarksKept
    BY <2>1, ClosedUnmarked DEF TabInv
  <2>6. \A q \in SpaceOf(j.space)' : panes'[q].mark # j.run
    BY <2>2, <2>3, <2>4 DEF Moves, SpaceOf
  <2>7. \A q \in Placers \ {p} : job[q].at \in Placing => job[q].space # j.space
    BY <2>1, <2>3, <2>4 DEF TabInv, LockHeld, Placing, Moves
  <2>8. p # Dispatch => j.run # None /\ StartsInSpace(j)'
    BY <2>1, <2>3, <2>4 DEF TabInv, RescuesNameRuns, RescuesSplit, StartsInSpace, Moves
  <2>9. \E S : rows' \in Seq(S)
    BY <1>1, <2>1
  <2> HIDE DEF marked
  <2> QED
    BY <2>3, <2>4, <2>5, <2>6, <2>7, <2>8, <2>9, StepKeepsRescue DEF Moves
<1>5. CASE Choose(p)
  <2>1. /\ Moves(p, {"split", "reclaim", "recover", "create"})
        /\ UNCHANGED <<panes, made, rows, doubled>> /\ job[p].at \in Seeking
        /\ job'[p].pane = None \/ (job'[p].pane = job[p].reuse /\ job[p].reuse \in DOMAIN panes)
    BY <1>5, ChooseMoves DEF TabInv, Seeking, Placing
  <2>2. MarksKept
    BY <2>1, UntouchedMarks DEF TabInv
  <2>3. p # Dispatch => job'[p].pane = None
    BY <2>1 DEF TabInv, RescuesSplit, StartsInSpace, TabShape, None
  <2>4. Moves(p, Seeking) /\ job'[p].at # "start"
    BY <2>1 DEF Moves, Seeking, Placing
  <2> QED
    BY <2>1, <2>2, <2>3, <2>4, HolderGoesOn
<1> QED
  BY <1>2, <1>3, <1>4, <1>5

(* A pane that vanished starts a dispatch over, and ends a rescue.         *)
LEMMA RacedKeepsRescue ==
  ASSUME TabInv, NEW p \in Placers, job[p].at \in Seeking, Raced(p),
         UNCHANGED <<panes, made, rows, doubled>>
  PROVE  TabInv'
<1>1. MarksKept
  BY UntouchedMarks DEF TabInv
<1>2. CASE Release(p)
  BY <1>1, <1>2, ReleaseKeepsRescue
<1>3. CASE ~Release(p)
  <2>1. Set(p, [at |-> "choose", retried |-> TRUE])
    BY <1>3 DEF Raced
  <2>2. Moves(p, Seeking) /\ job'[p].at = "choose"
    BY <2>1, SetKeepsRun DEF TabInv, Seeking, Placing
  <2> QED
    BY <1>1, <2>1, <2>2, HolderGoesOn
<1> QED
  BY <1>2, <1>3

(* Panes are split, reclaimed and made.                                    *)
LEMMA PlacementKeepsRescue ==
  ASSUME TabInv, NEW p \in Placers,
         Reanchor(p) \/ Reclaim(p) \/ CreateTab(p) \/ SplitChild(p) \/ StartOnGonePane(p)
  PROVE  TabInv'
<1>1. job[p].at \in Seeking /\ UNCHANGED <<rows, doubled>>
  BY DEF Reanchor, Reclaim, CreateTab, SplitChild, StartOnGonePane, Seeking, Placing
<1>2. CASE Raced(p) /\ UNCHANGED <<panes, made>>
  BY <1>1, <1>2, RacedKeepsRescue
<1>3. CASE ~(Raced(p) /\ UNCHANGED <<panes, made>>)
  <2>1. PICK f :
          /\ Set(p, f) /\ "at" \in DOMAIN f /\ f["at"] \in {"reclaim", "start", "split"}
          /\ DOMAIN f \cap {"run", "space", "reuse"} = {}
          /\ f["at"] = "reclaim" => "pane" \notin DOMAIN f /\ job[p].at = "recover"
          /\ \/ /\ \E t, m : panes' = NewPane(job[p].space, t, m)
                /\ made' = made + 1 /\ \E q : q \in SpaceOf(job[p].space)
                /\ f["at"] = "start" => "pane" \in DOMAIN f /\ f["pane"] = made + 1
             \/ /\ \E gone : panes' = Without(gone)
                /\ made' = made
                /\ job[p].at = "reclaim" /\ (f["at"] = "start" => job[p].pane # None)
    <3>1. CASE Reanchor(p)
      <4> DEFINE f == [at |-> "reclaim", anchor |-> made + 1]
      <4>1. Set(p, f) /\ panes' = NewPane(job[p].space, job[p].tab, "board") /\ made' = made + 1
            /\ job[p].at = "recover" /\ job[p].anchor \in SpaceOf(job[p].space)
        BY <1>3, <3>1 DEF Reanchor, CanSplit
      <4>2. DOMAIN f = {"at", "anchor"} /\ f["at"] = "reclaim"
        OBVIOUS
      <4> HIDE DEF f
      <4> QED
        BY <4>1, <4>2
    <3>2. CASE Reclaim(p)
      <4> DEFINE f == [at |-> IF job[p].pane # None THEN "start" ELSE "split"]
      <4>1. Set(p, f) /\ panes' = Without(job[p].close) /\ made' = made /\ job[p].at = "reclaim"
        BY <3>2 DEF Reclaim
      <4>2. DOMAIN f = {"at"} /\ f["at"] = IF job[p].pane # None THEN "start" ELSE "split"
        OBVIOUS
      <4> HIDE DEF f
      <4> QED
        BY <4>1, <4>2
    <3>3. CASE CreateTab(p)
      <4> DEFINE f == [at |-> "split", tab |-> made + 1, anchor |-> made + 1]
      <4>1. Set(p, f) /\ panes' = NewPane(job[p].space, made + 1, "board") /\ made' = made + 1
            /\ \E q : q \in SpaceOf(job[p].space)
        BY <3>3 DEF CreateTab, Spaces, SpaceOf
      <4>2. DOMAIN f = {"at", "tab", "anchor"} /\ f["at"] = "split"
        OBVIOUS
      <4> HIDE DEF f
      <4> QED
        BY <4>1, <4>2
    <3>4. CASE SplitChild(p)
      <4> DEFINE f == [at |-> "start", pane |-> made + 1]
      <4>1. Set(p, f) /\ panes' = NewPane(job[p].space, job[p].tab, "board") /\ made' = made + 1
            /\ job[p].anchor \in SpaceOf(job[p].space)
        BY <1>3, <3>4 DEF SplitChild, CanSplit
      <4>2. DOMAIN f = {"at", "pane"} /\ f["at"] = "start" /\ f["pane"] = made + 1
        OBVIOUS
      <4> HIDE DEF f
      <4> QED
        BY <4>1, <4>2
    <3> QED
      BY <1>3, <3>1, <3>2, <3>3, <3>4 DEF StartOnGonePane
  <2>2. /\ Moves(p, {"reclaim", "start", "split"}) /\ job'[p].at = f["at"]
        /\ job'[p].pane = IF "pane" \in DOMAIN f THEN f["pane"] ELSE job[p].pane
    BY <2>1, SetKeepsRun DEF TabInv
  <2>3. Moves(p, Seeking) /\ job'[p].at # "recover"
    BY <2>2 DEF Moves, Seeking, Placing
  <2>4. CASE /\ \E t, m : panes' = NewPane(job[p].space, t, m)
             /\ made' = made + 1 /\ \E q : q \in SpaceOf(job[p].space)
             /\ f["at"] = "start" => "pane" \in DOMAIN f /\ f["pane"] = made + 1
    <3>1. doubled \in BOOLEAN /\ (doubled \/ \A r \in DOMAIN panes : job[p].space = panes[r].space)
      BY <2>4, InTheSpace DEF TabInv, TabShape
    <3>2. MarksKept /\ panes'[made + 1].space = job[p].space
      BY <1>1, <2>4, <3>1, OpenedUnmarked DEF TabInv
    <3>3. job'[p].at = "reclaim" => job[p].at = "recover" /\ job'[p].pane = job[p].pane
      BY <2>1, <2>2
    <3>4. p # Dispatch /\ job'[p].at = "reclaim" => job'[p].pane = None
      BY <3>3 DEF TabInv, RescuesSplit, StartsInSpace
    <3>5. job'[p].at = "start" => job'[p].pane = made + 1
      BY <2>2, <2>4
    <3> QED
      BY <1>1, <2>3, <2>4, <3>2, <3>4, <3>5, HolderGoesOn
  <2>5. CASE /\ \E gone : panes' = Without(gone)
             /\ made' = made
             /\ job[p].at = "reclaim" /\ (f["at"] = "start" => job[p].pane # None)
    <3>1. MarksKept
      BY <1>1, <2>5, ClosedUnmarked DEF TabInv
    <3>2. p # Dispatch => job[p].pane = None
      BY <2>5 DEF TabInv, RescuesSplit, StartsInSpace
    <3>3. job'[p].at # "reclaim"
      BY <2>1, <2>2, <2>5
    <3> QED
      BY <1>1, <2>2, <2>3, <2>5, <3>1, <3>2, <3>3, HolderGoesOn
  <2> QED
    BY <2>1, <2>4, <2>5
<1> QED
  BY <1>2, <1>3

(* launch_rescue's own marker: no pane of its workspace has it yet.        *)
LEMMA MarkKeepsRescue ==
  ASSUME TabInv, NEW p \in Placers, Start(p)
  PROVE  TabInv'
<1> DEFINE x == job[p].pane
<1>1. /\ job[p].at = "start" /\ x \in DOMAIN panes /\ UNCHANGED <<made, rows, doubled>>
      /\ Set(p, [at |-> "trim"])
  BY DEF Start, Live
<1>2. job[p].at \in Seeking /\ job[p].at \in Placing
  BY <1>1 DEF Seeking, Placing
<1>3. Moves(p, {"trim"}) /\ job'[p].pane = job[p].pane
  BY <1>1, SetKeepsRun DEF TabInv
<1>4. /\ DOMAIN panes' = DOMAIN panes
      /\ \A q \in DOMAIN panes \ {x} : panes'[q] = panes[q]
      /\ {"mark", "space"} \subseteq DOMAIN panes'[x]
      /\ panes'[x].space = panes[x].space
      /\ p = Dispatch => panes'[x].mark = panes[x].mark
      /\ p # Dispatch => panes'[x].mark = job[p].run
  BY <1>1 DEF Start, TabInv, TabShape
<1> HIDE DEF x
<1>5. TabShape'
  BY <1>1, <1>3, <1>4 DEF TabInv, TabShape, Moves
<1>6. LockHeld'
  BY <1>1, <1>2, <1>3 DEF TabInv, LockHeld, Moves
<1>7. RescuesNameRuns'
  BY <1>1, <1>3 DEF TabInv, RescuesNameRuns, Moves
<1>8. p # Dispatch => /\ panes[x].space = job[p].space
                      /\ \A q \in SpaceOf(job[p].space) : panes[q].mark # job[p].run
  BY <1>1, <1>2 DEF x, TabInv, RescuesSplit, StartsInSpace, SoughtUnmarked, Live
<1>9. SoughtUnmarked'
  <2> SUFFICES ASSUME NEW f \in Placers \ {Dispatch}, NEW i, i = job'[f], i.at \in Seeking
               PROVE  \A q \in SpaceOf(i.space)' : panes'[q].mark # i.run
    BY DEF SoughtUnmarked, SpaceOf
  <2>1. f # p
    BY <1>3 DEF Moves, Seeking
  <2>2. i = job[f] /\ i.at \in Placing
    BY <1>3, <2>1 DEF Moves, Seeking
  <2>3. job[p].space # i.space
    BY <1>2, <2>1, <2>2 DEF TabInv, LockHeld
  <2>4. \A q \in SpaceOf(i.space) : panes[q].mark # i.run
    BY <2>2 DEF TabInv, SoughtUnmarked
  <2>5. SpaceOf(i.space)' = SpaceOf(i.space)
    BY <1>4 DEF SpaceOf
  <2>6. p = Dispatch \/ x \notin SpaceOf(i.space)
    BY <1>8, <2>3 DEF SpaceOf
  <2>7. SpaceOf(i.space) \subseteq DOMAIN panes
    BY DEF SpaceOf
  <2> QED
    BY <1>4, <2>4, <2>5, <2>6, <2>7
<1>10. RescuesSplit'
  <2> SUFFICES ASSUME NEW f \in Placers \ {Dispatch}, NEW i, i = job'[f] PROVE StartsInSpace(i)'
    BY DEF RescuesSplit, StartsInSpace, Live
  <2>1. CASE f # p
    <3>1. StartsInSpace(i)
      BY <1>3, <2>1 DEF Moves, TabInv, RescuesSplit
    <3> QED
      BY <1>1, <1>4, <3>1 DEF StartsInSpace, Live
  <2>2. CASE f = p
    BY <1>3, <2>2 DEF Moves, TabInv, RescuesSplit, StartsInSpace
  <2> QED
    BY <2>1, <2>2
<1>11. OneSpace'
  BY <1>1, <1>4 DEF TabInv, OneSpace
<1>12. OneRescuePane'
  <2>1. CASE p = Dispatch
    BY <1>1, <1>4, <2>1 DEF TabInv, OneRescuePane
  <2>2. CASE p # Dispatch
    <3>1. \A q \in DOMAIN panes \ {x} : panes[q].mark = job[p].run => panes[q].space # panes[x].space
      BY <1>8, <2>2 DEF SpaceOf
    <3>2. \A q \in DOMAIN panes \ {x} : panes[q].mark = job[p].run => doubled
      BY <1>1, <3>1 DEF TabInv, OneSpace
    <3> QED
      BY <1>1, <1>4, <2>2, <3>1, <3>2 DEF TabInv, OneRescuePane
  <2> QED
    BY <2>1, <2>2
<1> QED
  BY <1>5, <1>6, <1>7, <1>9, <1>10, <1>11, <1>12 DEF TabInv

(* A placement ends, well or not.                                          *)
LEMMA EndsKeepRescue ==
  ASSUME TabInv,
         StartFails \/ Register \/ (\E p \in Focusers : AbandonRescue(p))
           \/ (\E p \in Placers : TrimAnchor(p))
  PROVE  TabInv'
<1>1. Dispatch \in Placers /\ Focusers \subseteq Placers
  BY DEF Placers
<1>2. PICK S : rows \in Seq(S)
  BY DEF TabInv, TabShape
<1>3. CASE StartFails
  <2>1. MarksKept /\ rows' = rows /\ Release(Dispatch)
    BY <1>3, ClosedUnmarked DEF TabInv, StartFails
  <2> QED
    BY <1>1, <2>1, ReleaseKeepsRescue
<1>4. CASE \E p \in Focusers : AbandonRescue(p)
  <2>1. PICK p \in Focusers : AbandonRescue(p)
    BY <1>4
  <2>2. MarksKept /\ rows' = rows /\ Release(p)
    BY <2>1, ClosedUnmarked DEF TabInv, AbandonRescue
  <2> QED
    BY <1>1, <2>2, ReleaseKeepsRescue
<1>5. CASE \E p \in Placers : TrimAnchor(p)
  <2>1. PICK p \in Placers : TrimAnchor(p)
    BY <1>5
  <2>2. MarksKept /\ rows' = rows
    BY <2>1, ClosedUnmarked DEF TabInv, TrimAnchor
  <2>3. CASE p # Dispatch
    <3>1. Release(p)
      BY <2>1, <2>3 DEF TrimAnchor
    <3> QED
      BY <2>2, <3>1, ReleaseKeepsRescue
  <2>4. CASE p = Dispatch
    <3>1. Moves(p, {"register"})
      BY <2>1, <2>4, SetKeepsRun DEF TrimAnchor, TabInv
    <3>2. PICK j : j = job'[p]
      OBVIOUS
    <3>3. j.at \notin Placing
      BY <3>1, <3>2 DEF Moves, Placing
    <3> QED
      BY <1>2, <2>2, <2>4, <3>1, <3>2, <3>3, StepKeepsRescue DEF Moves
  <2> QED
    BY <2>3, <2>4
<1>6. CASE Register
  <2>1. PICK r : rows' = Append(rows, r)
    BY <1>6 DEF Register
  <2>2. rows \in Seq(S \cup {r})
    BY <1>2, SeqMonotonic
  <2>3. rows' \in Seq(S \cup {r})
    BY <2>1, <2>2, AppendProperties
  <2>4. MarksKept
    BY <1>6, UntouchedMarks DEF Register, TabInv
  <2>5. /\ job'[Dispatch] = NoJob /\ DOMAIN job' = Placers
        /\ \A q \in Placers \ {Dispatch} : job'[q] = job[q]
    BY <1>1, <1>6 DEF Register, Release, TabInv, TabShape
  <2>6. NoJob.at \notin Placing
    BY NoJobFields DEF Placing
  <2> QED
    BY <1>1, <2>3, <2>4, <2>5, <2>6, NoJobFields, StepKeepsRescue
<1> QED
  BY <1>3, <1>4, <1>5, <1>6

(* What happens beside the placements changes no job.                      *)
LEMMA BesideKeepsRescue ==
  ASSUME TabInv, MarksKept, job' = job, \E S : rows' \in Seq(S)
  PROVE  TabInv'
<1>1. PICK j : j = job[Dispatch]
  OBVIOUS
<1>2. Dispatch \in Placers /\ {"at", "run", "space", "reuse", "pane"} \subseteq DOMAIN j
  BY <1>1 DEF Placers, TabInv, TabShape
<1>3. j.at \in Placing =>
        \A q \in Placers \ {Dispatch} : job[q].at \in Placing => job[q].space # j.space
  BY <1>1, <1>2 DEF TabInv, LockHeld
<1> QED
  BY <1>1, <1>2, <1>3, StepKeepsRescue DEF TabInv, TabShape

(* Runs, agents, the user and the daemon's process.                        *)
LEMMA WorldKeepsRescue ==
  ASSUME TabInv,
         \/ DaemonRestarts
         \/ \E i \in DOMAIN rows : RunEnds(i)
         \/ \E q \in DOMAIN panes : AgentActs(q) \/ UserCloses(q) \/ UserSplits(q)
  PROVE  TabInv'
<1>1. PICK S : rows \in Seq(S)
  BY DEF TabInv, TabShape
<1>2. CASE DaemonRestarts
  <2>1. MarksKept /\ rows' = rows /\ job' = [p \in Placers |-> NoJob]
    BY <1>2, UntouchedMarks DEF TabInv, DaemonRestarts
  <2>2. \A p \in Placers : job'[p].at \notin Placing /\ job'[p].at = "idle"
    BY <2>1, NoJobFields DEF Placing
  <2>3. TabShape'
    BY <2>1, NoJobFields DEF TabInv, TabShape, MarksKept
  <2>4. StartsInSpace(NoJob)'
    BY NoJobFields DEF StartsInSpace
  <2>5. RescuesSplit'
    BY <2>1, <2>4 DEF RescuesSplit, StartsInSpace, Live
  <2> QED
    BY <2>1, <2>2, <2>3, <2>5, OthersKept
       DEF TabInv, LockHeld, RescuesNameRuns, SoughtUnmarked, Seeking
<1>3. ASSUME NEW i \in DOMAIN rows, RunEnds(i) PROVE TabInv'
  <2> DEFINE r == [rows[i] EXCEPT !.ended = TRUE]
  <2>1. rows' = [rows EXCEPT ![i] = r] /\ UNCHANGED <<panes, made, doubled, job>>
    BY <1>3 DEF RunEnds
  <2> HIDE DEF r
  <2>2. rows \in Seq(S \cup {r}) /\ i \in 1 .. Len(rows)
    BY <1>1, SeqMonotonic
  <2>3. rows' \in Seq(S \cup {r})
    BY <2>1, <2>2, ExceptSeq
  <2>4. MarksKept
    BY <2>1, UntouchedMarks DEF TabInv
  <2> QED
    BY <2>1, <2>3, <2>4, BesideKeepsRescue
<1>4. ASSUME NEW q \in DOMAIN panes, AgentActs(q) \/ UserCloses(q) \/ UserSplits(q)
      PROVE  TabInv'
  <2>1. UNCHANGED <<rows, doubled, job>>
    BY <1>4 DEF AgentActs, UserCloses, UserSplits
  <2>2. MarksKept => TabInv'
    BY <1>1, <2>1, BesideKeepsRescue
  <2>3. AgentActs(q) => MarksKept
    BY <2>1 DEF AgentActs, TabInv, TabShape, MarksKept
  <2>4. UserCloses(q) => MarksKept
    BY <2>1, ClosedUnmarked DEF UserCloses, TabInv
  <2>5. UserSplits(q) => MarksKept
    <3>1. q \in SpaceOf(panes[q].space)
      BY DEF SpaceOf
    <3>2. doubled \in BOOLEAN /\ (doubled \/ \A r \in DOMAIN panes : panes[q].space = panes[r].space)
      BY <3>1, InTheSpace DEF TabInv, TabShape
    <3> QED
      BY <2>1, <3>2, OpenedUnmarked DEF UserSplits, TabInv
  <2> QED
    BY <1>4, <2>2, <2>3, <2>4, <2>5
<1> QED
  BY <1>2, <1>3, <1>4

(* A run's rescue opens one pane in a workspace, however many connections  *)
(* ask to focus it, whatever the user closes, splits or starts between two *)
(* calls, and wherever the daemon stops: rescue_run_pane looks for the     *)
(* marker under the workspace's lock and launch_rescue writes it before    *)
(* the lock is released.  Two panes are in two workspaces, of which one    *)
(* was made although the card had one (resolve_space takes no lock).       *)
THEOREM RescuedOnce == TabSpec => []OneRescuePane
<1>1. TabInit => TabInv
  <2> SUFFICES ASSUME TabInit PROVE TabInv
    OBVIOUS
  <2>1. DOMAIN panes = {} /\ made = 1 /\ doubled = FALSE
    BY DEF TabInit
  <2>2. \E S : rows \in Seq(S)
    <3>1. CASE rows = <<>>
      <4>1. rows \in Seq({})
        BY <3>1
      <4> QED
        BY <4>1
    <3>2. CASE \E r : rows = <<r>>
      <4>1. PICK r : rows = <<r>>
        BY <3>2
      <4>2. rows \in Seq({r})
        BY <4>1
      <4> QED
        BY <4>2
    <3> QED
      BY <3>1, <3>2 DEF TabInit
  <2>3. job = [p \in Placers |-> NoJob]
    BY DEF TabInit
  <2>4. TabShape
    BY <2>1, <2>2, <2>3, NoJobFields DEF TabShape
  <2>5. \A p \in Placers : job[p].at = "idle" /\ job[p].reuse = None
    BY <2>3, NoJobFields
  <2>6. LockHeld /\ RescuesNameRuns /\ SoughtUnmarked /\ RescuesSplit
    BY <2>5 DEF LockHeld, RescuesNameRuns, SoughtUnmarked, RescuesSplit, StartsInSpace,
                Seeking, Placing
  <2>7. OneSpace /\ OneRescuePane
    BY <2>1 DEF OneSpace, OneRescuePane
  <2> QED
    BY <2>4, <2>6, <2>7 DEF TabInv
<1>2. TabInv /\ [TabNext]_tabVars => TabInv'
  <2> SUFFICES ASSUME TabInv, [TabNext]_tabVars PROVE TabInv'
    OBVIOUS
  <2>1. CASE UNCHANGED tabVars
    <3>1. MarksKept /\ job' = job /\ rows' = rows
      BY <2>1, UntouchedMarks DEF tabVars, TabInv
    <3> QED
      BY <3>1, BesideKeepsRescue DEF TabInv, TabShape
  <2>2. ASSUME NEW p \in Placers, CreateSpace(p) \/ TakeLock(p) \/ Refused(p) \/ Choose(p)
        PROVE  TabInv'
    BY <2>2, SpaceKeepsRescue, ChoiceKeepsRescue
  <2>3. ASSUME NEW p \in Placers,
               Reanchor(p) \/ Reclaim(p) \/ CreateTab(p) \/ SplitChild(p) \/ StartOnGonePane(p)
        PROVE  TabInv'
    BY <2>3, PlacementKeepsRescue
  <2>4. ASSUME NEW p \in Placers, Start(p) \/ TrimAnchor(p) PROVE TabInv'
    BY <2>4, MarkKeepsRescue, EndsKeepRescue
  <2>5. ASSUME NEW p \in Focusers, Look(p) \/ AbandonRescue(p) PROVE TabInv'
    BY <2>5, ChoiceKeepsRescue, EndsKeepRescue DEF Placers
  <2> QED
    BY <2>1, <2>2, <2>3, <2>4, <2>5, PlansKeepRescue, EndsKeepRescue, WorldKeepsRescue DEF TabNext
<1>3. TabInv => OneRescuePane
  BY DEF TabInv
<1> QED
  BY <1>1, <1>2, <1>3, PTL DEF TabSpec

-----------------------------------------------------------------------------
(* CardTabs: whose the panes are that the board closes.                    *)

JobFields == {"at", "managed", "reuse", "run", "space", "anchors", "spent", "boot", "fresh",
              "anchor", "pane", "close"}

(* The steps at which a placer's pane, and its anchor, are chosen.         *)
Paned == {"recover", "reclaim", "start", "trim", "register"}
Anchored == {"reclaim", "split", "start", "trim", "register"}

(* The ids that a placer holds of panes for runs, and of shells and        *)
(* rescues.                                                                *)
RunIds(j) == {j.reuse} \cup (IF j.at \in Paned THEN {j.pane} ELSE {})

ShellIds(p, j) ==
  {j.anchors[k] : k \in DOMAIN j.anchors}
    \cup (IF j.at \in Anchored THEN {j.anchor} ELSE {})
    \cup (IF p # Dispatch /\ j.at \in Paned THEN {j.pane} ELSE {})
    \cup (IF j.boot THEN {j.space} ELSE {})

RowPanes == {rows[i].pane : i \in DOMAIN rows}
RowAnchors == {rows[i].anchor : i \in DOMAIN rows}
Marked == {q \in DOMAIN panes : panes[q].mark # None}
Remembered == {registry[w].anchor : w \in DOMAIN registry}

RunPanes == RowPanes \cup RunIds(job[Dispatch])
Shells ==
  Remembered \cup RowAnchors \cup Marked \cup UNION {ShellIds(p, job[p]) : p \in Placers}

BoardMade(q) == q = None \/ (q \in 1 .. made /\ (q \in DOMAIN panes => panes[q].maker = "board"))

AllEnded == \A i \in DOMAIN rows : rows[i].ended

PanesShaped ==
  /\ made \in Nat /\ DOMAIN panes \subseteq 1 .. made
  /\ \A q \in DOMAIN panes : {"space", "tab", "maker", "agent", "mark"} \subseteq DOMAIN panes[q]

RowsShaped ==
  /\ \E S : rows \in Seq(S)
  /\ \A i \in DOMAIN rows : {"space", "pane", "anchor", "ended"} \subseteq DOMAIN rows[i] /\ rows[i].pane # None

JobShaped(p, j) ==
  /\ JobFields \subseteq DOMAIN j /\ \E T : j.anchors \in Seq(T)
  /\ j.at = "idle" => j = NoJob
  /\ p # Dispatch => j.spent = {} /\ j.reuse = None
  /\ j.at \in {"recover", "reclaim"} => j.close \subseteq j.spent
  /\ p = Dispatch /\ j.at \in {"start", "trim", "register"} => j.pane # None
  /\ p # Dispatch /\ j.at \in {"vacant", "planned", "look"} => j.run # None

JobsShaped ==
  /\ DOMAIN job = Placers
  /\ \A p \in Placers : JobShaped(p, job[p])

(* The board made what it knows, and keeps runs apart from shells.         *)
Apart ==
  /\ \A q \in RunPanes \cup Shells \cup job[Dispatch].spent : BoardMade(q)
  /\ \A q \in RunPanes \cap Shells : q = None

BusyEnded == job[Dispatch].at # "idle" => AllEnded

UseInv == PanesShaped /\ RowsShaped /\ JobsShaped /\ Apart /\ BusyEnded

-----------------------------------------------------------------------------

(* Panes keep their makers; what is new is a pane of the board in N.       *)
PanesStep(N) ==
  /\ made' \in Nat /\ made <= made' /\ DOMAIN panes' \subseteq 1 .. made'
  /\ \A q \in DOMAIN panes' : {"space", "tab", "maker", "agent", "mark"} \subseteq DOMAIN panes'[q]
  /\ \A q \in DOMAIN panes' :
       (q \in DOMAIN panes /\ panes'[q].maker = panes[q].maker) \/ q = made + 1
  /\ \A q \in N : q = made + 1 /\ q <= made' /\ (q \in DOMAIN panes' => panes'[q].maker = "board")

LEMMA ApartKept ==
  ASSUME UseInv, NEW R, NEW S, R \cap S = {}, PanesStep(R \cup S),
         RunPanes' \subseteq RunPanes \cup {None} \cup R,
         Shells' \subseteq Shells \cup {None} \cup S,
         job'[Dispatch].spent \subseteq RunPanes \cup job[Dispatch].spent
  PROVE  Apart'
<1>1. made \in Nat /\ made' \in Nat /\ made <= made' /\ None = 0
  BY DEF UseInv, PanesShaped, PanesStep, None
<1>2. ASSUME NEW q, BoardMade(q) PROVE BoardMade(q)' /\ (q # None => q <= made)
  <2>1. CASE q = None
    BY <2>1 DEF BoardMade
  <2>2. CASE q # None
    <3>1. q \in 1 .. made /\ (q \in DOMAIN panes => panes[q].maker = "board")
      BY <1>2, <2>2 DEF BoardMade
    <3>2. q # made + 1 /\ q \in 1 .. made'
      BY <1>1, <3>1
    <3>3. q \in DOMAIN panes' => panes'[q].maker = "board"
      BY <3>1, <3>2 DEF PanesStep
    <3> QED
      BY <1>1, <3>1, <3>2, <3>3 DEF BoardMade
  <2> QED
    BY <2>1, <2>2
<1>3. ASSUME NEW q \in R \cup S PROVE BoardMade(q)' /\ q > made
  <2>1. q = made + 1 /\ q <= made' /\ (q \in DOMAIN panes' => panes'[q].maker = "board")
    BY DEF PanesStep
  <2>2. q \in 1 .. made'
    BY <1>1, <2>1
  <2> QED
    BY <1>1, <2>1, <2>2 DEF BoardMade
<1>4. BoardMade(None)'
  BY DEF BoardMade
<1>5. ASSUME NEW q \in RunPanes' \cup Shells' \cup job'[Dispatch].spent PROVE BoardMade(q)'
  BY <1>2, <1>3, <1>4 DEF UseInv, Apart
<1>6. ASSUME NEW q \in RunPanes' \cap Shells' PROVE q = None
  <2>1. q \in RunPanes => BoardMade(q)
    BY DEF UseInv, Apart
  <2>2. q \in Shells => BoardMade(q)
    BY DEF UseInv, Apart
  <2>3. q \in RunPanes /\ q \in Shells => q = None
    BY DEF UseInv, Apart
  <2>4. q \in R \cup S => q > made
    BY <1>3
  <2>5. BoardMade(q) => q = None \/ (q <= made /\ q \in Nat)
    BY <1>1 DEF BoardMade
  <2>6. q \in R \cup S => (q \notin RunPanes /\ q \notin Shells) \/ q = None
    BY <1>1, <2>1, <2>2, <2>4, <2>5
  <2> QED
    BY <1>6, <2>3, <2>6
<1> QED
  BY <1>5, <1>6 DEF Apart

(* A step of placer p that writes no row.                                  *)
LEMMA PlacerKeepsUse ==
  ASSUME UseInv, NEW p \in Placers, NEW R, NEW S, R \cap S = {}, PanesStep(R \cup S),
         rows' = rows,
         DOMAIN job' = Placers, \A q \in Placers \ {p} : job'[q] = job[q],
         JobShaped(p, job'[p]),
         p = Dispatch => /\ RunIds(job'[p]) \subseteq RunPanes \cup {None} \cup R
                         /\ job'[p].spent \subseteq RunPanes \cup job[p].spent
                         /\ job'[p].at # "idle" => AllEnded,
         ShellIds(p, job'[p]) \subseteq Shells \cup {None} \cup S,
         Remembered' \subseteq Shells \cup {None} \cup S,
         Marked' \subseteq Shells \cup {None} \cup S
  PROVE  UseInv'
<1>1. PanesShaped' /\ RowsShaped' /\ JobsShaped'
  BY DEF UseInv, PanesStep, PanesShaped, RowsShaped, JobsShaped
<1>2. Dispatch \in Placers
  BY DEF Placers
<1>3. RunPanes' \subseteq RunPanes \cup {None} \cup R
  <2>1. RunIds(job'[Dispatch]) \subseteq RunPanes \cup {None} \cup R
    <3>1. CASE p = Dispatch
      BY <3>1
    <3>2. CASE p # Dispatch
      <4>1. job'[Dispatch] = job[Dispatch]
        BY <1>2, <3>2
      <4> QED
        BY <4>1 DEF RunPanes
    <3> QED
      BY <3>1, <3>2
  <2>2. RowPanes' = RowPanes /\ RunPanes' = RowPanes' \cup RunIds(job'[Dispatch])
    BY DEF RowPanes, RunPanes, RunIds
  <2> QED
    BY <2>1, <2>2 DEF RunPanes
<1>4. Shells' \subseteq Shells \cup {None} \cup S
  <2>1. ASSUME NEW q \in Placers PROVE ShellIds(q, job'[q]) \subseteq Shells \cup {None} \cup S
    <3>1. CASE q = p
      BY <3>1
    <3>2. CASE q # p
      <4>1. job'[q] = job[q]
        BY <3>2
      <4> QED
        BY <4>1 DEF Shells
    <3> QED
      BY <3>1, <3>2
  <2>2. RowAnchors' = RowAnchors /\ RowAnchors \subseteq Shells
    BY DEF RowAnchors, Shells
  <2>3. Shells' = Remembered' \cup RowAnchors' \cup Marked' \cup UNION {ShellIds(q, job'[q]) : q \in Placers}
    BY DEF Shells, ShellIds
  <2> QED
    BY <2>1, <2>2, <2>3
<1>5. job'[Dispatch].spent \subseteq RunPanes \cup job[Dispatch].spent
  BY <1>2
<1>6. Apart'
  BY <1>3, <1>4, <1>5, ApartKept
<1>7. BusyEnded'
  <2>1. AllEnded' = AllEnded
    BY DEF AllEnded
  <2>2. job'[Dispatch].at # "idle" => AllEnded
    BY <1>2 DEF UseInv, BusyEnded
  <2> QED
    BY <2>1, <2>2 DEF BusyEnded
<1> QED
  BY <1>1, <1>6, <1>7 DEF UseInv

(* A step that learns no new id.                                           *)
LEMMA KnownKeepUse ==
  ASSUME UseInv, NEW p \in Placers, PanesStep({}), rows' = rows,
         DOMAIN job' = Placers, \A q \in Placers \ {p} : job'[q] = job[q],
         JobShaped(p, job'[p]),
         p = Dispatch => /\ RunIds(job'[p]) \subseteq RunPanes \cup {None}
                         /\ job'[p].spent \subseteq RunPanes \cup job[p].spent
                         /\ job'[p].at # "idle" => AllEnded,
         ShellIds(p, job'[p]) \subseteq Shells \cup {None},
         Remembered' \subseteq Shells \cup {None},
         Marked' \subseteq Shells
  PROVE  UseInv'
<1> DEFINE R == {}
           S == {}
<1>1. R \cap S = {} /\ PanesStep(R \cup S)
  OBVIOUS
<1>2. p = Dispatch => /\ RunIds(job'[p]) \subseteq RunPanes \cup {None} \cup R
                      /\ job'[p].spent \subseteq RunPanes \cup job[p].spent
                      /\ job'[p].at # "idle" => AllEnded
  OBVIOUS
<1>3. /\ ShellIds(p, job'[p]) \subseteq Shells \cup {None} \cup S
      /\ Remembered' \subseteq Shells \cup {None} \cup S
      /\ Marked' \subseteq Shells \cup {None} \cup S
  OBVIOUS
<1> HIDE DEF R, S
<1> QED
  BY <1>1, <1>2, <1>3, PlacerKeepsUse

(* Set writes the fields it is given and keeps the others.                 *)
LEMMA SetFields ==
  ASSUME JobsShaped, NEW p \in Placers, NEW fields, Set(p, fields)
  PROVE  /\ DOMAIN job' = Placers /\ \A q \in Placers \ {p} : job'[q] = job[q]
         /\ JobFields \subseteq DOMAIN job'[p]
         /\ \A f \in DOMAIN fields : job'[p][f] = fields[f]
         /\ \A f \in JobFields \ DOMAIN fields : job'[p][f] = job[p][f]
<1>1. job'[p] = With(job[p], fields) /\ JobFields \subseteq DOMAIN job[p]
  BY DEF Set, JobsShaped, JobShaped
<1> QED
  BY <1>1 DEF Set, With, JobsShaped

LEMMA PanesUnchanged ==
  ASSUME PanesShaped, UNCHANGED <<panes, made>>
  PROVE  PanesStep({}) /\ Marked' = Marked
BY DEF PanesShaped, PanesStep, Marked

LEMMA PanesClosed ==
  ASSUME PanesShaped, NEW gone, panes' = Without(gone), made' = made
  PROVE  PanesStep({}) /\ Marked' \subseteq Marked
<1>1. \A q \in DOMAIN panes' : q \in DOMAIN panes /\ panes'[q] = panes[q]
  BY DEF Without
<1> QED
  BY <1>1 DEF PanesShaped, PanesStep, Marked

LEMMA PaneMade ==
  ASSUME PanesShaped, NEW w, NEW t, NEW m, panes' = NewPane(w, t, m), made' = made + 1
  PROVE  /\ PanesStep({}) /\ Marked' = Marked
         /\ m = "board" => PanesStep({made + 1})
<1>1. /\ DOMAIN panes' = DOMAIN panes \cup {made + 1} /\ made + 1 \notin DOMAIN panes
      /\ panes'[made + 1] =
           [space |-> w, tab |-> t, maker |-> m, agent |-> "none", mark |-> None]
      /\ \A q \in DOMAIN panes : panes'[q] = panes[q]
  BY DEF NewPane, PanesShaped
<1>2. /\ {"space", "tab", "maker", "agent", "mark"} \subseteq DOMAIN panes'[made + 1]
      /\ panes'[made + 1].maker = m /\ panes'[made + 1].mark = None
  BY <1>1
<1>3. made' \in Nat /\ made <= made' /\ DOMAIN panes' \subseteq 1 .. made'
  BY <1>1 DEF PanesShaped
<1>4. PanesStep({})
  BY <1>1, <1>2, <1>3 DEF PanesStep, PanesShaped
<1>5. Marked' = Marked
  BY <1>1, <1>2 DEF Marked
<1>6. m = "board" => PanesStep({made + 1})
  BY <1>1, <1>2, <1>3, <1>4 DEF PanesStep
<1> QED
  BY <1>4, <1>5, <1>6

LEMMA NoJobHolds ==
  ASSUME NEW p
  PROVE  JobShaped(p, NoJob) /\ RunIds(NoJob) = {None} /\ ShellIds(p, NoJob) = {}
         /\ NoJob.spent = {} /\ NoJob.at = "idle"
<1>1. NoJob.anchors \in Seq({})
  BY DEF NoJob
<1> QED
  BY <1>1 DEF JobShaped, JobFields, NoJob, RunIds, ShellIds, Paned, Anchored

LEMMA ReleaseKeepsUse ==
  ASSUME UseInv, NEW p \in Placers, Release(p), rows' = rows, PanesStep({}), Marked' \subseteq Marked,
         Remembered' \subseteq Remembered
  PROVE  UseInv'
<1>1. DOMAIN job' = Placers /\ job'[p] = NoJob /\ \A q \in Placers \ {p} : job'[q] = job[q]
  BY DEF Release, UseInv, JobsShaped
<1>2. Remembered' \subseteq Shells \cup {None} /\ Marked \subseteq Shells
  BY DEF Shells
<1> QED
  BY <1>1, <1>2, NoJobHolds, KnownKeepUse

(* What Set leaves alone, field by field.                                  *)
LEMMA KeptFields ==
  ASSUME UseInv, NEW p \in Placers
  PROVE  /\ p = Dispatch => job[p].reuse \in RunPanes /\ (job[p].at \in Paned => job[p].pane \in RunPanes)
         /\ p # Dispatch /\ job[p].at \in Paned => job[p].pane \in Shells
         /\ \A k \in DOMAIN job[p].anchors : job[p].anchors[k] \in Shells
         /\ job[p].at \in Anchored => job[p].anchor \in Shells
         /\ job[p].boot => job[p].space \in Shells
         /\ Remembered \subseteq Shells /\ Marked \subseteq Shells
         /\ registry' = registry => Remembered' \subseteq Shells
         /\ p = Dispatch /\ job[p].at # "idle" => AllEnded
<1>1. ShellIds(p, job[p]) \subseteq Shells
  BY DEF Shells
<1>2. p = Dispatch => RunIds(job[p]) \subseteq RunPanes
  BY DEF RunPanes
<1>3. registry' = registry => Remembered' = Remembered
  BY DEF Remembered
<1> QED
  BY <1>1, <1>2, <1>3 DEF Shells, ShellIds, RunIds, UseInv, BusyEnded

(* The registry holds one tab of each workspace.                           *)
LEMMA RememberedOnly ==
  ASSUME NEW w, NEW t, NEW a, RememberTab(w, t, a)
  PROVE  Remembered' \subseteq Remembered \cup {a}
<1> DEFINE more == [v \in {w} |-> [tab |-> t, anchor |-> a]]
<1>1. DOMAIN more = {w} /\ more[w].anchor = a /\ registry' = With(registry, more)
  BY DEF RememberTab
<1> HIDE DEF more
<1> QED
  BY <1>1 DEF With, Remembered

LEMMA LockKeepsUse ==
  ASSUME UseInv, NEW p \in Placers, TakeLock(p) \/ Refused(p) \/ Look(p)
  PROVE  UseInv'
<1>1. CASE TakeLock(p)
  <2>1. /\ Set(p, [at |-> IF p = Dispatch THEN "choose" ELSE "look"])
        /\ registry' = registry \/ (job[p].boot /\ RememberTab(job[p].space, job[p].space, job[p].space))
        /\ UNCHANGED <<panes, made, rows>> /\ job[p].at = "planned"
    BY <1>1 DEF TakeLock
  <2>2. /\ DOMAIN job' = Placers /\ \A q \in Placers \ {p} : job'[q] = job[q]
        /\ JobFields \subseteq DOMAIN job'[p] /\ job'[p].at \in {"choose", "look"}
        /\ \A f \in JobFields \ {"at"} : job'[p][f] = job[p][f]
    BY <2>1, SetFields DEF UseInv
  <2>3. /\ job'[p].reuse = job[p].reuse /\ job'[p].anchors = job[p].anchors
        /\ job'[p].spent = job[p].spent /\ job'[p].boot = job[p].boot
        /\ job'[p].space = job[p].space
        /\ job'[p].run = job[p].run
    BY <2>2 DEF JobFields
  <2>4. JobShaped(p, job'[p])
    BY <2>1, <2>2, <2>3 DEF JobShaped, UseInv, JobsShaped
  <2>5. /\ p = Dispatch => RunIds(job'[p]) \subseteq RunPanes
        /\ ShellIds(p, job'[p]) \subseteq Shells
    BY <2>2, <2>3, KeptFields DEF RunIds, ShellIds, Paned, Anchored
  <2>6. Remembered' \subseteq Shells
    BY <2>1, KeptFields, RememberedOnly
  <2>7. PanesStep({}) /\ Marked' \subseteq Shells
    BY <2>1, PanesUnchanged, KeptFields DEF UseInv
  <2> QED
    BY <2>1, <2>2, <2>3, <2>4, <2>5, <2>6, <2>7, KeptFields, KnownKeepUse
<1>2. CASE Refused(p) \/ (Look(p) /\ Release(p) /\ UNCHANGED panes)
  <2>1. /\ PanesStep({}) /\ Marked' \subseteq Marked /\ UNCHANGED <<rows, registry>>
        /\ Release(p) /\ Remembered' = Remembered
    BY <1>2, PanesUnchanged DEF Look, Refused, UseInv, Remembered
  <2> QED
    BY <2>1, ReleaseKeepsUse
<1>3. CASE Look(p) /\ ~(Release(p) /\ UNCHANGED panes)
  <2>1. /\ Set(p, [at |-> "choose"]) /\ UNCHANGED <<made, rows, registry>> /\ job[p].at = "look"
        /\ \E gone : panes' = Without(gone)
    BY <1>3 DEF Look
  <2>2. /\ DOMAIN job' = Placers /\ \A q \in Placers \ {p} : job'[q] = job[q]
        /\ JobFields \subseteq DOMAIN job'[p] /\ job'[p].at = "choose"
        /\ \A f \in JobFields \ {"at"} : job'[p][f] = job[p][f]
    BY <2>1, SetFields DEF UseInv
  <2>3. /\ job'[p].reuse = job[p].reuse /\ job'[p].anchors = job[p].anchors
        /\ job'[p].spent = job[p].spent /\ job'[p].boot = job[p].boot
        /\ job'[p].space = job[p].space
    BY <2>2 DEF JobFields
  <2>4. JobShaped(p, job'[p])
    BY <2>2, <2>3 DEF JobShaped, UseInv, JobsShaped
  <2>5. /\ p = Dispatch => RunIds(job'[p]) \subseteq RunPanes
        /\ ShellIds(p, job'[p]) \subseteq Shells
    BY <2>2, <2>3, KeptFields DEF RunIds, ShellIds, Paned, Anchored
  <2>6. Remembered' \subseteq Shells
    BY <2>1, KeptFields
  <2>7. PanesStep({}) /\ Marked' \subseteq Shells
    BY <2>1, PanesClosed, KeptFields DEF UseInv
  <2> QED
    BY <2>1, <2>2, <2>3, <2>4, <2>5, <2>6, <2>7, KeptFields, KnownKeepUse
<1> QED
  BY <1>1, <1>2, <1>3

LEMMA FirstInList ==
  ASSUME NEW T, NEW seq \in Seq(T), NEW S
  PROVE  FirstIn(seq, S) = None \/ FirstIn(seq, S) \in T \cap S
<1> DEFINE hits == {k \in DOMAIN seq : seq[k] \in S}
<1>1. DOMAIN seq = 1 .. Len(seq) /\ Len(seq) \in Nat /\ \A k \in DOMAIN seq : seq[k] \in T
  OBVIOUS
<1>2. hits \in SUBSET Nat
  BY <1>1
<1>3. hits # {} => Min(hits) \in hits
  BY <1>2, MinOf
<1> QED
  BY <1>1, <1>3 DEF FirstIn

LEMMA AnchorIsShell ==
  ASSUME UseInv, NEW p \in Placers
  PROVE  Anchor(p) \in Shells \cup {None}
<1>1. job[p].anchors \in Seq(Shells \cup {None})
  <2>1. PICK T : job[p].anchors \in Seq(T)
    BY DEF UseInv, JobsShaped, JobShaped
  <2>2. \A k \in DOMAIN job[p].anchors : job[p].anchors[k] \in Shells
    BY KeptFields
  <2> QED
    BY <2>1, <2>2
<1>2. RememberedTab(job[p].space).anchor \in Shells \cup {None}
  BY KeptFields DEF RememberedTab, Remembered, Unknown
<1>3. <<RememberedTab(job[p].space).anchor>> \o job[p].anchors \in Seq(Shells \cup {None})
  BY <1>1, <1>2, ConcatProperties
<1> HIDE DEF Shells
<1> QED
  BY <1>3, FirstInList DEF Anchor

(* What a choice writes.                                                   *)
Chosen(p, step, t, a, x, close) ==
  Set(p, [at |-> step, tab |-> t, anchor |-> a, pane |-> x, close |-> close,
          fresh |-> step = "create" \/ t # OwnedTab(p)])

LEMMA ChoiceIs ==
  ASSUME UseInv, NEW p \in Placers, Choose(p)
  PROVE  \E step, t, a, x, close :
           /\ Chosen(p, step, t, a, x, close)
           /\ step \in {"split", "reclaim", "recover", "create"}
           /\ step \in Anchored => a \in Shells \cup {None}
           /\ x = None \/ (x = job[p].reuse /\ Reusable(p))
           /\ close \subseteq job[p].spent
<1>1. \A k : reclaim_prior_children(p, k) \subseteq job[p].spent
  BY DEF reclaim_prior_children
<1>2. Anchor(p) \in Shells \cup {None} /\ (job[p].boot => job[p].space \in Shells)
  BY AnchorIsShell, KeptFields
<1>3. CASE Adopts(p)
  <2>1. Chosen(p, "split", job[p].space, job[p].space, None, {})
    BY <1>3 DEF Choose, Chosen
  <2> QED
    BY <1>2, <1>3, <2>1 DEF Adopts
<1>4. CASE ~Adopts(p) /\ Reusable(p)
  <2>1. Chosen(p, "reclaim", OwnedTab(p), Anchor(p), job[p].reuse,
               reclaim_prior_children(p, {Anchor(p), job[p].reuse}))
    BY <1>4 DEF Choose, Chosen
  <2> QED
    BY <1>1, <1>2, <1>4, <2>1
<1>5. CASE ~Adopts(p) /\ ~Reusable(p) /\ Anchor(p) # None
  <2>1. Chosen(p, "reclaim", OwnedTab(p), Anchor(p), None,
               reclaim_prior_children(p, {Anchor(p)}))
    BY <1>5 DEF Choose, Chosen
  <2> QED
    BY <1>1, <1>2, <2>1
<1>6. CASE ~Adopts(p) /\ ~Reusable(p) /\ Anchor(p) = None
  <2>1. IF Recovery(p) # None
          THEN Chosen(p, "recover", OwnedTab(p), Recovery(p), None, reclaim_prior_children(p, {}))
          ELSE Chosen(p, "create", OwnedTab(p), None, None, {})
    BY <1>6 DEF Choose, Chosen
  <2>2. CASE Recovery(p) # None
    <3>1. Chosen(p, "recover", OwnedTab(p), Recovery(p), None, reclaim_prior_children(p, {}))
      BY <2>1, <2>2
    <3> QED
      BY <1>1, <3>1 DEF Anchored
  <2>3. CASE Recovery(p) = None
    <3>1. Chosen(p, "create", OwnedTab(p), None, None, {})
      BY <2>1, <2>3
    <3> QED
      BY <3>1
  <2> QED
    BY <2>2, <2>3
<1> QED
  BY <1>3, <1>4, <1>5, <1>6

LEMMA ChooseKeepsUse ==
  ASSUME UseInv, NEW p \in Placers, Choose(p)
  PROVE  UseInv'
<1>1. PICK step, t, a, x, close :
           /\ Chosen(p, step, t, a, x, close)
           /\ step \in {"split", "reclaim", "recover", "create"}
           /\ step \in Anchored => a \in Shells \cup {None}
           /\ x = None \/ (x = job[p].reuse /\ Reusable(p))
           /\ close \subseteq job[p].spent
  BY ChoiceIs
<1>2. /\ DOMAIN job' = Placers /\ \A q \in Placers \ {p} : job'[q] = job[q]
      /\ JobFields \subseteq DOMAIN job'[p]
      /\ job'[p].at = step /\ job'[p].anchor = a /\ job'[p].pane = x /\ job'[p].close = close
      /\ job'[p].reuse = job[p].reuse /\ job'[p].anchors = job[p].anchors
      /\ job'[p].spent = job[p].spent /\ job'[p].boot = job[p].boot
      /\ job'[p].space = job[p].space
  <2> DEFINE fields == [at |-> step, tab |-> t, anchor |-> a, pane |-> x, close |-> close,
                        fresh |-> step = "create" \/ t # OwnedTab(p)]
  <2>1. DOMAIN fields = {"at", "tab", "anchor", "pane", "close", "fresh"}
    OBVIOUS
  <2>2. fields["at"] = step /\ fields["anchor"] = a /\ fields["pane"] = x /\ fields["close"] = close
    OBVIOUS
  <2>3. Set(p, fields)
    BY <1>1 DEF Chosen
  <2> HIDE DEF fields
  <2>4. /\ DOMAIN job' = Placers /\ \A q \in Placers \ {p} : job'[q] = job[q]
        /\ JobFields \subseteq DOMAIN job'[p]
        /\ \A f \in DOMAIN fields : job'[p][f] = fields[f]
        /\ \A f \in JobFields \ DOMAIN fields : job'[p][f] = job[p][f]
    BY <2>3, SetFields DEF UseInv
  <2> QED
    BY <2>1, <2>2, <2>4 DEF JobFields
<1>3. UNCHANGED <<panes, made, rows, registry>> /\ job[p].at = "choose"
  BY DEF Choose
<1>4. x = None \/ (x = job[p].reuse /\ p = Dispatch)
  <2>1. p # Dispatch => job[p].reuse = None
    BY DEF UseInv, JobsShaped, JobShaped
  <2> QED
    BY <1>1, <2>1
<1>5. JobShaped(p, job'[p])
  BY <1>1, <1>2 DEF JobShaped, UseInv, JobsShaped
<1>6. p = Dispatch => RunIds(job'[p]) \subseteq RunPanes \cup {None}
  BY <1>2, <1>4, KeptFields DEF RunIds
<1>7. ShellIds(p, job'[p]) \subseteq Shells \cup {None}
  BY <1>1, <1>2, <1>4, KeptFields DEF ShellIds
<1>8. PanesStep({}) /\ Marked' \subseteq Shells /\ Remembered' \subseteq Shells \cup {None}
  BY <1>3, PanesUnchanged, KeptFields DEF UseInv
<1>9. p = Dispatch => AllEnded
  BY <1>3, KeptFields
<1> QED
  BY <1>2, <1>3, <1>5, <1>6, <1>7, <1>8, <1>9, KnownKeepUse

(* The fields of a placer that moves on to another step.                   *)
LEMMA StepFields ==
  ASSUME UseInv, NEW p \in Placers, NEW fields, Set(p, fields),
         DOMAIN fields \subseteq {"at", "retried", "tab", "anchor", "pane"}, "at" \in DOMAIN fields
  PROVE  /\ DOMAIN job' = Placers /\ \A q \in Placers \ {p} : job'[q] = job[q]
         /\ JobFields \subseteq DOMAIN job'[p] /\ job'[p].at = fields["at"]
         /\ job'[p].anchor = IF "anchor" \in DOMAIN fields THEN fields["anchor"] ELSE job[p].anchor
         /\ job'[p].pane = IF "pane" \in DOMAIN fields THEN fields["pane"] ELSE job[p].pane
         /\ job'[p].reuse = job[p].reuse /\ job'[p].anchors = job[p].anchors
         /\ job'[p].spent = job[p].spent /\ job'[p].boot = job[p].boot
         /\ job'[p].space = job[p].space
         /\ job'[p].close = job[p].close
BY SetFields DEF JobFields, UseInv

LEMMA RacedKeepsUse ==
  ASSUME UseInv, NEW p \in Placers, Raced(p), UNCHANGED <<panes, made, rows, registry>>,
         job[p].at # "idle"
  PROVE  UseInv'
<1>1. CASE Release(p)
  BY <1>1, PanesUnchanged, ReleaseKeepsUse DEF UseInv, Remembered
<1>2. CASE ~Release(p)
  <2> DEFINE fields == [at |-> "choose", retried |-> TRUE]
  <2>1. Set(p, fields) /\ fields["at"] = "choose"
    BY <1>2 DEF Raced
  <2>2. DOMAIN fields = {"at", "retried"}
    OBVIOUS
  <2> HIDE DEF fields
  <2>3. /\ DOMAIN job' = Placers /\ \A q \in Placers \ {p} : job'[q] = job[q]
        /\ JobFields \subseteq DOMAIN job'[p] /\ job'[p].at = "choose"
        /\ job'[p].reuse = job[p].reuse /\ job'[p].anchors = job[p].anchors
        /\ job'[p].spent = job[p].spent /\ job'[p].boot = job[p].boot
        /\ job'[p].space = job[p].space
    BY <2>1, <2>2, StepFields
  <2>4. JobShaped(p, job'[p])
    BY <2>3 DEF JobShaped, UseInv, JobsShaped
  <2>5. /\ p = Dispatch => RunIds(job'[p]) \subseteq RunPanes
        /\ ShellIds(p, job'[p]) \subseteq Shells
    BY <2>3, KeptFields DEF RunIds, ShellIds, Paned, Anchored
  <2>6. PanesStep({}) /\ Marked' \subseteq Shells /\ Remembered' \subseteq Shells
    BY PanesUnchanged, KeptFields DEF UseInv
  <2> QED
    BY <2>3, <2>4, <2>5, <2>6, KeptFields, KnownKeepUse
<1> QED
  BY <1>1, <1>2

LEMMA ReclaimKeepsUse ==
  ASSUME UseInv, NEW p \in Placers, Reclaim(p)
  PROVE  UseInv'
<1> DEFINE fields == [at |-> IF job[p].pane # None THEN "start" ELSE "split"]
<1>1. /\ Set(p, fields) /\ panes' = Without(job[p].close) /\ UNCHANGED <<made, rows, registry>>
      /\ job[p].at = "reclaim"
  BY DEF Reclaim
<1>2. DOMAIN fields = {"at"} /\ fields["at"] = IF job[p].pane # None THEN "start" ELSE "split"
  OBVIOUS
<1> HIDE DEF fields
<1>3. /\ DOMAIN job' = Placers /\ \A q \in Placers \ {p} : job'[q] = job[q]
      /\ JobFields \subseteq DOMAIN job'[p]
      /\ job'[p].at = IF job[p].pane # None THEN "start" ELSE "split"
      /\ job'[p].anchor = job[p].anchor /\ job'[p].pane = job[p].pane
      /\ job'[p].reuse = job[p].reuse /\ job'[p].anchors = job[p].anchors
      /\ job'[p].spent = job[p].spent /\ job'[p].boot = job[p].boot
      /\ job'[p].space = job[p].space
  BY <1>1, <1>2, StepFields
<1>4. JobShaped(p, job'[p])
  BY <1>3 DEF JobShaped, UseInv, JobsShaped
<1>5. /\ p = Dispatch => RunIds(job'[p]) \subseteq RunPanes
      /\ ShellIds(p, job'[p]) \subseteq Shells
  BY <1>1, <1>3, KeptFields DEF RunIds, ShellIds, Paned, Anchored
<1>6. PanesStep({}) /\ Marked' \subseteq Shells /\ Remembered' \subseteq Shells
  BY <1>1, PanesClosed, KeptFields DEF UseInv
<1> QED
  BY <1>1, <1>3, <1>4, <1>5, <1>6, KeptFields, KnownKeepUse

(* A pane that the board makes is a shell, or the pane of a run.           *)
LEMMA ShellKeepsUse ==
  ASSUME UseInv, NEW p \in Placers, Reanchor(p) \/ CreateTab(p)
  PROVE  UseInv'
<1>1. CASE Reanchor(p) /\ Raced(p) /\ UNCHANGED <<panes, made>>
  BY <1>1, RacedKeepsUse DEF Reanchor
<1>2. CASE CreateTab(p) \/ (Reanchor(p) /\ ~(Raced(p) /\ UNCHANGED <<panes, made>>))
  <2>1. PICK fields, t :
          /\ Set(p, fields) /\ panes' = NewPane(job[p].space, t, "board") /\ made' = made + 1
          /\ UNCHANGED <<rows, registry>>
          /\ DOMAIN fields \subseteq {"at", "tab", "anchor"} /\ {"at", "anchor"} \subseteq DOMAIN fields
          /\ fields["anchor"] = made + 1
          /\ \/ fields["at"] = "reclaim" /\ job[p].at = "recover"
             \/ fields["at"] = "split" /\ job[p].at = "create"
    <3>1. CASE Reanchor(p) /\ ~(Raced(p) /\ UNCHANGED <<panes, made>>)
      <4> DEFINE f == [at |-> "reclaim", anchor |-> made + 1]
      <4>1. /\ Set(p, f) /\ panes' = NewPane(job[p].space, job[p].tab, "board") /\ made' = made + 1
            /\ UNCHANGED <<rows, registry>> /\ job[p].at = "recover"
        BY <3>1 DEF Reanchor
      <4>2. DOMAIN f = {"at", "anchor"} /\ f["anchor"] = made + 1 /\ f["at"] = "reclaim"
        OBVIOUS
      <4> HIDE DEF f
      <4> QED
        BY <4>1, <4>2
    <3>2. CASE CreateTab(p)
      <4> DEFINE f == [at |-> "split", tab |-> made + 1, anchor |-> made + 1]
      <4>1. /\ Set(p, f) /\ panes' = NewPane(job[p].space, made + 1, "board") /\ made' = made + 1
            /\ UNCHANGED <<rows, registry>> /\ job[p].at = "create"
        BY <3>2 DEF CreateTab
      <4>2. DOMAIN f = {"at", "tab", "anchor"} /\ f["anchor"] = made + 1 /\ f["at"] = "split"
        OBVIOUS
      <4> HIDE DEF f
      <4> QED
        BY <4>1, <4>2
    <3> QED
      BY <1>2, <3>1, <3>2
  <2>2. /\ DOMAIN job' = Placers /\ \A q \in Placers \ {p} : job'[q] = job[q]
        /\ JobFields \subseteq DOMAIN job'[p]
        /\ job'[p].at = fields["at"] /\ job'[p].anchor = made + 1 /\ job'[p].pane = job[p].pane
        /\ job'[p].reuse = job[p].reuse /\ job'[p].anchors = job[p].anchors
        /\ job'[p].spent = job[p].spent /\ job'[p].boot = job[p].boot
        /\ job'[p].space = job[p].space
        /\ job'[p].close = job[p].close
    BY <2>1, StepFields
  <2>3. JobShaped(p, job'[p])
    BY <2>1, <2>2 DEF JobShaped, UseInv, JobsShaped
  <2>4. p = Dispatch => RunIds(job'[p]) \subseteq RunPanes
    BY <2>1, <2>2, KeptFields DEF RunIds, Paned
  <2>5. ShellIds(p, job'[p]) \subseteq Shells \cup {made + 1}
    BY <2>1, <2>2, KeptFields DEF ShellIds, Paned, Anchored
  <2>6. PanesStep({made + 1}) /\ Marked' \subseteq Shells /\ Remembered' \subseteq Shells
    BY <2>1, PaneMade, KeptFields DEF UseInv
  <2> DEFINE R == {}
             S == {made + 1}
  <2>7. R \cap S = {} /\ PanesStep(R \cup S)
    BY <2>6
  <2>8. p = Dispatch => /\ RunIds(job'[p]) \subseteq RunPanes \cup {None} \cup R
                        /\ job'[p].spent \subseteq RunPanes \cup job[p].spent
                        /\ job'[p].at # "idle" => AllEnded
    BY <2>1, <2>2, <2>4, KeptFields
  <2>9. /\ ShellIds(p, job'[p]) \subseteq Shells \cup {None} \cup S
        /\ Remembered' \subseteq Shells \cup {None} \cup S
        /\ Marked' \subseteq Shells \cup {None} \cup S
    BY <2>5, <2>6
  <2> HIDE DEF R, S
  <2> QED
    BY <2>1, <2>2, <2>3, <2>7, <2>8, <2>9, PlacerKeepsUse
<1> QED
  BY <1>1, <1>2

LEMMA SplitKeepsUse ==
  ASSUME UseInv, NEW p \in Placers, SplitChild(p)
  PROVE  UseInv'
<1>1. job[p].at = "split" /\ UNCHANGED rows
  BY DEF SplitChild
<1>2. CASE Raced(p) /\ UNCHANGED <<panes, made, registry>>
  BY <1>1, <1>2, RacedKeepsUse
<1>3. CASE ~(Raced(p) /\ UNCHANGED <<panes, made, registry>>)
  <2> DEFINE fields == [at |-> "start", pane |-> made + 1]
  <2>1. /\ Set(p, fields) /\ panes' = NewPane(job[p].space, job[p].tab, "board") /\ made' = made + 1
        /\ RememberTab(job[p].space, job[p].tab, job[p].anchor)
    BY <1>3 DEF SplitChild
  <2>2. DOMAIN fields = {"at", "pane"} /\ fields["at"] = "start" /\ fields["pane"] = made + 1
    OBVIOUS
  <2> HIDE DEF fields
  <2>3. /\ DOMAIN job' = Placers /\ \A q \in Placers \ {p} : job'[q] = job[q]
        /\ JobFields \subseteq DOMAIN job'[p]
        /\ job'[p].at = "start" /\ job'[p].anchor = job[p].anchor /\ job'[p].pane = made + 1
        /\ job'[p].reuse = job[p].reuse /\ job'[p].anchors = job[p].anchors
        /\ job'[p].spent = job[p].spent /\ job'[p].boot = job[p].boot
        /\ job'[p].space = job[p].space
        /\ job'[p].close = job[p].close
    BY <2>1, <2>2, StepFields
  <2>4. made + 1 # None
    BY DEF UseInv, PanesShaped, None
  <2>5. JobShaped(p, job'[p])
    BY <2>3, <2>4 DEF JobShaped, UseInv, JobsShaped
  <2> DEFINE R == IF p = Dispatch THEN {made + 1} ELSE {}
             S == IF p = Dispatch THEN {} ELSE {made + 1}
  <2>6. R \cap S = {} /\ R \cup S = {made + 1}
    OBVIOUS
  <2>7. p = Dispatch => RunIds(job'[p]) \subseteq RunPanes \cup {None} \cup R
    BY <2>3, KeptFields DEF RunIds
  <2>8. ShellIds(p, job'[p]) \subseteq Shells \cup {None} \cup S
    BY <1>1, <2>3, KeptFields DEF ShellIds, Anchored
  <2>9. PanesStep({made + 1}) /\ Marked' \subseteq Shells
    BY <2>1, PaneMade, KeptFields DEF UseInv
  <2>10. Remembered' \subseteq Shells
    BY <1>1, <2>1, KeptFields, RememberedOnly DEF Anchored
  <2>11. p = Dispatch => AllEnded
    BY <1>1, KeptFields
  <2> HIDE DEF R, S
  <2>12. PanesStep(R \cup S)
    BY <2>6, <2>9
  <2>13. p = Dispatch => /\ RunIds(job'[p]) \subseteq RunPanes \cup {None} \cup R
                         /\ job'[p].spent \subseteq RunPanes \cup job[p].spent
                         /\ job'[p].at # "idle" => AllEnded
    BY <2>3, <2>7, <2>11
  <2>14. /\ Remembered' \subseteq Shells \cup {None} \cup S
         /\ Marked' \subseteq Shells \cup {None} \cup S
    BY <2>9, <2>10
  <2> QED
    BY <1>1, <2>3, <2>5, <2>6, <2>8, <2>12, <2>13, <2>14, PlacerKeepsUse
<1> QED
  BY <1>2, <1>3

LEMMA StartKeepsUse ==
  ASSUME UseInv, NEW p \in Placers, Start(p)
  PROVE  UseInv'
<1> DEFINE fields == [at |-> "trim"]
<1>1. /\ Set(p, fields) /\ UNCHANGED <<made, rows, registry>>
      /\ job[p].at = "start" /\ job[p].pane \in DOMAIN panes
  BY DEF Start, Live
<1>2. DOMAIN fields = {"at"} /\ fields["at"] = "trim"
  OBVIOUS
<1> HIDE DEF fields
<1>3. /\ DOMAIN job' = Placers /\ \A q \in Placers \ {p} : job'[q] = job[q]
      /\ JobFields \subseteq DOMAIN job'[p]
      /\ job'[p].at = "trim"
      /\ job'[p].anchor = job[p].anchor /\ job'[p].pane = job[p].pane
      /\ job'[p].reuse = job[p].reuse /\ job'[p].anchors = job[p].anchors
      /\ job'[p].spent = job[p].spent /\ job'[p].boot = job[p].boot
      /\ job'[p].space = job[p].space
  BY <1>1, <1>2, StepFields
<1>4. JobShaped(p, job'[p])
  BY <1>1, <1>3 DEF JobShaped, UseInv, JobsShaped
<1>5. /\ p = Dispatch => RunIds(job'[p]) \subseteq RunPanes
      /\ ShellIds(p, job'[p]) \subseteq Shells
  BY <1>1, <1>3, KeptFields DEF RunIds, ShellIds, Paned, Anchored
<1>6. /\ DOMAIN panes' = DOMAIN panes
      /\ \A q \in DOMAIN panes : DOMAIN panes'[q] = DOMAIN panes[q]
      /\ \A q \in DOMAIN panes : "maker" \in DOMAIN panes[q] => panes'[q].maker = panes[q].maker
      /\ \A q \in DOMAIN panes \ {job[p].pane} : panes'[q] = panes[q]
      /\ p = Dispatch /\ "mark" \in DOMAIN panes[job[p].pane] =>
           panes'[job[p].pane].mark = panes[job[p].pane].mark
  BY <1>1 DEF Start
<1>7. PanesStep({})
  BY <1>1, <1>6 DEF PanesStep, PanesShaped, UseInv
<1>8. Marked' \subseteq Shells
  <2>1. CASE p = Dispatch
    <3>1. Marked' \subseteq Marked
      BY <1>1, <1>6, <2>1 DEF Marked, UseInv, PanesShaped
    <3> QED
      BY <3>1, KeptFields
  <2>2. CASE p # Dispatch
    <3>1. Marked' \subseteq Marked \cup {job[p].pane}
      BY <1>6 DEF Marked
    <3>2. job[p].pane \in Shells
      BY <1>1, <2>2, KeptFields DEF Paned
    <3> QED
      BY <3>1, <3>2, KeptFields
  <2> QED
    BY <2>1, <2>2
<1> QED
  BY <1>1, <1>3, <1>4, <1>5, <1>7, <1>8, KeptFields, KnownKeepUse

LEMMA FailKeepsUse ==
  ASSUME UseInv, NEW p \in Placers,
         StartOnGonePane(p) \/ (p = Dispatch /\ StartFails) \/ AbandonRescue(p)
  PROVE  UseInv'
<1>1. CASE StartOnGonePane(p)
  BY <1>1, RacedKeepsUse DEF StartOnGonePane
<1>2. CASE (p = Dispatch /\ StartFails) \/ AbandonRescue(p)
  <2>1. PICK gone : panes' = Without(gone)
    BY <1>2 DEF StartFails, AbandonRescue
  <2>2. /\ Release(p) /\ UNCHANGED <<made, rows>>
        /\ Remembered' \subseteq Remembered
    BY <1>2 DEF StartFails, AbandonRescue, Remembered
  <2>3. PanesStep({}) /\ Marked' \subseteq Marked
    BY <2>1, <2>2, PanesClosed DEF UseInv
  <2> QED
    BY <2>2, <2>3, ReleaseKeepsUse
<1> QED
  BY <1>1, <1>2

LEMMA TrimKeepsUse ==
  ASSUME UseInv, NEW p \in Placers, TrimAnchor(p)
  PROVE  UseInv'
<1>1. PICK gone : panes' = Without(gone)
  BY DEF TrimAnchor
<1>2. PanesStep({}) /\ Marked' \subseteq Marked
  BY <1>1, PanesClosed DEF UseInv, TrimAnchor
<1>3. job[p].at = "trim" /\ UNCHANGED <<made, rows, registry>>
  BY DEF TrimAnchor
<1>4. CASE p # Dispatch
  <2>1. Release(p) /\ Remembered' = Remembered
    BY <1>4 DEF TrimAnchor, Remembered
  <2> QED
    BY <1>2, <1>3, <2>1, ReleaseKeepsUse
<1>5. CASE p = Dispatch
  <2> DEFINE fields == [at |-> "register"]
  <2>1. Set(p, fields)
    BY <1>5 DEF TrimAnchor
  <2>2. DOMAIN fields = {"at"} /\ fields["at"] = "register"
    OBVIOUS
  <2> HIDE DEF fields
  <2>3. /\ DOMAIN job' = Placers /\ \A q \in Placers \ {p} : job'[q] = job[q]
        /\ JobFields \subseteq DOMAIN job'[p]
        /\ job'[p].at = "register"
        /\ job'[p].anchor = job[p].anchor /\ job'[p].pane = job[p].pane
        /\ job'[p].reuse = job[p].reuse /\ job'[p].anchors = job[p].anchors
        /\ job'[p].spent = job[p].spent /\ job'[p].boot = job[p].boot
        /\ job'[p].space = job[p].space
    BY <2>1, <2>2, StepFields
  <2>4. JobShaped(p, job'[p])
    BY <1>3, <2>3 DEF JobShaped, UseInv, JobsShaped
  <2>5. /\ p = Dispatch => RunIds(job'[p]) \subseteq RunPanes
        /\ ShellIds(p, job'[p]) \subseteq Shells
    BY <1>3, <1>5, <2>3, KeptFields DEF RunIds, ShellIds, Paned, Anchored
  <2>6. Marked' \subseteq Shells /\ Remembered' \subseteq Shells
    BY <1>2, <1>3, KeptFields
  <2> QED
    BY <1>2, <1>3, <2>3, <2>4, <2>5, <2>6, KeptFields, KnownKeepUse
<1> QED
  BY <1>4, <1>5

(* The ids that a new row records were its placement's.                    *)
LEMMA RegisterKeepsUse ==
  ASSUME UseInv, Register
  PROVE  UseInv'
<1>0. Dispatch \in Placers
  BY DEF Placers
<1>1. /\ UNCHANGED <<panes, made, registry>>
      /\ job' = [job EXCEPT ![Dispatch] = NoJob] /\ job[Dispatch].at = "register"
  BY DEF Register, Release
<1>2. PICK new : /\ rows' = Append(rows, new) /\ {"space", "pane", "anchor", "ended"} \subseteq DOMAIN new
                 /\ new.pane = job[Dispatch].pane /\ new.anchor \in {None, job[Dispatch].anchor}
  BY DEF Register
<1>3. new.pane \in RunPanes /\ new.pane # None /\ new.anchor \in Shells \cup {None}
  BY <1>0, <1>1, <1>2, KeptFields DEF Paned, Anchored, UseInv, JobsShaped, JobShaped
<1>4. PICK T : rows \in Seq(T)
  BY DEF UseInv, RowsShaped
<1>5. rows \in Seq(T \cup {new})
  <2>1. \A i \in DOMAIN rows : rows[i] \in T \cup {new}
    BY <1>4
  <2> QED
    BY <1>4, <2>1
<1>6. /\ rows' \in Seq(T \cup {new}) /\ Len(rows') = Len(rows) + 1 /\ Len(rows) \in Nat
      /\ \A i \in 1 .. Len(rows) : rows'[i] = rows[i]
      /\ rows'[Len(rows) + 1] = new
  BY <1>2, <1>5, AppendProperties
<1>7. ASSUME NEW i \in DOMAIN rows'
      PROVE  rows'[i] = new \/ \E j \in DOMAIN rows : rows'[i] = rows[j]
  <2>1. DOMAIN rows = 1 .. Len(rows) /\ DOMAIN rows' = 1 .. Len(rows')
    BY <1>5, <1>6
  <2>2. i = Len(rows) + 1 \/ i \in DOMAIN rows
    BY <1>6, <2>1
  <2>3. i \in DOMAIN rows => rows'[i] = rows[i]
    BY <1>6, <2>1
  <2>4. i = Len(rows) + 1 => rows'[i] = new
    BY <1>6
  <2> QED
    BY <2>2, <2>3, <2>4
<1>8. RowsShaped'
  <2>1. \E S : rows' \in Seq(S)
    BY <1>6
  <2> QED
    BY <1>2, <1>3, <1>7, <2>1 DEF RowsShaped, UseInv
<1>9. RowPanes' \subseteq RunPanes /\ RowAnchors' \subseteq Shells \cup {None}
  BY <1>3, <1>7 DEF RowPanes, RunPanes, RowAnchors, Shells
<1>10. /\ DOMAIN job' = Placers /\ job'[Dispatch] = NoJob
       /\ \A q \in Placers \ {Dispatch} : job'[q] = job[q]
  BY <1>0, <1>1 DEF UseInv, JobsShaped
<1>11. JobsShaped'
  BY <1>10, NoJobHolds DEF JobsShaped, UseInv
<1>12. RunPanes' \subseteq RunPanes \cup {None}
  <2>1. RunPanes' = RowPanes' \cup RunIds(job'[Dispatch])
    BY DEF RunPanes, RowPanes, RunIds
  <2> QED
    BY <1>9, <1>10, <2>1, NoJobHolds
<1>13. Shells' \subseteq Shells \cup {None}
  <2>1. ASSUME NEW q \in Placers PROVE ShellIds(q, job'[q]) \subseteq Shells
    <3>1. CASE q = Dispatch
      BY <1>10, <3>1, NoJobHolds
    <3>2. CASE q # Dispatch
      <4>1. job'[q] = job[q]
        BY <1>10, <3>2
      <4> QED
        BY <4>1 DEF Shells
    <3> QED
      BY <3>1, <3>2
  <2>2. Shells' = Remembered' \cup RowAnchors' \cup Marked' \cup UNION {ShellIds(q, job'[q]) : q \in Placers}
    BY DEF Shells, ShellIds
  <2>3. Remembered' \subseteq Shells /\ Marked' \subseteq Shells
    BY <1>0, <1>1, PanesUnchanged, KeptFields DEF UseInv
  <2> QED
    BY <1>9, <2>1, <2>2, <2>3
<1>14. PanesStep({}) /\ job'[Dispatch].spent \subseteq RunPanes
  BY <1>1, <1>10, PanesUnchanged, NoJobHolds DEF UseInv
<1> DEFINE R == {}
           S == {}
<1>15. R \cap S = {} /\ PanesStep(R \cup S) /\ RunPanes' \subseteq RunPanes \cup {None} \cup R
       /\ Shells' \subseteq Shells \cup {None} \cup S
  BY <1>12, <1>13, <1>14
<1> HIDE DEF R, S
<1>16. Apart'
  BY <1>14, <1>15, ApartKept
<1>17. BusyEnded'
  BY <1>10, NoJobHolds DEF BusyEnded
<1>18. PanesShaped'
  BY <1>1 DEF PanesShaped, UseInv
<1> QED
  BY <1>8, <1>11, <1>16, <1>17, <1>18 DEF UseInv

(* The ids that the rows recorded in one workspace.                        *)
LEMMA AnchorsOfRows ==
  ASSUME RowsShaped, NEW w
  PROVE  owned_anchor_ids(w) \in Seq(RowAnchors \cup {None})
<1>1. DOMAIN rows = 1 .. Len(rows) /\ Len(rows) \in Nat
  BY DEF RowsShaped
<1> DEFINE id(row) == IF row.space = w THEN row.anchor ELSE None
<1>2. ASSUME NEW k \in 1 .. Len(rows) PROVE id(rows[Len(rows) + 1 - k]) \in RowAnchors \cup {None}
  <2>1. Len(rows) + 1 - k \in 1 .. Len(rows)
    BY <1>1
  <2> QED
    BY <1>1, <2>1 DEF RowAnchors
<1>3. owned_anchor_ids(w) = [k \in 1 .. Len(rows) |-> id(rows[Len(rows) + 1 - k])]
  BY <1>1 DEF owned_anchor_ids
<1> HIDE DEF id
<1> QED
  BY <1>1, <1>2, <1>3

LEMMA ReuseIsRows ==
  ASSUME RowsShaped, NEW w
  PROVE  reuse_pane_id(w) \in RowPanes \cup {None} /\ reclaimable_ids(w) \subseteq RowPanes
<1>1. DOMAIN rows = 1 .. Len(rows) /\ Len(rows) \in Nat
  BY DEF RowsShaped
<1>2. /\ EndedIn(w) \in SUBSET Nat /\ EndedIn(w) \subseteq DOMAIN rows
      /\ \A n \in EndedIn(w) : n <= Len(rows)
  BY <1>1 DEF EndedIn
<1>3. EndedIn(w) # {} => Max(EndedIn(w)) \in EndedIn(w)
  BY <1>1, <1>2, MaxOf
<1> QED
  BY <1>2, <1>3 DEF reuse_pane_id, reclaimable_ids, RowPanes

(* A plan starts from nothing, and takes its ids from the rows.            *)
LEMMA PlanKeepsUse ==
  ASSUME UseInv, NEW p \in Placers, NEW draft, job[p].at = "idle", Set(p, draft),
         UNCHANGED <<panes, made, rows, registry>>,
         "at" \in DOMAIN draft, draft["at"] \in {"vacant", "planned"}, "boot" \notin DOMAIN draft,
         "anchors" \in DOMAIN draft => draft["anchors"] \in Seq(RowAnchors \cup {None}),
         "reuse" \in DOMAIN draft => draft["reuse"] \in RowPanes \cup {None},
         "spent" \in DOMAIN draft => draft["spent"] \subseteq RowPanes,
         p = Dispatch => AllEnded,
         p # Dispatch => /\ {"reuse", "spent"} \cap DOMAIN draft = {}
                         /\ "run" \in DOMAIN draft /\ draft["run"] # None
  PROVE  UseInv'
<1>1. /\ DOMAIN job' = Placers /\ \A q \in Placers \ {p} : job'[q] = job[q]
      /\ JobFields \subseteq DOMAIN job'[p]
      /\ \A f \in DOMAIN draft : job'[p][f] = draft[f]
      /\ \A f \in JobFields \ DOMAIN draft : job'[p][f] = job[p][f]
  BY SetFields DEF UseInv
<1>2. job[p].reuse = None /\ job[p].spent = {} /\ job[p].boot = FALSE /\ job[p].anchors = <<>>
  BY DEF UseInv, JobsShaped, JobShaped, NoJob
<1>3. /\ job'[p].at \in {"vacant", "planned"} /\ job'[p].boot = FALSE
      /\ p # Dispatch => job'[p].run # None
  BY <1>1, <1>2 DEF JobFields
<1>4. job'[p].reuse \in RowPanes \cup {None} /\ (p # Dispatch => job'[p].reuse = None)
  BY <1>1, <1>2 DEF JobFields
<1>5. job'[p].spent \subseteq RowPanes /\ (p # Dispatch => job'[p].spent = {})
  BY <1>1, <1>2 DEF JobFields
<1>6. job'[p].anchors \in Seq(RowAnchors \cup {None})
  <2>1. <<>> \in Seq(RowAnchors \cup {None})
    OBVIOUS
  <2> QED
    BY <1>1, <1>2, <2>1 DEF JobFields
<1>7. JobShaped(p, job'[p])
  BY <1>1, <1>3, <1>4, <1>5, <1>6 DEF JobShaped
<1>8. p = Dispatch => RunIds(job'[p]) \subseteq RunPanes \cup {None} /\ job'[p].spent \subseteq RunPanes
  BY <1>3, <1>4, <1>5 DEF RunIds, RunPanes, Paned
<1>9. ShellIds(p, job'[p]) \subseteq Shells \cup {None}
  <2>1. \A k \in DOMAIN job'[p].anchors : job'[p].anchors[k] \in RowAnchors \cup {None}
    BY <1>6
  <2> QED
    BY <1>3, <2>1 DEF ShellIds, Paned, Anchored, Shells
<1>10. PanesStep({}) /\ Marked' \subseteq Shells /\ Remembered' \subseteq Shells
  BY PanesUnchanged, KeptFields DEF UseInv
<1> QED
  BY <1>1, <1>7, <1>8, <1>9, <1>10, KnownKeepUse

LEMMA LaunchPlanKeepsUse ==
  ASSUME UseInv, NEW managed, NEW resumes, PlanLaunch(managed, resumes)
  PROVE  UseInv'
<1>1. PICK w, place, draft :
        /\ place = [spent |-> reclaimable_ids(w),
                    reuse |-> IF resumes THEN reuse_pane_id(w) ELSE None]
        /\ draft = With(resolve_space(With(Planned(w), place)), [managed |-> managed])
        /\ Set(Dispatch, draft)
  BY DEF PlanLaunch
<1>2. /\ UNCHANGED <<panes, made, rows, registry>> /\ job[Dispatch].at = "idle" /\ AllEnded
      /\ Dispatch \in Placers
  BY DEF PlanLaunch, AllEnded, Placers
<1>3. /\ owned_anchor_ids(w) \in Seq(RowAnchors \cup {None})
      /\ reuse_pane_id(w) \in RowPanes \cup {None} /\ reclaimable_ids(w) \subseteq RowPanes
  BY AnchorsOfRows, ReuseIsRows DEF UseInv
<1>4. /\ DOMAIN place = {"spent", "reuse"} /\ place["spent"] = reclaimable_ids(w)
      /\ place["reuse"] \in {None, reuse_pane_id(w)}
  BY <1>1
<1>5. /\ DOMAIN Planned(w) = {"at", "space", "proof", "durable", "anchors"}
      /\ Planned(w)["at"] = "planned" /\ Planned(w)["anchors"] = owned_anchor_ids(w)
  BY DEF Planned
<1>6. PICK found : found = resolve_space(With(Planned(w), place))
  OBVIOUS
<1>7. /\ "at" \in DOMAIN found /\ found["at"] \in {"vacant", "planned"}
      /\ {"boot", "managed"} \cap DOMAIN found = {}
      /\ "anchors" \in DOMAIN found => found["anchors"] = owned_anchor_ids(w)
      /\ "reuse" \in DOMAIN found => found["reuse"] = place["reuse"]
      /\ "spent" \in DOMAIN found => found["spent"] = reclaimable_ids(w)
  <2>1. CASE Spaces = {}
    <3>1. found = [at |-> "vacant"]
      BY <1>6, <2>1 DEF resolve_space
    <3>2. DOMAIN found = {"at"} /\ found["at"] = "vacant"
      BY <3>1
    <3> QED
      BY <3>2
  <2>2. CASE Spaces # {}
    <3>1. found = With(Planned(w), place)
      BY <1>6, <2>2 DEF resolve_space
    <3> QED
      BY <1>4, <1>5, <3>1 DEF With
  <2> QED
    BY <2>1, <2>2
<1>8. /\ DOMAIN draft = DOMAIN found \cup {"managed"}
      /\ \A f \in DOMAIN found : draft[f] = found[f]
  <2> DEFINE more == [managed |-> managed]
  <2>1. DOMAIN more = {"managed"} /\ draft = With(found, more)
    BY <1>1, <1>6
  <2> HIDE DEF more
  <2> QED
    BY <1>7, <2>1 DEF With
<1> QED
  BY <1>1, <1>2, <1>3, <1>4, <1>7, <1>8, PlanKeepsUse

LEMMA RescuePlanKeepsUse ==
  ASSUME UseInv, NEW p \in Focusers, Dispatch \notin Focusers, NEW i \in DOMAIN rows, PlanRescue(p, i)
  PROVE  UseInv'
<1>1. p \in Placers /\ p # Dispatch /\ i # None
  BY DEF Placers, UseInv, RowsShaped, None
<1>2. PICK draft : draft = rescue_run(i)
  OBVIOUS
<1>3. Set(p, draft) /\ UNCHANGED <<panes, made, rows, registry>> /\ job[p].at = "idle"
  BY <1>2 DEF PlanRescue
<1>4. PICK w : \/ draft = With(Planned(w), [managed |-> rows[i].managed, run |-> i])
               \/ draft = With([at |-> "vacant"], [managed |-> rows[i].managed, run |-> i])
               \/ draft = With([at |-> "planned", space |-> w], [managed |-> rows[i].managed, run |-> i])
  BY <1>2 DEF rescue_run, resolve_space
<1>5. owned_anchor_ids(w) \in Seq(RowAnchors \cup {None})
  BY AnchorsOfRows DEF UseInv
<1> DEFINE more == [managed |-> rows[i].managed, run |-> i]
<1>6. DOMAIN more = {"managed", "run"} /\ more["run"] = i
  OBVIOUS
<1> HIDE DEF more
<1>7. /\ "at" \in DOMAIN draft /\ draft["at"] \in {"vacant", "planned"}
      /\ "run" \in DOMAIN draft /\ draft["run"] = i
      /\ {"boot", "reuse", "spent"} \cap DOMAIN draft = {}
      /\ "anchors" \in DOMAIN draft => draft["anchors"] = owned_anchor_ids(w)
  <2>1. CASE draft = With(Planned(w), more)
    <3>1. /\ DOMAIN Planned(w) = {"at", "space", "proof", "durable", "anchors"}
          /\ Planned(w)["at"] = "planned" /\ Planned(w)["anchors"] = owned_anchor_ids(w)
      BY DEF Planned
    <3> QED
      BY <1>6, <2>1, <3>1 DEF With
  <2>2. ASSUME NEW place, DOMAIN place \subseteq {"at", "space"}, "at" \in DOMAIN place,
               place["at"] \in {"vacant", "planned"}, draft = With(place, more)
        PROVE  /\ "at" \in DOMAIN draft /\ draft["at"] \in {"vacant", "planned"}
               /\ "run" \in DOMAIN draft /\ draft["run"] = i
               /\ {"boot", "reuse", "spent"} \cap DOMAIN draft = {}
               /\ "anchors" \notin DOMAIN draft
    BY <1>6, <2>2 DEF With
  <2>3. CASE draft = With([at |-> "vacant"], more)
    <3>1. PICK place : place = [at |-> "vacant"]
      OBVIOUS
    <3>2. DOMAIN place = {"at"} /\ place["at"] = "vacant"
      BY <3>1
    <3> QED
      BY <2>2, <2>3, <3>1, <3>2
  <2>4. CASE draft = With([at |-> "planned", space |-> w], more)
    <3>1. PICK place : place = [at |-> "planned", space |-> w]
      OBVIOUS
    <3>2. DOMAIN place = {"at", "space"} /\ place["at"] = "planned"
      BY <3>1
    <3> QED
      BY <2>2, <2>4, <3>1, <3>2
  <2> QED
    BY <1>4, <2>1, <2>3, <2>4 DEF more
<1> QED
  BY <1>1, <1>3, <1>5, <1>7, PlanKeepsUse

(* A workspace is made, with a shell that nothing names yet.               *)
LEMMA SpaceKeepsUse ==
  ASSUME UseInv, NEW p \in Placers, CreateSpace(p)
  PROVE  UseInv'
<1> DEFINE fields == [at |-> "planned", space |-> made + 1, boot |-> TRUE]
<1>1. /\ Set(p, fields) /\ panes' = NewPane(made + 1, made + 1, "board") /\ made' = made + 1
      /\ UNCHANGED <<rows, registry>> /\ job[p].at = "vacant"
  BY DEF CreateSpace
<1>2. /\ DOMAIN fields = {"at", "space", "boot"} /\ fields["at"] = "planned"
      /\ fields["space"] = made + 1
  OBVIOUS
<1> HIDE DEF fields
<1>3. /\ DOMAIN job' = Placers /\ \A q \in Placers \ {p} : job'[q] = job[q]
      /\ JobFields \subseteq DOMAIN job'[p]
      /\ \A f \in DOMAIN fields : job'[p][f] = fields[f]
      /\ \A f \in JobFields \ DOMAIN fields : job'[p][f] = job[p][f]
  BY <1>1, SetFields DEF UseInv
<1>4. /\ job'[p].at = "planned" /\ job'[p].space = made + 1
      /\ job'[p].anchors = job[p].anchors /\ job'[p].reuse = job[p].reuse
      /\ job'[p].spent = job[p].spent /\ job'[p].run = job[p].run
  BY <1>2, <1>3 DEF JobFields
<1>5. JobShaped(p, job'[p])
  BY <1>1, <1>3, <1>4 DEF JobShaped, UseInv, JobsShaped
<1> DEFINE R == {}
           S == {made + 1}
<1>6. R \cap S = {} /\ PanesStep(R \cup S) /\ Marked' \subseteq Shells /\ Remembered' \subseteq Shells
  BY <1>1, PaneMade, KeptFields DEF UseInv
<1>7. p = Dispatch => RunIds(job'[p]) \subseteq RunPanes /\ AllEnded
  BY <1>1, <1>4, KeptFields DEF RunIds, Paned
<1>8. ShellIds(p, job'[p]) \subseteq Shells \cup S
  BY <1>4, KeptFields DEF ShellIds, Paned, Anchored
<1> HIDE DEF R, S
<1> QED
  BY <1>1, <1>3, <1>4, <1>5, <1>6, <1>7, <1>8, PlacerKeepsUse

(* What the runs, the agents and the user do changes no maker.             *)
LEMMA OutsideKeepsUse ==
  ASSUME UseInv, PanesStep({}), Marked' \subseteq Marked, job' = job, registry' = registry,
         RowsShaped', RowPanes' = RowPanes, RowAnchors' = RowAnchors, AllEnded => AllEnded'
  PROVE  UseInv'
<1>0. Dispatch \in Placers
  BY DEF Placers
<1>1. RunPanes' = RunPanes
  <2>1. RunPanes' = RowPanes' \cup RunIds(job'[Dispatch])
    BY DEF RunPanes, RowPanes, RunIds
  <2> QED
    BY <2>1 DEF RunPanes
<1>2. Shells' \subseteq Shells
  <2>1. /\ Shells' = Remembered' \cup RowAnchors' \cup Marked' \cup UNION {ShellIds(q, job'[q]) : q \in Placers}
        /\ Remembered' = Remembered
    BY DEF Shells, ShellIds, Remembered
  <2> QED
    BY <2>1 DEF Shells
<1> DEFINE R == {}
           S == {}
<1>3. /\ R \cap S = {} /\ PanesStep(R \cup S) /\ RunPanes' \subseteq RunPanes \cup {None} \cup R
      /\ Shells' \subseteq Shells \cup {None} \cup S
      /\ job'[Dispatch].spent \subseteq RunPanes \cup job[Dispatch].spent
  BY <1>1, <1>2
<1> HIDE DEF R, S
<1>4. Apart'
  BY <1>3, ApartKept
<1>5. PanesShaped'
  BY DEF PanesStep, PanesShaped
<1>6. JobsShaped' /\ BusyEnded'
  BY DEF UseInv, JobsShaped, JobShaped, BusyEnded
<1> QED
  BY <1>4, <1>5, <1>6 DEF UseInv

LEMMA EndKeepsUse ==
  ASSUME UseInv, NEW i \in DOMAIN rows, RunEnds(i)
  PROVE  UseInv'
<1>1. /\ rows' = [rows EXCEPT ![i].ended = TRUE]
      /\ UNCHANGED <<panes, made, registry, job>>
  BY DEF RunEnds
<1>2. DOMAIN rows = 1 .. Len(rows) /\ Len(rows) \in Nat
  BY DEF UseInv, RowsShaped
<1>3. \A k \in DOMAIN rows : {"space", "pane", "anchor", "ended"} \subseteq DOMAIN rows[k]
  BY DEF UseInv, RowsShaped
<1>4. /\ DOMAIN rows' = DOMAIN rows
      /\ \A k \in DOMAIN rows : /\ DOMAIN rows'[k] = DOMAIN rows[k]
                                /\ rows'[k].pane = rows[k].pane
                                /\ rows'[k].anchor = rows[k].anchor
                                /\ rows[k].ended => rows'[k].ended
  <2>1. DOMAIN rows' = DOMAIN rows
    BY <1>1
  <2>2. ASSUME NEW k \in DOMAIN rows
        PROVE  /\ DOMAIN rows'[k] = DOMAIN rows[k]
               /\ rows'[k].pane = rows[k].pane
               /\ rows'[k].anchor = rows[k].anchor
               /\ rows[k].ended => rows'[k].ended
    <3>1. CASE k = i
      <4>1. rows'[k] = [rows[k] EXCEPT !.ended = TRUE]
        BY <1>1, <3>1
      <4> QED
        BY <1>3, <4>1
    <3>2. CASE k # i
      BY <1>1, <3>2
    <3> QED
      BY <3>1, <3>2
  <2> QED
    BY <2>1, <2>2
<1>5. \E S : rows' \in Seq(S)
  <2> DEFINE T == {rows'[k] : k \in 1 .. Len(rows)}
  <2>1. rows' = [k \in 1 .. Len(rows) |-> rows'[k]]
    BY <1>1, <1>2, <1>4
  <2>2. \A k \in 1 .. Len(rows) : rows'[k] \in T
    OBVIOUS
  <2> HIDE DEF T
  <2>3. rows' \in Seq(T)
    BY <1>2, <2>1, <2>2
  <2> QED
    BY <2>3
<1>6. RowsShaped'
  BY <1>4, <1>5 DEF RowsShaped, UseInv
<1>7. RowPanes' = RowPanes /\ RowAnchors' = RowAnchors
  BY <1>4 DEF RowPanes, RowAnchors
<1>8. AllEnded => AllEnded'
  BY <1>4 DEF AllEnded
<1>9. PanesStep({}) /\ Marked' = Marked
  BY <1>1, PanesUnchanged DEF UseInv
<1> QED
  BY <1>1, <1>6, <1>7, <1>8, <1>9, OutsideKeepsUse

LEMMA UserKeepsUse ==
  ASSUME UseInv, NEW q \in DOMAIN panes, AgentActs(q) \/ UserCloses(q) \/ UserSplits(q)
  PROVE  UseInv'
<1>1. UNCHANGED <<rows, registry, job>>
  BY DEF AgentActs, UserCloses, UserSplits
<1>2. PanesStep({}) /\ Marked' \subseteq Marked
  <2>1. CASE AgentActs(q)
    <3>1. /\ made' = made /\ DOMAIN panes' = DOMAIN panes
          /\ \A r \in DOMAIN panes : {"space", "tab", "maker", "agent", "mark"} \subseteq DOMAIN panes[r] =>
               /\ DOMAIN panes'[r] = DOMAIN panes[r]
               /\ panes'[r].maker = panes[r].maker /\ panes'[r].mark = panes[r].mark
      BY <2>1 DEF AgentActs
    <3> QED
      BY <3>1 DEF PanesStep, Marked, PanesShaped, UseInv
  <2>2. CASE UserCloses(q)
    <3>1. made' = made /\ \E gone : panes' = Without(gone)
      BY <2>2 DEF UserCloses
    <3> QED
      BY <3>1, PanesClosed DEF UseInv
  <2>3. CASE UserSplits(q)
    <3>1. panes' = NewPane(panes[q].space, panes[q].tab, "user") /\ made' = made + 1
      BY <2>3 DEF UserSplits
    <3> QED
      BY <3>1, PaneMade DEF UseInv
  <2> QED
    BY <2>1, <2>2, <2>3
<1>3. RowsShaped' /\ RowPanes' = RowPanes /\ RowAnchors' = RowAnchors /\ AllEnded' = AllEnded
  BY <1>1 DEF RowsShaped, RowPanes, RowAnchors, AllEnded, UseInv
<1> QED
  BY <1>1, <1>2, <1>3, OutsideKeepsUse

(* The panes outlive the daemon; what it remembers of them does not.       *)
LEMMA TabRestartKeepsUse ==
  ASSUME UseInv, DaemonRestarts
  PROVE  UseInv'
<1>0. Dispatch \in Placers
  BY DEF Placers
<1>1. /\ registry' = <<>> /\ UNCHANGED <<panes, made, rows>>
      /\ DOMAIN job' = Placers /\ \A p \in Placers : job'[p] = NoJob
  BY DEF DaemonRestarts
<1>2. RunPanes' \subseteq RunPanes \cup {None}
  <2>1. RunPanes' = RowPanes' \cup RunIds(job'[Dispatch]) /\ RowPanes' = RowPanes
    BY <1>1 DEF RunPanes, RowPanes, RunIds
  <2> QED
    BY <1>0, <1>1, <2>1, NoJobHolds DEF RunPanes
<1>3. PanesStep({}) /\ Marked' = Marked
  BY <1>1, PanesUnchanged DEF UseInv
<1>4. Shells' \subseteq Shells \cup {None}
  <2>1. /\ Shells' = Remembered' \cup RowAnchors' \cup Marked' \cup UNION {ShellIds(q, job'[q]) : q \in Placers}
        /\ RowAnchors' = RowAnchors /\ Remembered' = {}
    BY <1>1 DEF Shells, ShellIds, RowAnchors, Remembered
  <2>2. \A q \in Placers : ShellIds(q, job'[q]) = {}
    BY <1>1, NoJobHolds
  <2> QED
    BY <1>3, <2>1, <2>2 DEF Shells
<1> DEFINE R == {}
           S == {}
<1>5. /\ R \cap S = {} /\ PanesStep(R \cup S) /\ RunPanes' \subseteq RunPanes \cup {None} \cup R
      /\ Shells' \subseteq Shells \cup {None} \cup S
      /\ job'[Dispatch].spent \subseteq RunPanes \cup job[Dispatch].spent
  BY <1>0, <1>1, <1>2, <1>3, <1>4, NoJobHolds
<1> HIDE DEF R, S
<1>6. Apart'
  BY <1>5, ApartKept
<1>7. PanesShaped' /\ RowsShaped'
  BY <1>1 DEF PanesShaped, RowsShaped, UseInv
<1>8. JobsShaped' /\ BusyEnded'
  BY <1>0, <1>1, NoJobHolds DEF JobsShaped, BusyEnded
<1> QED
  BY <1>6, <1>7, <1>8 DEF UseInv

LEMMA UseStarts ==
  ASSUME TabInit
  PROVE  UseInv
<1>0. Dispatch \in Placers
  BY DEF Placers
<1>1. /\ panes = <<>> /\ made = 1 /\ registry = <<>>
      /\ DOMAIN job = Placers /\ \A p \in Placers : job[p] = NoJob
  BY DEF TabInit
<1>2. /\ \E S : rows \in Seq(S)
      /\ \A i \in DOMAIN rows : /\ {"space", "pane", "anchor", "ended"} \subseteq DOMAIN rows[i]
                               /\ rows[i].pane = 1 /\ rows[i].anchor = None
  <2>1. CASE rows = <<>>
    <3>1. rows \in Seq({})
      BY <2>1
    <3> QED
      BY <2>1, <3>1
  <2>2. CASE \E managed \in BOOLEAN :
               rows = <<[space |-> 1, pane |-> 1, anchor |-> None, managed |-> managed,
                         ended |-> TRUE]>>
    <3>1. PICK row : /\ rows = <<row>> /\ {"space", "pane", "anchor", "ended"} \subseteq DOMAIN row
                     /\ row.pane = 1 /\ row.anchor = None
      BY <2>2
    <3>2. rows \in Seq({row}) /\ \A i \in DOMAIN rows : rows[i] = row
      BY <3>1
    <3> QED
      BY <3>1, <3>2
  <2> QED
    BY <2>1, <2>2 DEF TabInit
<1>3. PanesShaped /\ RowsShaped
  BY <1>1, <1>2 DEF PanesShaped, RowsShaped, None
<1>4. JobsShaped /\ BusyEnded
  BY <1>0, <1>1, NoJobHolds DEF JobsShaped, BusyEnded
<1>5. RowPanes \subseteq {1} /\ RowAnchors \subseteq {None} /\ Marked = {} /\ Remembered = {}
  BY <1>1, <1>2 DEF RowPanes, RowAnchors, Marked, Remembered
<1>6. RunPanes \subseteq {None, 1} /\ Shells \subseteq {None} /\ job[Dispatch].spent = {}
  <2>1. RunIds(job[Dispatch]) = {None} /\ job[Dispatch].spent = {}
    BY <1>0, <1>1, NoJobHolds
  <2>2. \A p \in Placers : ShellIds(p, job[p]) = {}
    BY <1>1, NoJobHolds
  <2> QED
    BY <1>5, <2>1, <2>2 DEF RunPanes, Shells
<1>7. BoardMade(1) /\ BoardMade(None)
  BY <1>1 DEF BoardMade
<1>8. Apart
  BY <1>6, <1>7 DEF Apart
<1> QED
  BY <1>3, <1>4, <1>8 DEF UseInv

LEMMA UseKept ==
  ASSUME UseInv, Dispatch \notin Focusers, [TabNext]_tabVars
  PROVE  UseInv'
<1>1. CASE UNCHANGED tabVars
  <2>1. UNCHANGED <<panes, made, rows, registry, job>>
    BY <1>1 DEF tabVars
  <2>2. PanesStep({}) /\ Marked' = Marked
    BY <2>1, PanesUnchanged DEF UseInv
  <2>3. RowsShaped' /\ RowPanes' = RowPanes /\ RowAnchors' = RowAnchors /\ AllEnded' = AllEnded
    BY <2>1 DEF RowsShaped, RowPanes, RowAnchors, AllEnded, UseInv
  <2> QED
    BY <2>1, <2>2, <2>3, OutsideKeepsUse
<1>2. ASSUME NEW managed \in BOOLEAN, NEW resumes \in BOOLEAN, PlanLaunch(managed, resumes)
      PROVE  UseInv'
  BY <1>2, LaunchPlanKeepsUse
<1>3. ASSUME NEW p \in Placers, CreateSpace(p) \/ Refused(p)
      PROVE  UseInv'
  BY <1>3, SpaceKeepsUse, LockKeepsUse
<1>4. ASSUME NEW p \in Focusers, NEW i \in DOMAIN rows, PlanRescue(p, i)
      PROVE  UseInv'
  BY <1>4, RescuePlanKeepsUse
<1>5. ASSUME NEW p \in Focusers, Look(p) \/ AbandonRescue(p)
      PROVE  UseInv'
  <2>1. p \in Placers
    BY DEF Placers
  <2> QED
    BY <1>5, <2>1, LockKeepsUse, FailKeepsUse
<1>6. ASSUME NEW p \in Placers,
             \/ TakeLock(p) \/ Choose(p) \/ Reanchor(p) \/ Reclaim(p) \/ CreateTab(p)
             \/ SplitChild(p) \/ Start(p) \/ StartOnGonePane(p) \/ TrimAnchor(p)
      PROVE  UseInv'
  BY <1>6, LockKeepsUse, ChooseKeepsUse, ShellKeepsUse, ReclaimKeepsUse, SplitKeepsUse,
     StartKeepsUse, FailKeepsUse, TrimKeepsUse
<1>7. CASE StartFails \/ Register \/ DaemonRestarts
  <2>1. Dispatch \in Placers
    BY DEF Placers
  <2> QED
    BY <1>7, <2>1, FailKeepsUse, RegisterKeepsUse, TabRestartKeepsUse
<1>8. ASSUME NEW i \in DOMAIN rows, RunEnds(i)
      PROVE  UseInv'
  BY <1>8, EndKeepsUse
<1>9. ASSUME NEW q \in DOMAIN panes, AgentActs(q) \/ UserCloses(q) \/ UserSplits(q)
      PROVE  UseInv'
  BY <1>9, UserKeepsUse
<1> QED
  BY <1>1, <1>2, <1>3, <1>4, <1>5, <1>6, <1>7, <1>8, <1>9 DEF TabNext

(* The workspace that a rescue made and gives up goes with all its panes.  *)
InAbandoned(q) ==
  \E p \in Focusers : AbandonRescue(p) /\ ClosesSpace(p) /\ panes[q].space = job[p].space

(* What a placer may close: a shell or a rescue, and while no run of the   *)
(* card is open, what its rows name.                                       *)
Closable == Shells \cup (IF AllEnded THEN RunPanes \cup job[Dispatch].spent ELSE {})

LEMMA ClosableIsSpent ==
  ASSUME UseInv, NEW q \in DOMAIN panes \cap Closable
  PROVE  panes[q].maker = "board" /\ \A i \in DOMAIN rows : rows[i].pane = q => rows[i].ended
<1>1. q \in 1 .. made /\ q # None
  BY DEF UseInv, PanesShaped, None
<1>2. panes[q].maker = "board"
  BY <1>1 DEF Closable, UseInv, Apart, BoardMade
<1>3. ASSUME NEW i \in DOMAIN rows, rows[i].pane = q PROVE rows[i].ended
  <2>1. q \in RunPanes
    BY <1>3 DEF RunPanes, RowPanes
  <2>2. q \notin Shells
    BY <1>1, <2>1 DEF UseInv, Apart
  <2>3. AllEnded
    BY <2>2 DEF Closable
  <2> QED
    BY <2>3 DEF AllEnded
<1> QED
  BY <1>2, <1>3

LEMMA OnlyClosableGo ==
  ASSUME UseInv, Dispatch \notin Focusers, TabNext, job' # job, NEW q \in DOMAIN panes \ DOMAIN panes'
  PROVE  q \in Closable \/ InAbandoned(q)
<1>1. ASSUME NEW gone, panes' = Without(gone) PROVE q \in gone
  BY <1>1 DEF Without
<1>2. ASSUME NEW w, NEW t, NEW m, panes' = NewPane(w, t, m) PROVE FALSE
  BY <1>2 DEF NewPane
<1>3. UNCHANGED panes => FALSE
  OBVIOUS
<1>4. ASSUME NEW p \in Focusers, Look(p) \/ AbandonRescue(p)
      PROVE  q \in Closable \/ InAbandoned(q)
  <2>1. p \in Placers /\ p # Dispatch
    BY DEF Placers
  <2>2. CASE Look(p)
    <3>1. q \in DOMAIN panes /\ panes[q].mark = job[p].run
      BY <1>1, <1>3, <2>2 DEF Look, SpaceOf
    <3>2. job[p].run # None
      BY <2>1, <2>2 DEF Look, UseInv, JobsShaped, JobShaped
    <3>3. q \in Marked
      BY <3>1, <3>2 DEF Marked
    <3> QED
      BY <3>3 DEF Closable, Shells
  <2>3. CASE AbandonRescue(p)
    <3>1. /\ \/ q \in {job[p].pane} \cup (IF job[p].fresh THEN {job[p].anchor} ELSE {})
             \/ ClosesSpace(p) /\ q \in SpaceOf(job[p].space)
          /\ job[p].at = "start"
      BY <1>1, <2>3 DEF AbandonRescue
    <3>2. job[p].pane \in Shells /\ job[p].anchor \in Shells
      BY <2>1, <3>1, KeptFields DEF Paned, Anchored
    <3>3. CASE ClosesSpace(p) /\ q \in SpaceOf(job[p].space)
      BY <2>3, <3>3 DEF InAbandoned, SpaceOf
    <3>4. CASE q \in {job[p].pane} \cup (IF job[p].fresh THEN {job[p].anchor} ELSE {})
      BY <3>2, <3>4 DEF Closable
    <3> QED
      BY <3>1, <3>3, <3>4
  <2> QED
    BY <1>4, <2>2, <2>3
<1>5. ASSUME NEW p \in Placers, Reclaim(p) PROVE q \in Closable
  <2>1. q \in job[p].close /\ job[p].at = "reclaim"
    BY <1>1, <1>5 DEF Reclaim
  <2>2. q \in job[p].spent
    BY <2>1 DEF UseInv, JobsShaped, JobShaped
  <2>3. p = Dispatch
    BY <2>2 DEF UseInv, JobsShaped, JobShaped
  <2>4. AllEnded
    BY <2>1, <2>3, KeptFields
  <2> QED
    BY <2>2, <2>3, <2>4 DEF Closable
<1>6. ASSUME NEW p \in Placers, TrimAnchor(p) PROVE q \in Closable
  <2>1. q = job[p].anchor /\ job[p].at = "trim"
    BY <1>1, <1>6 DEF TrimAnchor
  <2> QED
    BY <2>1, KeptFields DEF Closable, Anchored
<1>7. CASE StartFails
  <2>1. q = job[Dispatch].pane /\ job[Dispatch].at = "start" /\ Dispatch \in Placers
    BY <1>1, <1>7 DEF StartFails, Placers
  <2>2. q \in RunPanes /\ AllEnded
    BY <2>1, KeptFields DEF Paned
  <2> QED
    BY <2>2 DEF Closable
<1>8. ASSUME NEW p \in Placers,
             \/ CreateSpace(p) \/ TakeLock(p) \/ Refused(p) \/ Choose(p) \/ Reanchor(p)
             \/ CreateTab(p) \/ SplitChild(p) \/ Start(p) \/ StartOnGonePane(p)
      PROVE  FALSE
  <2>1. CASE TakeLock(p) \/ Refused(p) \/ Choose(p) \/ StartOnGonePane(p)
    BY <1>3, <2>1 DEF TakeLock, Refused, Choose, StartOnGonePane
  <2>2. CASE CreateSpace(p) \/ Reanchor(p) \/ CreateTab(p) \/ SplitChild(p)
    BY <1>2, <1>3, <2>2 DEF CreateSpace, Reanchor, CreateTab, SplitChild
  <2>3. CASE Start(p)
    <3>1. DOMAIN panes' = DOMAIN panes
      BY <2>3 DEF Start
    <3> QED
      BY <3>1
  <2> QED
    BY <1>8, <2>1, <2>2, <2>3
<1>9. ASSUME NEW managed \in BOOLEAN, NEW resumes \in BOOLEAN,
             PlanLaunch(managed, resumes)
      PROVE  FALSE
  BY <1>3, <1>9 DEF PlanLaunch
<1>10. ASSUME NEW p \in Focusers, NEW i \in DOMAIN rows, PlanRescue(p, i) PROVE FALSE
  BY <1>3, <1>10 DEF PlanRescue
<1>11. CASE Register \/ DaemonRestarts
  BY <1>3, <1>11 DEF Register, DaemonRestarts
<1>12. ASSUME NEW i \in DOMAIN rows, RunEnds(i) PROVE FALSE
  BY <1>12 DEF RunEnds
<1>13. ASSUME NEW r \in DOMAIN panes, AgentActs(r) \/ UserCloses(r) \/ UserSplits(r) PROVE FALSE
  BY <1>13 DEF AgentActs, UserCloses, UserSplits
<1> QED
  BY <1>4, <1>5, <1>6, <1>7, <1>8, <1>9, <1>10, <1>11, <1>12, <1>13 DEF TabNext

(* A placement closes only panes the board made, and never the pane of a   *)
(* run that is open, though it goes by ids read before the lock was taken  *)
(* and the user and the daemon's process may act between any two calls.    *)
(* The one exception is abandon_rescue in a workspace that its rescue      *)
(* made: it closes that workspace, with all that was opened there since.   *)
THEOREM ClosesSpentOnly ==
  ASSUME Dispatch \notin Focusers
  PROVE  TabSpec => ClosesOnlySpent
<1>1. UseInv /\ [TabNext]_tabVars =>
        [\A q \in DOMAIN panes \ DOMAIN panes' :
           job' # job =>
             \/ /\ panes[q].maker = "board"
                /\ \A i \in DOMAIN rows : rows[i].pane = q => rows[i].ended
             \/ \E p \in Focusers :
                   /\ AbandonRescue(p) /\ ClosesSpace(p)
                   /\ panes[q].space = job[p].space]_tabVars
  <2> SUFFICES ASSUME UseInv, [TabNext]_tabVars, NEW q \in DOMAIN panes \ DOMAIN panes', job' # job
               PROVE  \/ /\ panes[q].maker = "board"
                         /\ \A i \in DOMAIN rows : rows[i].pane = q => rows[i].ended
                      \/ \E p \in Focusers :
                            /\ AbandonRescue(p) /\ ClosesSpace(p)
                            /\ panes[q].space = job[p].space
    OBVIOUS
  <2>1. TabNext
    BY DEF tabVars
  <2>2. CASE q \in Closable
    BY <2>2, ClosableIsSpent
  <2>3. CASE InAbandoned(q)
    BY <2>3 DEF InAbandoned
  <2> QED
    BY <2>1, <2>2, <2>3, OnlyClosableGo
<1>2. TabInit => UseInv
  BY UseStarts
<1>3. UseInv /\ [TabNext]_tabVars => UseInv'
  BY UseKept
<1> QED
  BY <1>1, <1>2, <1>3, PTL DEF TabSpec, ClosesOnlySpent

-----------------------------------------------------------------------------
(* BoardPanes: BOARD_PANES admits one request at a time (OneServed).        *)
(* Between its check and its record the request relies on what it has       *)
(* found: its context has no row, and the pane it has opened is in no row   *)
(* (RequestShaped).  A pane that is closed stays closed, because Herdr does *)
(* not give an id out twice (GivenOut).                                     *)

(* The ids that a session has given out.                                   *)
GivenOut(place) == place.session \in Sessions /\ place.id \in 1 .. born[place.session]

LiveShaped ==
  /\ born \in [Sessions -> Nat]
  /\ \A p \in live : GivenOut(p)
  /\ \A p, q \in live : Where(p) = Where(q) => p = q

NoRow(session, key) == \A k \in DOMAIN table : ~(table[k].session = session /\ table[k].key = key)

(* A pane has one row, and so does a context of a session.                 *)
RecordsShaped ==
  /\ \E S : table \in Seq(S)
  /\ \A k \in DOMAIN table : table[k] # Nil /\ GivenOut(table[k])
  /\ \A k, l \in DOMAIN table : Where(table[k]) = Where(table[l]) => k = l
  /\ \A k, l \in DOMAIN table :
       table[k].session = table[l].session /\ table[k].key = table[l].key => k = l

Serving == {"open", "absent", "opened", "close", "closed"}

(* The requests that hold BOARD_PANES.                                     *)
OneServed ==
  /\ DOMAIN request = Agents
  /\ \A a \in Agents : request[a].op \in Serving => serial = a

RequestShaped(r) ==
  /\ r.op \in {"open", "absent", "close"} => "op" \in DOMAIN r /\ r.session \in Sessions
  /\ r.op = "absent" => NoRow(r.session, r.key)
  /\ r.op = "opened" => /\ GivenOut(r.pane) /\ r.pane = Where(r.pane)
                        /\ NoRow(r.pane.session, r.key)
                        /\ \A k \in DOMAIN table : Where(table[k]) # r.pane
                        /\ \A p \in live : Where(p) = r.pane => p.shows = r.key
  /\ r.op = "closed" => /\ GivenOut(r.pane) /\ r.pane = Where(r.pane)
                        /\ \A p \in live : Where(p) # r.pane

RequestsShaped == \A a \in Agents : RequestShaped(request[a])

(* A board there is can be found again, or its record was lost.            *)
Found(p) ==
  \/ p.shows = Nil \/ Where(p) \in lost
  \/ \E a \in Agents : request[a].op = "opened" /\ request[a].pane = Where(p)
  \/ \E k \in DOMAIN table : table[k].key = p.shows /\ Where(table[k]) = Where(p)

BesideInv == LiveShaped /\ RecordsShaped /\ OneServed /\ RequestsShaped /\ \A p \in live : Found(p)

LEMMA PlaceParts ==
  ASSUME NEW p, NEW q
  PROVE  Where(p) = Where(q) <=> p.session = q.session /\ p.id = q.id
BY DEF Where

LEMMA RowOfContext ==
  ASSUME RecordsShaped, NEW session, NEW key
  PROVE  /\ NoRow(session, key) => board_pane_for_context(session, key) = Nil
         /\ ~NoRow(session, key) =>
              /\ board_pane_for_context(session, key) # Nil
              /\ \E k \in DOMAIN table : board_pane_for_context(session, key) = table[k]
                                        /\ table[k].session = session /\ table[k].key = key
         /\ \A k \in DOMAIN table : table[k].session = session /\ table[k].key = key =>
              board_pane_for_context(session, key) = table[k]
<1> DEFINE mine == {k \in DOMAIN table : table[k].session = session /\ table[k].key = key}
<1>1. DOMAIN table = 1 .. Len(table) /\ Len(table) \in Nat
  BY DEF RecordsShaped
<1>2. mine \in SUBSET Nat /\ Len(table) \in Nat /\ \A k \in mine : k <= Len(table)
  BY <1>1
<1>3. mine # {} => Max(mine) \in mine
  <2> HIDE DEF mine
  <2> QED
    BY <1>2, MaxOf
<1>4. board_pane_for_context(session, key) = IF mine = {} THEN Nil ELSE table[Max(mine)]
  BY DEF board_pane_for_context
<1>5. NoRow(session, key) <=> mine = {}
  BY DEF NoRow
<1>6. \A k \in mine : k = Max(mine)
  BY <1>3 DEF RecordsShaped
<1>7. \A k \in mine : table[k] # Nil /\ k \in DOMAIN table /\ table[k].session = session /\ table[k].key = key
  BY DEF RecordsShaped
<1>8. \A k \in DOMAIN table : table[k].session = session /\ table[k].key = key => k \in mine
  OBVIOUS
<1> HIDE DEF mine
<1> QED
  BY <1>3, <1>4, <1>5, <1>6, <1>7, <1>8

(* The rows that are left when the row of a pane is removed.               *)
LEMMA RowRemoved ==
  ASSUME RecordsShaped, NEW place, table' = RowsWithout(place)
  PROVE  /\ \E S : table' \in Seq(S)
         /\ \A k \in DOMAIN table : Where(table[k]) # place => \E l \in DOMAIN table' : table'[l] = table[k]
         /\ \A l \in DOMAIN table' : \E k \in DOMAIN table : table'[l] = table[k] /\ Where(table[k]) # place
         /\ \A l, m \in DOMAIN table' : l # m => \E i, j \in DOMAIN table :
              i # j /\ table'[l] = table[i] /\ table'[m] = table[j]
<1> DEFINE gone == {k \in DOMAIN table : Where(table[k]) = place}
           n == Len(table)
<1>1. PICK T : table \in Seq(T)
  BY DEF RecordsShaped
<1>2. DOMAIN table = 1 .. n /\ n \in Nat /\ \A k \in 1 .. n : table[k] \in T
  BY <1>1
<1>3. table' = IF gone = {} THEN table ELSE RemoveAt(table, Max(gone))
  BY DEF RowsWithout
<1>4. CASE gone = {}
  <2>1. table' = table
    BY <1>3, <1>4
  <2> QED
    BY <1>1, <1>4, <2>1
<1>5. CASE gone # {}
  <2> DEFINE x == Max(gone)
  <2>1. gone \in SUBSET Nat /\ n \in Nat /\ \A k \in gone : k <= n
    BY <1>2
  <2>2. x \in gone
    <3> HIDE DEF gone, n
    <3> QED
      BY <1>5, <2>1, MaxOf
  <2>3. gone = {x} /\ x \in 1 .. n
    BY <1>2, <2>2 DEF RecordsShaped
  <2>4. table' = SubSeq(table, 1, x - 1) \o SubSeq(table, x + 1, n)
    BY <1>3, <1>5 DEF RemoveAt
  <2>5. x \in 1 .. n /\ \A k \in 1 .. n : Where(table[k]) = place <=> k = x
    BY <1>2, <2>3
  <2> HIDE DEF gone, x, n
  <2>6. /\ SubSeq(table, 1, x - 1) \in Seq(T) /\ Len(SubSeq(table, 1, x - 1)) = x - 1
        /\ \A k \in 1 .. x - 1 : SubSeq(table, 1, x - 1)[k] = table[k]
    BY <1>2, <2>5, SubSeqProperties
  <2>7. /\ SubSeq(table, x + 1, n) \in Seq(T) /\ Len(SubSeq(table, x + 1, n)) = n - x
        /\ \A k \in 1 .. n - x : SubSeq(table, x + 1, n)[k] = table[x + k]
    BY <1>2, <2>5, SubSeqProperties
  <2>8. /\ table' \in Seq(T) /\ Len(table') = n - 1
        /\ \A k \in 1 .. n - 1 : table'[k] = IF k < x THEN table[k] ELSE table[k + 1]
    <3>1. /\ table' \in Seq(T) /\ Len(table') = (x - 1) + (n - x)
          /\ \A k \in 1 .. (x - 1) + (n - x) :
               table'[k] = IF k <= x - 1 THEN SubSeq(table, 1, x - 1)[k]
                          ELSE SubSeq(table, x + 1, n)[k - (x - 1)]
      <4> DEFINE u == SubSeq(table, 1, x - 1)
                 v == SubSeq(table, x + 1, n)
      <4>1. u \in Seq(T) /\ v \in Seq(T) /\ Len(u) = x - 1 /\ Len(v) = n - x /\ table' = u \o v
        BY <2>4, <2>6, <2>7
      <4> HIDE DEF u, v
      <4>2. /\ u \o v \in Seq(T) /\ Len(u \o v) = Len(u) + Len(v)
            /\ \A k \in 1 .. Len(u) + Len(v) : (u \o v)[k] = IF k <= Len(u) THEN u[k] ELSE v[k - Len(u)]
        BY <4>1, ConcatProperties
      <4>3. /\ table' \in Seq(T) /\ Len(table') = (x - 1) + (n - x)
            /\ \A k \in 1 .. (x - 1) + (n - x) : table'[k] = IF k <= x - 1 THEN u[k] ELSE v[k - (x - 1)]
        BY <4>1, <4>2
      <4> QED
        BY <4>3 DEF u, v
    <3>2. (x - 1) + (n - x) = n - 1
      BY <1>2, <2>5
    <3>3. ASSUME NEW k \in 1 .. n - 1 PROVE table'[k] = IF k < x THEN table[k] ELSE table[k + 1]
      <4>1. CASE k < x
        <5>1. k \in 1 .. x - 1
          BY <1>2, <2>5, <4>1
        <5> QED
          BY <2>6, <3>1, <3>2, <4>1, <5>1
      <4>2. CASE ~(k < x)
        <5>1. k - (x - 1) \in 1 .. n - x /\ x + (k - (x - 1)) = k + 1 /\ ~(k <= x - 1)
          BY <1>2, <2>5, <4>2
        <5>2. table'[k] = SubSeq(table, x + 1, n)[k - (x - 1)]
          BY <3>1, <3>2, <5>1
        <5> QED
          BY <2>7, <4>2, <5>1, <5>2
      <4> QED
        BY <4>1, <4>2
    <3> QED
      BY <3>1, <3>2, <3>3
  <2>9. DOMAIN table' = 1 .. n - 1
    BY <2>8
  <2>10. ASSUME NEW k \in DOMAIN table, Where(table[k]) # place
         PROVE  \E l \in DOMAIN table' : table'[l] = table[k]
    <3>1. k \in 1 .. n /\ k # x
      BY <1>2, <2>5, <2>10
    <3>2. CASE k < x
      <4>1. k \in 1 .. n - 1 /\ table'[k] = table[k]
        BY <1>2, <2>5, <2>8, <3>1, <3>2
      <4> QED
        BY <2>9, <4>1
    <3>3. CASE k > x
      <4>1. k - 1 \in 1 .. n - 1 /\ ~(k - 1 < x) /\ (k - 1) + 1 = k
        BY <1>2, <2>5, <3>1, <3>3
      <4>2. table'[k - 1] = table[k]
        BY <2>8, <4>1
      <4> QED
        BY <2>9, <4>1, <4>2
    <3> QED
      BY <1>2, <2>5, <3>1, <3>2, <3>3
  <2> DEFINE Old(l) == IF l < x THEN l ELSE l + 1
  <2>11. ASSUME NEW l \in DOMAIN table'
         PROVE  Old(l) \in DOMAIN table /\ table'[l] = table[Old(l)] /\ Where(table[Old(l)]) # place
    <3>1. l \in 1 .. n - 1 /\ Old(l) \in 1 .. n /\ Old(l) # x
      BY <1>2, <2>5, <2>9
    <3>2. table'[l] = table[Old(l)]
      BY <2>8, <3>1
    <3> QED
      BY <1>2, <2>5, <3>1, <3>2
  <2>12. \A l, m \in DOMAIN table' : l # m => Old(l) # Old(m)
    BY <1>2, <2>5, <2>9
  <2> HIDE DEF Old
  <2> QED
    BY <2>8, <2>10, <2>11, <2>12
<1> QED
  BY <1>4, <1>5

LEMMA RemovalKeepsRecords ==
  ASSUME RecordsShaped, NEW place, table' = RowsWithout(place), born' = born
  PROVE  RecordsShaped' /\ \A session, key : NoRow(session, key) => NoRow(session, key)'
<1>1. \A l \in DOMAIN table' : \E k \in DOMAIN table : table'[l] = table[k]
  BY RowRemoved
<1>2. \A l, m \in DOMAIN table' : l # m => \E i, j \in DOMAIN table :
        i # j /\ table'[l] = table[i] /\ table'[m] = table[j]
  BY RowRemoved
<1>3. \E S : table' \in Seq(S)
  BY RowRemoved
<1>4. \A k \in DOMAIN table' : table'[k] # Nil /\ table'[k].session \in Sessions
                            /\ table'[k].id \in 1 .. born'[table'[k].session]
  BY <1>1 DEF RecordsShaped, GivenOut
<1>5. ASSUME NEW l \in DOMAIN table', NEW m \in DOMAIN table', l # m
      PROVE  Where(table'[l]) # Where(table'[m])
             /\ ~(table'[l].session = table'[m].session /\ table'[l].key = table'[m].key)
  <2>1. PICK i \in DOMAIN table, j \in DOMAIN table : i # j /\ table'[l] = table[i] /\ table'[m] = table[j]
    BY <1>2, <1>5
  <2> QED
    BY <2>1 DEF RecordsShaped
<1>6. RecordsShaped'
  <2>1. \A k \in DOMAIN table' : (table[k] # Nil /\ GivenOut(table[k]))'
    BY <1>4 DEF GivenOut
  <2>2. (\A k, l \in DOMAIN table : Where(table[k]) = Where(table[l]) => k = l)'
    BY <1>5 DEF Where
  <2>3. (\A k, l \in DOMAIN table :
           table[k].session = table[l].session /\ table[k].key = table[l].key => k = l)'
    BY <1>5
  <2> QED
    BY <1>3, <2>1, <2>2, <2>3 DEF RecordsShaped
<1>7. \A session, key : NoRow(session, key) => NoRow(session, key)'
  BY <1>1 DEF NoRow
<1> QED
  BY <1>6, <1>7

(* While a request holds BOARD_PANES the others are at rest.               *)
LEMMA OthersAtRest ==
  ASSUME OneServed, NEW a \in Agents, Nil \notin Agents, serial = a \/ serial = Nil
  PROVE  \A b \in Agents \ {a} : request[b].op \notin Serving
BY DEF OneServed

LEMMA RestIsShaped ==
  ASSUME NEW r, r.op \notin Serving
  PROVE  RequestShaped(r) /\ RequestShaped(r)'
BY DEF RequestShaped, Serving

LEMMA ServedStep ==
  ASSUME OneServed, NEW a \in Agents, NEW r, Becomes(a, r),
         \A b \in Agents \ {a} : request[b].op \notin Serving,
         serial' = a \/ r.op \notin Serving, RequestShaped(r)'
  PROVE  OneServed' /\ RequestsShaped'
<1>1. /\ DOMAIN request' = Agents /\ request'[a] = r
      /\ \A b \in Agents \ {a} : request'[b] = request[b]
  BY DEF Becomes, OneServed
<1>2. OneServed'
  BY <1>1 DEF OneServed
<1>3. ASSUME NEW b \in Agents PROVE RequestShaped(request[b])'
  <2>1. CASE b = a
    BY <1>1, <2>1 DEF RequestShaped, NoRow, GivenOut, Where
  <2>2. CASE b # a
    <3>1. request'[b].op \notin Serving
      BY <1>1, <2>2
    <3> QED
      BY <3>1 DEF RequestShaped, Serving
  <2> QED
    BY <2>1, <2>2
<1> QED
  BY <1>2, <1>3 DEF RequestsShaped

LEMMA BeginKeepsBeside ==
  ASSUME BesideInv, Nil \notin Agents, NEW a \in Agents, NEW op \in {"open", "close"},
         NEW c, NEW p \in Hosts, Begin(a, op, c, p)
  PROVE  BesideInv'
<1>1. PICK r : Becomes(a, r) /\ "op" \in DOMAIN r /\ r.op = op /\ r.session = p.session
  BY DEF Begin
<1>2. /\ UNCHANGED <<live, born, table, lost>> /\ serial = Nil /\ serial' = a /\ request[a] = Unasked
  BY DEF Begin, MayBegin
<1>3. RequestShaped(r)'
  <2>1. r.session \in Sessions
    BY <1>1 DEF BesideInv, LiveShaped, GivenOut, Hosts
  <2> QED
    BY <1>1, <2>1 DEF RequestShaped
<1>4. OneServed' /\ RequestsShaped'
  BY <1>1, <1>2, <1>3, OthersAtRest, ServedStep DEF BesideInv
<1>5. \A b \in Agents : request[b].op = "opened" => request'[b] = request[b]
  BY <1>1, <1>2 DEF Becomes, BesideInv, OneServed, Unasked
<1>6. (\A q \in live : Found(q))'
  BY <1>2, <1>5 DEF BesideInv, Found
<1>7. LiveShaped' /\ RecordsShaped'
  BY <1>2 DEF BesideInv, LiveShaped, RecordsShaped, GivenOut
<1> QED
  BY <1>4, <1>6, <1>7 DEF BesideInv

(* A request ends, and has changed nothing.                                *)
LEMMA EndKeepsBeside ==
  ASSUME BesideInv, Nil \notin Agents, NEW a \in Agents, Becomes(a, Unasked),
         UNCHANGED <<live, born, table, lost>>, request[a].op \in Serving, request[a].op # "opened"
  PROVE  BesideInv'
<1>1. serial = a
  BY DEF BesideInv, OneServed
<1> DEFINE r == Unasked
<1>2. RequestShaped(r)' /\ r.op \notin Serving /\ Becomes(a, r)
  BY DEF RequestShaped, Serving, Unasked
<1>3. OneServed' /\ RequestsShaped'
  <2> HIDE DEF r
  <2> QED
    BY <1>1, <1>2, OthersAtRest, ServedStep DEF BesideInv
<1>4. \A b \in Agents : request[b].op = "opened" => request'[b] = request[b]
  BY DEF Becomes, BesideInv, OneServed
<1>5. (\A q \in live : Found(q))'
  BY <1>4 DEF BesideInv, Found
<1>6. LiveShaped' /\ RecordsShaped'
  BY DEF BesideInv, LiveShaped, RecordsShaped, GivenOut
<1> QED
  BY <1>3, <1>5, <1>6 DEF BesideInv

LEMMA CheckKeepsBeside ==
  ASSUME BesideInv, Nil \notin Agents, NEW a \in Agents, CheckRecorded(a)
  PROVE  BesideInv'
<1>0. PICK s, key, row : s = request[a].session /\ key = request[a].key
                          /\ row = board_pane_for_context(s, key)
  OBVIOUS
<1>1. request[a].op = "open" /\ UNCHANGED <<live, born, lost>> /\ serial = a
      /\ \A b \in Agents \ {a} : request[b].op \notin Serving
  <2>1. request[a].op = "open" /\ UNCHANGED <<live, born, lost>>
    BY DEF CheckRecorded
  <2>2. serial = a
    BY <2>1 DEF BesideInv, OneServed, Serving
  <2> QED
    BY <2>1, <2>2, OthersAtRest DEF BesideInv
<1>2. CASE row # Nil /\ Alive(Where(row))
  <2>1. Becomes(a, Unasked) /\ UNCHANGED table
    BY <1>0, <1>2 DEF CheckRecorded, Finish
  <2> QED
    BY <1>1, <2>1, EndKeepsBeside DEF Serving
<1>3. CASE ~(row # Nil /\ Alive(Where(row)))
  <2>1. PICK r : /\ Becomes(a, r) /\ r = [request[a] EXCEPT !.op = "absent"]
    BY <1>0, <1>3 DEF CheckRecorded
  <2>2. /\ serial' = serial
        /\ IF row # Nil THEN table' = RowsWithout(Where(row)) ELSE table' = table
    BY <1>0, <1>3 DEF CheckRecorded, remove_board_pane
  <2>3. "op" \in DOMAIN r /\ r.op = "absent" /\ r.session = s /\ r.key = key /\ s \in Sessions
    <3>1. "op" \in DOMAIN request[a] /\ s \in Sessions
      BY <1>0, <1>1 DEF BesideInv, RequestsShaped, RequestShaped
    <3> QED
      BY <1>0, <2>1, <3>1
  <2>4. RecordsShaped' /\ NoRow(s, key)'
    <3>1. CASE row = Nil
      <4>1. NoRow(s, key) /\ table' = table
        BY <1>0, <2>2, <3>1, RowOfContext DEF BesideInv
      <4> QED
        BY <1>1, <4>1 DEF NoRow, BesideInv, RecordsShaped, GivenOut
    <3>2. CASE row # Nil
      <4>1. table' = RowsWithout(Where(row)) /\ born' = born /\ RecordsShaped
        BY <1>1, <2>2, <3>2 DEF BesideInv
      <4>2. ~NoRow(s, key)
        BY <1>0, <3>2, <4>1, RowOfContext
      <4>3. PICK k \in DOMAIN table : row = table[k] /\ table[k].session = s /\ table[k].key = key
        BY <1>0, <4>1, <4>2, RowOfContext
      <4>4. \A l \in DOMAIN table' : \E j \in DOMAIN table : table'[l] = table[j] /\ Where(table[j]) # Where(row)
        BY <4>1, RowRemoved
      <4>5. ASSUME NEW l \in DOMAIN table', table'[l].session = s, table'[l].key = key PROVE FALSE
        <5>1. PICK j \in DOMAIN table : table'[l] = table[j] /\ Where(table[j]) # Where(row)
          BY <4>4
        <5>2. j = k
          BY <4>1, <4>3, <4>5, <5>1 DEF RecordsShaped
        <5> QED
          BY <4>3, <5>1, <5>2
      <4>6. RecordsShaped'
        BY <4>1, RemovalKeepsRecords
      <4>7. \A l \in DOMAIN table' : ~(table'[l].session = s /\ table'[l].key = key)
        BY <4>5
      <4> QED
        BY <4>6, <4>7 DEF NoRow
    <3> QED
      BY <3>1, <3>2
  <2>5. ASSUME NEW q \in live, NEW k \in DOMAIN table, Where(table[k]) = Where(q)
        PROVE  \E l \in DOMAIN table' : table'[l] = table[k]
    <3>1. CASE row = Nil
      BY <2>2, <3>1
    <3>2. CASE row # Nil
      <4>1. Where(table[k]) # Where(row)
        BY <1>3, <2>5, <3>2 DEF Alive
      <4>2. table' = RowsWithout(Where(row)) /\ RecordsShaped
        BY <2>2, <3>2 DEF BesideInv
      <4> QED
        BY <4>1, <4>2, RowRemoved
    <3> QED
      BY <3>1, <3>2
  <2>6. ASSUME NEW q \in live PROVE Found(q)'
    <3>1. q.shows = Nil \/ Where(q) \in lost \/ \E k \in DOMAIN table : table[k].key = q.shows /\ Where(table[k]) = Where(q)
      BY <1>1 DEF BesideInv, Found, Serving
    <3>2. (\E k \in DOMAIN table : table[k].key = q.shows /\ Where(table[k]) = Where(q))
          => \E l \in DOMAIN table' : table'[l].key = q.shows /\ Where(table'[l]) = Where(q)
      BY <2>5
    <3> QED
      BY <1>1, <3>1, <3>2 DEF Found, Where
  <2>7. RequestShaped(r)'
    <3>1. NoRow(r.session, r.key)'
      BY <2>1, <2>3, <2>4 DEF NoRow
    <3> QED
      BY <2>3, <3>1 DEF RequestShaped
  <2>8. OneServed' /\ RequestsShaped'
    BY <1>1, <2>1, <2>2, <2>7, ServedStep DEF BesideInv
  <2>9. LiveShaped' /\ live' = live
    BY <1>1 DEF BesideInv, LiveShaped, GivenOut
  <2> QED
    BY <2>4, <2>6, <2>8, <2>9 DEF BesideInv
<1> QED
  BY <1>2, <1>3

(* A pane that Herdr opens has an id that nothing recorded.                *)
LEMMA PaneOpened ==
  ASSUME LiveShaped, NEW s \in Sessions, NEW shows, Birth(s, shows)
  PROVE  \E new :
           /\ new.session = s /\ new.id = born[s] + 1 /\ new.shows = shows
           /\ live' = live \cup {new} /\ LiveShaped'
           /\ \A place : GivenOut(place) => GivenOut(place)' /\ ~(place.session = s /\ place.id = new.id)
           /\ new.id \in 1 .. born'[s]
<1>1. PICK new : /\ new.session = s /\ new.id = born[s] + 1 /\ new.shows = shows
                 /\ live' = live \cup {new} /\ born' = [born EXCEPT ![s] = @ + 1]
  BY DEF Birth
<1>2. born' \in [Sessions -> Nat] /\ \A t \in Sessions : born[t] \in Nat /\ born[t] <= born'[t]
  BY <1>1 DEF LiveShaped
<1>3. new.id \in 1 .. born'[s]
  BY <1>1, <1>2 DEF LiveShaped
<1>4. ASSUME NEW place, GivenOut(place)
      PROVE  GivenOut(place)' /\ ~(place.session = s /\ place.id = new.id)
  <2>1. place.session \in Sessions /\ place.id \in 1 .. born[place.session]
    BY <1>4 DEF GivenOut
  <2>2. place.id \in 1 .. born'[place.session]
    BY <1>2, <2>1
  <2>3. ~(place.session = s /\ place.id = new.id)
    BY <1>1, <1>2, <2>1
  <2> QED
    BY <2>1, <2>2, <2>3 DEF GivenOut
<1>5. LiveShaped'
  <2>1. \A p \in live' : GivenOut(p)'
    BY <1>1, <1>3, <1>4 DEF LiveShaped, GivenOut
  <2>2. \A p \in live : Where(p) # Where(new)
    BY <1>1, <1>4 DEF Where, LiveShaped
  <2>3. \A p, q \in live' : Where(p) = Where(q) => p = q
    BY <1>1, <2>2 DEF LiveShaped
  <2> QED
    BY <1>2, <2>1, <2>3 DEF LiveShaped, Where
<1> QED
  BY <1>1, <1>3, <1>4, <1>5

LEMMA RecordsOutlive ==
  ASSUME RecordsShaped, table' = table, \A place : GivenOut(place) => GivenOut(place)'
  PROVE  RecordsShaped'
<1>1. \A k \in DOMAIN table : GivenOut(table[k])'
  BY DEF RecordsShaped, GivenOut
<1> QED
  BY <1>1 DEF RecordsShaped

LEMMA OpenKeepsBeside ==
  ASSUME BesideInv, Nil \notin Agents, NEW a \in Agents, OpenBoard(a)
  PROVE  BesideInv'
<1>1. PICK s, key : s = request[a].session /\ key = request[a].key
  OBVIOUS
<1>2. /\ request[a].op = "absent" /\ Birth(s, key) /\ UNCHANGED <<table, serial, lost>>
      /\ Becomes(a, [op |-> "opened", key |-> key, pane |-> [session |-> s, id |-> born[s] + 1]])
  BY <1>1 DEF OpenBoard
<1>3. serial = a /\ s \in Sessions /\ NoRow(s, key)
  BY <1>1, <1>2 DEF BesideInv, OneServed, RequestsShaped, RequestShaped, Serving
<1>4. PICK new : /\ new.session = s /\ new.id = born[s] + 1 /\ new.shows = key
                 /\ live' = live \cup {new} /\ LiveShaped'
                 /\ \A place : GivenOut(place) => GivenOut(place)' /\ ~(place.session = s /\ place.id = new.id)
                 /\ new.id \in 1 .. born'[s]
  BY <1>2, <1>3, PaneOpened DEF BesideInv
<1>5. PICK place : place = [session |-> s, id |-> new.id]
  OBVIOUS
<1>6. place.session = s /\ place.id = new.id /\ place = Where(place) /\ place = Where(new)
  BY <1>4, <1>5 DEF Where
<1>7. PICK r : Becomes(a, r) /\ r.op = "opened" /\ r.key = key /\ r.pane = place
  BY <1>2, <1>4, <1>5
<1>8. RecordsShaped'
  BY <1>2, <1>4, RecordsOutlive DEF BesideInv
<1>9. RequestShaped(r)'
  <2>1. GivenOut(place)'
    BY <1>3, <1>4, <1>6 DEF GivenOut
  <2>2. NoRow(s, key)'
    BY <1>2, <1>3 DEF NoRow
  <2>3. \A k \in DOMAIN table : Where(table[k]) # place
    <3>1. \A k \in DOMAIN table : GivenOut(table[k])
      BY DEF BesideInv, RecordsShaped
    <3> QED
      BY <1>4, <1>6, <3>1, PlaceParts
  <2>4. \A p \in live' : Where(p) = place => p.shows = key
    <3>1. \A p \in live : GivenOut(p)
      BY DEF BesideInv, LiveShaped
    <3> QED
      BY <1>4, <1>6, <3>1, PlaceParts
  <2>5. NoRow(r.pane.session, r.key)' /\ GivenOut(r.pane)' /\ r.pane = Where(r.pane)
    BY <1>6, <1>7, <2>1, <2>2
  <2>6. (\A k \in DOMAIN table : Where(table[k]) # r.pane)'
    BY <1>2, <1>7, <2>3 DEF Where
  <2>7. (\A p \in live : Where(p) = r.pane => p.shows = r.key)'
    BY <1>7, <2>4 DEF Where
  <2> QED
    BY <1>7, <2>5, <2>6, <2>7 DEF RequestShaped, Where
<1>10. \A b \in Agents \ {a} : request[b].op \notin Serving
  BY <1>3, OthersAtRest DEF BesideInv
<1>11. OneServed' /\ RequestsShaped'
  BY <1>2, <1>3, <1>7, <1>9, <1>10, ServedStep DEF BesideInv
<1>12. ASSUME NEW q \in live' PROVE Found(q)'
  <2>1. CASE q = new
    <3>1. request'[a].op = "opened" /\ request'[a].pane = Where(q)
      BY <1>6, <1>7, <2>1 DEF Becomes, BesideInv, OneServed
    <3> QED
      BY <3>1 DEF Found, Where
  <2>2. CASE q # new
    <3>1. q.shows = Nil \/ Where(q) \in lost \/ \E k \in DOMAIN table : table[k].key = q.shows /\ Where(table[k]) = Where(q)
      BY <1>2, <1>4, <1>10, <2>2 DEF BesideInv, Found, Serving
    <3> QED
      BY <1>2, <3>1 DEF Found, Where
  <2> QED
    BY <2>1, <2>2
<1> QED
  BY <1>4, <1>8, <1>11, <1>12 DEF BesideInv

LEMMA RecordKeepsBeside ==
  ASSUME BesideInv, Nil \notin Agents, \A t, i, c : [session |-> t, id |-> i, key |-> c] # Nil,
         NEW a \in Agents, RecordBoard(a)
  PROVE  BesideInv'
<1>1. PICK place, key : place = request[a].pane /\ key = request[a].key
  OBVIOUS
<1>2. /\ request[a].op = "opened" /\ Becomes(a, Unasked) /\ UNCHANGED <<live, born>>
      /\ \/ record_board_pane([session |-> place.session, id |-> place.id, key |-> key]) /\ UNCHANGED lost
         \/ lost' = lost \cup {place} /\ UNCHANGED table
  BY <1>1 DEF RecordBoard, Finish
<1>3. serial = a /\ \A b \in Agents \ {a} : request[b].op \notin Serving
  <2>1. serial = a
    BY <1>2 DEF BesideInv, OneServed, Serving
  <2> QED
    BY <2>1, OthersAtRest DEF BesideInv
<1>4. /\ GivenOut(place) /\ place = Where(place) /\ NoRow(place.session, key)
      /\ \A k \in DOMAIN table : Where(table[k]) # place
      /\ \A p \in live : Where(p) = place => p.shows = key
  BY <1>1, <1>2 DEF BesideInv, RequestsShaped, RequestShaped
<1> DEFINE r == Unasked
<1>5. RequestShaped(r)' /\ r.op \notin Serving /\ Becomes(a, r)
  BY <1>2 DEF RequestShaped, Serving, Unasked
<1>6. OneServed' /\ RequestsShaped'
  <2> HIDE DEF r
  <2> QED
    BY <1>3, <1>5, ServedStep DEF BesideInv
<1>7. LiveShaped'
  BY <1>2 DEF BesideInv, LiveShaped, GivenOut
<1>8. ASSUME NEW q \in live
      PROVE  \/ q.shows = Nil \/ Where(q) \in lost \/ Where(q) = place
             \/ \E k \in DOMAIN table : table[k].key = q.shows /\ Where(table[k]) = Where(q)
  BY <1>1, <1>3 DEF BesideInv, Found, Serving
<1>9. CASE lost' = lost \cup {place} /\ UNCHANGED table
  <2>1. RecordsShaped'
    BY <1>2, <1>9 DEF BesideInv, RecordsShaped, GivenOut
  <2>2. (\A q \in live : Found(q))'
    BY <1>2, <1>8, <1>9 DEF Found, Where
  <2> QED
    BY <1>6, <1>7, <2>1, <2>2 DEF BesideInv
<1>10. CASE record_board_pane([session |-> place.session, id |-> place.id, key |-> key]) /\ UNCHANGED lost
  <2>1. PICK row : /\ row = [session |-> place.session, id |-> place.id, key |-> key]
                   /\ table' = Append(RowsWithout(Where(row)), row)
    BY <1>10 DEF record_board_pane
  <2>2. /\ row # Nil /\ row.session = place.session /\ row.id = place.id /\ row.key = key
        /\ Where(row) = place
    BY <1>4, <2>1 DEF Where
  <2>3. RowsWithout(Where(row)) = table
    BY <1>4, <2>2 DEF RowsWithout
  <2>4. PICK T : table \in Seq(T)
    BY DEF BesideInv, RecordsShaped
  <2>5. table \in Seq(T \cup {row})
    <3>1. \A i \in DOMAIN table : table[i] \in T \cup {row}
      BY <2>4
    <3> QED
      BY <2>4, <3>1
  <2>6. /\ table' \in Seq(T \cup {row}) /\ Len(table') = Len(table) + 1 /\ Len(table) \in Nat
        /\ \A i \in 1 .. Len(table) : table'[i] = table[i]
        /\ table'[Len(table) + 1] = row
    BY <2>1, <2>3, <2>5, AppendProperties
  <2>7. PICK n \in Nat : /\ DOMAIN table = 1 .. n /\ DOMAIN table' = 1 .. n + 1
                         /\ \A i \in 1 .. n : table'[i] = table[i]
                         /\ table'[n + 1] = row
    BY <2>5, <2>6
  <2>8. \A i \in DOMAIN table' : i \in DOMAIN table \/ i = n + 1
    BY <2>7
  <2>9. RecordsShaped'
    <3>1. \A k \in DOMAIN table : table[k] # Nil /\ GivenOut(table[k])
      BY DEF BesideInv, RecordsShaped
    <3>2. ASSUME NEW k \in DOMAIN table'
          PROVE  table'[k] # Nil /\ table'[k].session \in Sessions /\ table'[k].id \in 1 .. born[table'[k].session]
      BY <1>4, <2>2, <2>7, <2>8, <3>1 DEF GivenOut
    <3>3. ASSUME NEW k \in DOMAIN table', NEW l \in DOMAIN table', k # l
          PROVE  Where(table'[k]) # Where(table'[l])
      <4>1. CASE k \in DOMAIN table /\ l \in DOMAIN table
        BY <2>7, <3>3, <4>1 DEF BesideInv, RecordsShaped
      <4>2. CASE ~(k \in DOMAIN table /\ l \in DOMAIN table)
        BY <1>4, <2>2, <2>7, <2>8, <3>3, <4>2
      <4> QED
        BY <4>1, <4>2
    <3>4. ASSUME NEW k \in DOMAIN table', NEW l \in DOMAIN table', k # l
          PROVE  ~(table'[k].session = table'[l].session /\ table'[k].key = table'[l].key)
      <4>1. CASE k \in DOMAIN table /\ l \in DOMAIN table
        BY <2>7, <3>4, <4>1 DEF BesideInv, RecordsShaped
      <4>2. CASE ~(k \in DOMAIN table /\ l \in DOMAIN table)
        BY <1>4, <2>2, <2>7, <2>8, <3>4, <4>2 DEF NoRow
      <4> QED
        BY <4>1, <4>2
    <3>5. (\A k \in DOMAIN table : table[k] # Nil /\ GivenOut(table[k]))'
      BY <1>2, <3>2 DEF GivenOut
    <3>6. (\A k, l \in DOMAIN table : Where(table[k]) = Where(table[l]) => k = l)'
      BY <3>3 DEF Where
    <3>7. (\A k, l \in DOMAIN table :
             table[k].session = table[l].session /\ table[k].key = table[l].key => k = l)'
      BY <3>4
    <3> QED
      BY <2>6, <3>5, <3>6, <3>7 DEF RecordsShaped
  <2>10. ASSUME NEW q \in live PROVE Found(q)'
    <3>1. CASE Where(q) = place
      <4>1. n + 1 \in DOMAIN table' /\ table'[n + 1].key = q.shows /\ Where(table'[n + 1]) = Where(q)
        BY <1>4, <2>2, <2>7, <3>1
      <4> QED
        BY <4>1 DEF Found, Where
    <3>2. CASE \E k \in DOMAIN table : table[k].key = q.shows /\ Where(table[k]) = Where(q)
      <4>1. PICK k \in DOMAIN table : table[k].key = q.shows /\ Where(table[k]) = Where(q)
        BY <3>2
      <4>2. k \in DOMAIN table' /\ table'[k] = table[k]
        BY <2>7
      <4> QED
        BY <4>1, <4>2 DEF Found, Where
    <3> QED
      BY <1>8, <1>10, <3>1, <3>2 DEF Found, Where
  <2> QED
    BY <1>2, <1>6, <1>7, <2>9, <2>10 DEF BesideInv
<1> QED
  BY <1>2, <1>9, <1>10

LEMMA CloseKeepsBeside ==
  ASSUME BesideInv, Nil \notin Agents, NEW a \in Agents, CloseBoard(a)
  PROVE  BesideInv'
<1>1. PICK row : /\ row = board_pane_for_context(request[a].session, request[a].key) /\ row # Nil
                 /\ live' = {p \in live : Where(p) # Where(row)}
                 /\ Becomes(a, [op |-> "closed", pane |-> Where(row)])
  BY DEF CloseBoard
<1>2. request[a].op = "close" /\ UNCHANGED <<born, table, serial, lost>>
  BY DEF CloseBoard
<1>3. serial = a /\ \A b \in Agents \ {a} : request[b].op \notin Serving
  <2>1. serial = a
    BY <1>2 DEF BesideInv, OneServed, Serving
  <2> QED
    BY <2>1, OthersAtRest DEF BesideInv
<1>4. PICK k \in DOMAIN table : row = table[k]
  BY <1>1, RowOfContext DEF BesideInv
<1>5. GivenOut(Where(row))
  BY <1>4 DEF BesideInv, RecordsShaped, GivenOut, Where
<1>6. PICK r : Becomes(a, r) /\ r.op = "closed" /\ r.pane = Where(row)
  BY <1>1
<1>7. RequestShaped(r)'
  <2>1. GivenOut(r.pane)'
    BY <1>2, <1>5, <1>6 DEF GivenOut
  <2>2. \A p \in live' : Where(p) # r.pane
    BY <1>1, <1>6
  <2>3. r.pane = Where(r.pane)
    BY <1>6 DEF Where
  <2> QED
    BY <1>6, <2>1, <2>2, <2>3 DEF RequestShaped, Where
<1>8. OneServed' /\ RequestsShaped'
  BY <1>2, <1>3, <1>6, <1>7, ServedStep DEF BesideInv
<1>9. (\A q \in live : Found(q))'
  <2>1. ASSUME NEW q \in live'
        PROVE  q.shows = Nil \/ Where(q) \in lost \/ \E j \in DOMAIN table : table[j].key = q.shows /\ Where(table[j]) = Where(q)
    BY <1>1, <1>2, <1>3 DEF BesideInv, Found, Serving
  <2> QED
    BY <1>2, <2>1 DEF Found, Where
<1>10. LiveShaped' /\ RecordsShaped'
  BY <1>1, <1>2 DEF BesideInv, LiveShaped, RecordsShaped, GivenOut, Where
<1> QED
  BY <1>8, <1>9, <1>10 DEF BesideInv

LEMMA DropKeepsBeside ==
  ASSUME BesideInv, Nil \notin Agents, NEW a \in Agents, DropRow(a)
  PROVE  BesideInv'
<1>1. PICK place : place = request[a].pane
  OBVIOUS
<1>2. /\ request[a].op = "closed" /\ Becomes(a, Unasked) /\ UNCHANGED <<live, born, lost>>
      /\ table' = RowsWithout(place) \/ table' = table
  BY <1>1 DEF DropRow, Finish, remove_board_pane
<1>3. CASE table' = table
  BY <1>2, <1>3, EndKeepsBeside DEF Serving
<1>4. CASE table' = RowsWithout(place)
  <2>1. serial = a /\ \A b \in Agents \ {a} : request[b].op \notin Serving
    <3>1. serial = a
      BY <1>2 DEF BesideInv, OneServed, Serving
    <3> QED
      BY <3>1, OthersAtRest DEF BesideInv
  <2>2. \A p \in live : Where(p) # place
    BY <1>1, <1>2 DEF BesideInv, RequestsShaped, RequestShaped
  <2> DEFINE r == Unasked
  <2>3. RequestShaped(r)' /\ r.op \notin Serving /\ Becomes(a, r)
    BY <1>2 DEF RequestShaped, Serving, Unasked
  <2>4. OneServed' /\ RequestsShaped'
    <3> HIDE DEF r
    <3> QED
      BY <2>1, <2>3, ServedStep DEF BesideInv
  <2>5. RecordsShaped'
    BY <1>2, <1>4, RemovalKeepsRecords DEF BesideInv
  <2>6. \A k \in DOMAIN table : Where(table[k]) # place => \E l \in DOMAIN table' : table'[l] = table[k]
    BY <1>4, RowRemoved DEF BesideInv
  <2>7. ASSUME NEW q \in live PROVE Found(q)'
    <3>1. q.shows = Nil \/ Where(q) \in lost \/ \E k \in DOMAIN table : table[k].key = q.shows /\ Where(table[k]) = Where(q)
      BY <1>2, <2>1 DEF BesideInv, Found, Serving
    <3>2. (\E k \in DOMAIN table : table[k].key = q.shows /\ Where(table[k]) = Where(q))
          => \E l \in DOMAIN table' : table'[l].key = q.shows /\ Where(table'[l]) = Where(q)
      BY <2>2, <2>6
    <3> QED
      BY <1>2, <3>1, <3>2 DEF Found, Where
  <2>8. LiveShaped'
    BY <1>2 DEF BesideInv, LiveShaped, GivenOut
  <2> QED
    BY <1>2, <2>4, <2>5, <2>7, <2>8 DEF BesideInv
<1> QED
  BY <1>2, <1>3, <1>4

LEMMA HandsKeepBeside ==
  ASSUME BesideInv,
         (\E s \in Sessions : PersonOpens(s)) \/ (\E p \in live : PersonCloses(p))
  PROVE  BesideInv'
<1>1. UNCHANGED <<table, serial, request, lost>>
  BY DEF PersonOpens, PersonCloses
<1>2. OneServed'
  BY <1>1 DEF BesideInv, OneServed
<1>3. CASE \E s \in Sessions : PersonOpens(s)
  <2>1. PICK s \in Sessions : Birth(s, Nil)
    BY <1>3 DEF PersonOpens
  <2>2. PICK new : /\ new.session = s /\ new.id = born[s] + 1 /\ new.shows = Nil
                   /\ live' = live \cup {new} /\ LiveShaped'
                   /\ \A place : GivenOut(place) => GivenOut(place)' /\ ~(place.session = s /\ place.id = new.id)
                   /\ new.id \in 1 .. born'[s]
    BY <2>1, PaneOpened DEF BesideInv
  <2>3. RecordsShaped'
    BY <1>1, <2>2, RecordsOutlive DEF BesideInv
  <2>4. ASSUME NEW b \in Agents PROVE RequestShaped(request[b])'
    <3>1. PICK r : r = request[b]
      OBVIOUS
    <3>2. RequestShaped(r) /\ request'[b] = r
      BY <1>1, <3>1 DEF BesideInv, RequestsShaped
    <3>3. r.op = "opened" \/ r.op = "closed" => GivenOut(r.pane)' /\ Where(new) # Where(r.pane)
      BY <2>2, <3>2, PlaceParts DEF RequestShaped
    <3>4. r.op = "closed" => Where(new) # r.pane
      <4>1. r.op = "closed" => r.pane = Where(r.pane)
        BY <3>2 DEF RequestShaped
      <4> QED
        BY <3>3, <4>1
    <3> QED
      BY <1>1, <2>2, <3>2, <3>3, <3>4 DEF RequestShaped, NoRow, GivenOut, Where
  <2>5. \A q \in live' : Found(q)'
    BY <1>1, <2>2 DEF BesideInv, Found, Where
  <2> QED
    BY <1>2, <2>2, <2>3, <2>4, <2>5 DEF BesideInv, RequestsShaped
<1>4. CASE \E p \in live : PersonCloses(p)
  <2>1. live' \subseteq live /\ born' = born
    BY <1>4 DEF PersonCloses
  <2>2. LiveShaped' /\ RecordsShaped'
    BY <1>1, <2>1 DEF BesideInv, LiveShaped, RecordsShaped, GivenOut, Where
  <2>3. RequestsShaped'
    BY <1>1, <2>1 DEF BesideInv, RequestsShaped, RequestShaped, NoRow, GivenOut, Where
  <2>4. \A q \in live' : Found(q)'
    BY <1>1, <2>1 DEF BesideInv, Found, Where
  <2> QED
    BY <1>2, <2>2, <2>3, <2>4 DEF BesideInv
<1> QED
  BY <1>3, <1>4

(* The callers' panes are another matter.                                  *)
LEMMA CallersKeepBeside ==
  ASSUME BesideInv, NEW a \in Agents, NEW r, Becomes(a, r), r.op \notin Serving,
         request[a].op \notin Serving, UNCHANGED <<live, born, table, serial, lost>>
  PROVE  BesideInv'
<1>1. /\ DOMAIN request' = Agents /\ request'[a] = r
      /\ \A b \in Agents \ {a} : request'[b] = request[b]
  BY DEF Becomes, BesideInv, OneServed
<1>2. OneServed'
  BY <1>1 DEF BesideInv, OneServed
<1>3. ASSUME NEW b \in Agents PROVE RequestShaped(request[b])'
  <2>1. CASE b = a
    BY <1>1, <2>1 DEF RequestShaped, Serving
  <2>2. CASE b # a
    BY <1>1, <2>2 DEF BesideInv, RequestsShaped, RequestShaped, NoRow, GivenOut, Where
  <2> QED
    BY <2>1, <2>2
<1>4. \A b \in Agents : request[b].op = "opened" => request'[b] = request[b]
  BY <1>1 DEF Serving
<1>5. (\A q \in live : Found(q))'
  BY <1>4 DEF BesideInv, Found
<1>6. LiveShaped' /\ RecordsShaped'
  BY DEF BesideInv, LiveShaped, RecordsShaped, GivenOut
<1> QED
  BY <1>2, <1>3, <1>5, <1>6 DEF BesideInv, RequestsShaped

LEMMA CallerStep ==
  ASSUME BesideInv, NEW a \in Agents,
         \/ \E id, only : AskBoard(a, id, only)
         \/ Remember(a) \/ Forget(a) \/ \E b : Recall(b, a)
  PROVE  BesideInv'
<1>1. /\ UNCHANGED <<live, born, table, serial, lost>>
      /\ request[a].op \notin Serving
      /\ \E r : Becomes(a, r) /\ r.op \notin Serving
  <2>1. Unasked.op \notin Serving
    BY DEF Unasked, Serving
  <2>2. CASE \E id, only : AskBoard(a, id, only)
    <3>1. PICK id, only : AskBoard(a, id, only)
      BY <2>2
    <3>2. PICK pane : Becomes(a, [op |-> "resolved", pane |-> pane])
      BY <3>1 DEF AskBoard
    <3>3. [op |-> "resolved", pane |-> pane].op \notin Serving
      BY DEF Serving
    <3>4. UNCHANGED <<live, born, table, serial, lost>> /\ request[a] = Unasked
      BY <3>1 DEF AskBoard
    <3> QED
      BY <2>1, <3>2, <3>3, <3>4
  <2>3. CASE Remember(a) \/ Forget(a)
    BY <2>1, <2>3 DEF Remember, Forget, Serving
  <2>4. CASE \E b : Recall(b, a)
    <3>1. PICK b : Recall(b, a)
      BY <2>4
    <3>2. Becomes(a, [op |-> "gone", of |-> b, pane |-> remembered[b]])
      BY <3>1 DEF Recall
    <3>3. [op |-> "gone", of |-> b, pane |-> remembered[b]].op \notin Serving
      BY DEF Serving
    <3>4. UNCHANGED <<live, born, table, serial, lost>> /\ request[a] = Unasked
      BY <3>1 DEF Recall
    <3> QED
      BY <2>1, <3>2, <3>3, <3>4
  <2> QED
    BY <2>2, <2>3, <2>4
<1>2. PICK r : Becomes(a, r) /\ r.op \notin Serving
  BY <1>1
<1> QED
  BY <1>1, <1>2, CallersKeepBeside

(* The rows survive the daemon; the board that it had opened is lost.      *)
LEMMA RestartKeepsBeside ==
  ASSUME BesideInv, Restart
  PROVE  BesideInv'
<1>1. /\ UNCHANGED <<live, born, table>> /\ DOMAIN request' = Agents
      /\ \A a \in Agents : request'[a] = Unasked
      /\ lost \subseteq lost'
      /\ \A a \in Agents : request[a].op = "opened" => request[a].pane \in lost'
  BY DEF Restart
<1>2. Unasked.op \notin Serving
  BY DEF Unasked, Serving
<1>3. OneServed' /\ RequestsShaped'
  BY <1>1, <1>2 DEF OneServed, RequestsShaped, RequestShaped, Serving
<1>4. (\A q \in live : Found(q))'
  <2>1. ASSUME NEW q \in live
        PROVE  q.shows = Nil \/ Where(q) \in lost' \/ \E k \in DOMAIN table : table[k].key = q.shows /\ Where(table[k]) = Where(q)
    BY <1>1 DEF BesideInv, Found
  <2> QED
    BY <1>1, <2>1 DEF Found, Where
<1>5. LiveShaped' /\ RecordsShaped'
  BY <1>1 DEF BesideInv, LiveShaped, RecordsShaped, GivenOut
<1> QED
  BY <1>3, <1>4, <1>5 DEF BesideInv

LEMMA BesideStarts ==
  ASSUME PanesInit
  PROVE  BesideInv
<1>1. /\ table = << >> /\ DOMAIN request = Agents /\ \A a \in Agents : request[a] = Unasked
      /\ born \in [Sessions -> Nat] /\ \A s \in Sessions : born[s] = 1
  BY DEF PanesInit
<1>2. \A p \in live : p.session \in Sessions /\ p.id = 1 /\ p.shows = Nil
                     /\ p = [session |-> p.session, id |-> 1, shows |-> Nil]
  BY DEF PanesInit
<1>3. Unasked.op \notin Serving
  BY DEF Unasked, Serving
<1>4. OneServed /\ RequestsShaped
  BY <1>1, <1>3 DEF OneServed, RequestsShaped, RequestShaped, Serving
<1>5. LiveShaped
  <2>1. \A p \in live : GivenOut(p)
    BY <1>1, <1>2 DEF GivenOut
  <2>2. \A p, q \in live : Where(p) = Where(q) => p = q
    BY <1>2, PlaceParts
  <2> QED
    BY <1>1, <2>1, <2>2 DEF LiveShaped
<1>6. RecordsShaped
  <2>1. table \in Seq({}) /\ DOMAIN table = {}
    BY <1>1
  <2> QED
    BY <2>1 DEF RecordsShaped
<1>7. \A p \in live : Found(p)
  BY <1>2 DEF Found
<1> QED
  BY <1>4, <1>5, <1>6, <1>7 DEF BesideInv

LEMMA BesideKept ==
  ASSUME BesideInv, Nil \notin Agents, \A t, i, c : [session |-> t, id |-> i, key |-> c] # Nil,
         [PanesNext]_paneVars
  PROVE  BesideInv'
<1>1. CASE UNCHANGED paneVars
  <2>1. UNCHANGED <<live, born, table, request, lost, serial>>
    BY <1>1 DEF paneVars
  <2>2. LiveShaped' /\ RecordsShaped'
    BY <2>1 DEF BesideInv, LiveShaped, RecordsShaped, GivenOut
  <2>3. OneServed'
    BY <2>1 DEF BesideInv, OneServed
  <2>4. RequestsShaped'
    BY <2>1 DEF BesideInv, RequestsShaped, RequestShaped, NoRow, GivenOut, Where
  <2>5. (\A q \in live : Found(q))'
    BY <2>1 DEF BesideInv, Found, Where
  <2> QED
    BY <2>2, <2>3, <2>4, <2>5 DEF BesideInv
<1>2. CASE (\E s \in Sessions : PersonOpens(s)) \/ (\E p \in live : PersonCloses(p))
  BY <1>2, HandsKeepBeside
<1>3. ASSUME NEW a \in Agents, NEW op \in {"open", "close"}, NEW c \in Contexts, NEW p \in Hosts,
             Begin(a, op, c, p)
      PROVE  BesideInv'
  BY <1>3, BeginKeepsBeside
<1>4. ASSUME NEW a \in Agents, Fails(a) PROVE BesideInv'
  <2>1. /\ Becomes(a, Unasked) /\ UNCHANGED <<live, born, table, lost>>
        /\ request[a].op \in Serving /\ request[a].op # "opened"
    BY <1>4 DEF Fails, Finish, Serving
  <2> QED
    BY <2>1, EndKeepsBeside
<1>5. ASSUME NEW a \in Agents, CheckRecorded(a) \/ OpenBoard(a) \/ RecordBoard(a) \/ CloseBoard(a) \/ DropRow(a)
      PROVE  BesideInv'
  BY <1>5, CheckKeepsBeside, OpenKeepsBeside, RecordKeepsBeside, CloseKeepsBeside, DropKeepsBeside
<1>6. ASSUME NEW a \in Agents,
             \/ \E id \in {p.id : p \in Hosts}, only \in Sessions \cup {Nil} : AskBoard(a, id, only)
             \/ Remember(a) \/ Forget(a) \/ \E b \in Agents : Recall(b, a)
      PROVE  BesideInv'
  BY <1>6, CallerStep
<1>7. CASE Restart
  BY <1>7, RestartKeepsBeside
<1> QED
  BY <1>1, <1>2, <1>3, <1>4, <1>5, <1>6, <1>7 DEF PanesNext

(* Requests to open and to close the boards of one context, failures, lost *)
(* records and stops of the daemon never leave two boards: every board     *)
(* beside an agent is the one that is recorded for its context, or is      *)
(* about to be, or its record was lost.                                    *)
THEOREM OneBoardBeside ==
  ASSUME Nil \notin Agents, \A t, i, c : [session |-> t, id |-> i, key |-> c] # Nil
  PROVE  PanesSpec => []OneBoardPane
<1>1. BesideInv => OneBoardPane
  <2> SUFFICES ASSUME BesideInv, NEW p \in live
               PROVE  \/ p.shows = Nil \/ Where(p) \in lost
                      \/ \E a \in Agents : request[a].op = "opened" /\ request[a].pane = Where(p)
                      \/ /\ board_pane_for_context(p.session, p.shows) # Nil
                         /\ Where(board_pane_for_context(p.session, p.shows)) = Where(p)
    BY DEF OneBoardPane
  <2>1. CASE \E k \in DOMAIN table : table[k].key = p.shows /\ Where(table[k]) = Where(p)
    <3>1. PICK k \in DOMAIN table : table[k].key = p.shows /\ Where(table[k]) = Where(p)
      BY <2>1
    <3>2. table[k].session = p.session
      BY <3>1, PlaceParts
    <3>3. board_pane_for_context(p.session, p.shows) = table[k] /\ table[k] # Nil
      BY <3>1, <3>2, RowOfContext DEF BesideInv, RecordsShaped
    <3> QED
      BY <3>1, <3>3
  <2> QED
    BY <2>1 DEF BesideInv, Found
<1>2. PanesInit => BesideInv
  BY BesideStarts
<1>3. BesideInv /\ [PanesNext]_paneVars => BesideInv'
  BY BesideKept
<1> QED
  BY <1>1, <1>2, <1>3, PTL DEF PanesSpec
=============================================================================

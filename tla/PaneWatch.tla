----------------------------- MODULE PaneWatch -----------------------------
(***************************************************************************)
(* How the daemon notices that the pane of an active run has gone           *)
(* (state.rs refresh_watch, watchers/herdr.rs, board-herdr events/stream.rs).*)
(*                                                                          *)
(* Tasks start and end runs: each changes the active map and then refreshes *)
(* the watched set, which reads the active panes under one lock and stores  *)
(* them under another.  One supervisor thread follows the watched set: for  *)
(* each Herdr socket it subscribes, takes a snapshot, and polls the stream; *)
(* a stream that breaks is opened again and the snapshot repeated.          *)
(*                                                                          *)
(* A pane stands for the run in it.  Agent status events, back-off delays   *)
(* and the generation counter of the watched set are left out.              *)
(***************************************************************************)
EXTENDS Naturals, FiniteSets

CONSTANTS Panes,      \* panes that may be given to a run
          SocketOf,   \* the Herdr session of each pane
          Tasks,      \* daemon tasks that start and end runs
          MaxBreaks   \* bound: broken streams and failed snapshots

Sockets == {SocketOf[p] : p \in Panes}
Watcher == "watcher"
Threads == Tasks \cup {Watcher}
NoPanes == {}

VARIABLES unborn,     \* panes not made yet
          alive,      \* Herdr's live panes
          active,     \* SchedState.active
          refresh,    \* each thread's refresh_watch: its step, what it read
          watched,    \* WatchState.panes_by_socket
          sock,       \* the supervisor's SocketWatch, per socket
          exits,      \* exit events Herdr has put in each open stream
          hops,       \* runs registered in each pane so far (at most two)
          breaks

watchVars == <<unborn, alive, active, refresh, watched, sock, exits, hops, breaks>>

Absent == [panes |-> NoPanes, at |-> "absent", gone |-> NoPanes]

WatchInit ==
    /\ unborn = Panes /\ alive = NoPanes /\ active = NoPanes
    /\ refresh = [t \in Threads |-> [at |-> "idle", grouped |-> NoPanes]]
    /\ watched = NoPanes
    /\ sock = [s \in Sockets |-> Absent]
    /\ exits = [s \in Sockets |-> NoPanes]
    /\ hops = [p \in Panes |-> 0] /\ breaks = 0

On(s, panes) == {p \in panes : SocketOf[p] = s}

Streaming(s) == sock[s].at \in {"subscribed", "read", "up"}

----------------------------------------------------------------------------
(* Runs start and end. *)

Refreshes(t) == refresh' = [refresh EXCEPT ![t].at = "collect"]

(* A spawn has made a pane; its exit may precede the registration. *)
Spawned(p) ==
    /\ p \in unborn
    /\ unborn' = unborn \ {p} /\ alive' = alive \cup {p}
    /\ UNCHANGED <<active, refresh, watched, sock, exits, hops, breaks>>

(* The first run of a new pane, or a later run that reuses the pane. *)
Registers(t, p) ==
    /\ refresh[t].at = "idle"
    /\ p \notin unborn \cup active /\ hops[p] < 2
    /\ hops' = [hops EXCEPT ![p] = @ + 1]
    /\ active' = active \cup {p} /\ Refreshes(t)
    /\ UNCHANGED <<unborn, alive, watched, sock, exits, breaks>>

Finalizes(t, p) ==
    /\ refresh[t].at = "idle" /\ p \in active
    /\ active' = active \ {p} /\ Refreshes(t)
    /\ UNCHANGED <<unborn, alive, watched, sock, exits, hops, breaks>>

(* refresh_watch, under the scheduler's lock. *)
Collect(t) ==
    /\ refresh[t].at = "collect"
    /\ refresh' = [refresh EXCEPT ![t] = [at |-> "store", grouped |-> active]]
    /\ UNCHANGED <<unborn, alive, active, watched, sock, exits, hops, breaks>>

(* refresh_watch, under the watch lock. *)
Store(t) ==
    /\ refresh[t].at = "store"
    /\ watched' = refresh[t].grouped
    /\ refresh' = [refresh EXCEPT ![t] = [at |-> "idle", grouped |-> NoPanes]]
    /\ UNCHANGED <<unborn, alive, active, sock, exits, hops, breaks>>

----------------------------------------------------------------------------
(* The supervisor thread.  It is busy while it refreshes. *)

AtRest == refresh[Watcher].at = "idle"

(* sync_watches: a socket whose panes changed starts anew. *)
Sync ==
    /\ AtRest
    /\ \A s \in Sockets : sock[s].at # "read" /\ sock[s].at # "subscribed"
    /\ sock' = [s \in Sockets |->
                   IF On(s, watched) = NoPanes THEN Absent
                   ELSE IF sock[s].at # "absent" /\ sock[s].panes = On(s, watched)
                        THEN sock[s]
                        ELSE [panes |-> On(s, watched), at |-> "down", gone |-> NoPanes]]
    /\ exits' = [s \in Sockets |->
                   IF sock'[s].at \in {"absent", "down"} THEN NoPanes ELSE exits[s]]
    /\ UNCHANGED <<unborn, alive, active, refresh, watched, hops, breaks>>

(* Mistaken: the snapshot is taken before the stream is open. *)
SubscribeAfterSnapshot(s) ==
    /\ AtRest
    /\ \/ /\ sock[s].at = "down"
          /\ sock' = [sock EXCEPT ![s].at = "snapped", ![s].gone = sock[s].panes \ alive]
       \/ /\ sock[s].at = "snapped"
          /\ sock' = [sock EXCEPT ![s].at = "read"]
    /\ UNCHANGED <<unborn, alive, active, refresh, watched, exits, hops, breaks>>

(* The subscription is acknowledged: from here on exits are in the stream. *)
Subscribe(s) ==
    /\ AtRest /\ sock[s].at = "down"
    /\ sock' = [sock EXCEPT ![s].at = "subscribed"]
    /\ UNCHANGED <<unborn, alive, active, refresh, watched, exits, hops, breaks>>

(* reconcile_socket: the snapshot. *)
ReconcileSnapshot(s) ==
    /\ AtRest /\ sock[s].at = "subscribed"
    /\ sock' = [sock EXCEPT ![s].at = "read", ![s].gone = sock[s].panes \ alive]
    /\ UNCHANGED <<unborn, alive, active, refresh, watched, exits, hops, breaks>>

(* A failed snapshot is dropped: the next is taken 30 seconds later. *)
ReconcileFails(s) ==
    /\ AtRest /\ sock[s].at = "subscribed" /\ breaks < MaxBreaks
    /\ breaks' = breaks + 1
    /\ sock' = [sock EXCEPT ![s].at = "up"]
    /\ UNCHANGED <<unborn, alive, active, refresh, watched, exits, hops>>

(* handle_event_from_socket: the run of a pane that has exited ends, if one *)
(* is active there.                                                         *)
Exited(p) ==
    IF p \in active THEN active' = active \ {p} /\ Refreshes(Watcher)
    ELSE UNCHANGED <<active, refresh>>

Reconcile(s) ==
    /\ AtRest /\ sock[s].at = "read"
    /\ IF sock[s].gone = NoPanes
       THEN sock' = [sock EXCEPT ![s].at = "up"] /\ UNCHANGED <<active, refresh>>
       ELSE \E p \in sock[s].gone :
               Exited(p) /\ sock' = [sock EXCEPT ![s].gone = @ \ {p}]
    /\ UNCHANGED <<unborn, alive, watched, exits, hops, breaks>>

(* The periodic reconciliation of an open stream. *)
ReconcileAgain(s) ==
    /\ AtRest /\ sock[s].at = "up"
    /\ sock' = [sock EXCEPT ![s].at = "subscribed"]
    /\ UNCHANGED <<unborn, alive, active, refresh, watched, exits, hops, breaks>>

Poll(s) ==
    /\ AtRest /\ sock[s].at = "up"
    /\ \E p \in exits[s] : Exited(p) /\ exits' = [exits EXCEPT ![s] = @ \ {p}]
    /\ UNCHANGED <<unborn, alive, watched, sock, hops, breaks>>

----------------------------------------------------------------------------
(* Herdr. *)

(* A pane exits or is closed: every open stream of its socket is told. *)
Dies(p) ==
    /\ p \in alive /\ alive' = alive \ {p}
    /\ exits' = [s \in Sockets |->
                    IF Streaming(s) /\ SocketOf[p] = s THEN exits[s] \cup {p} ELSE exits[s]]
    /\ UNCHANGED <<unborn, active, refresh, watched, sock, hops, breaks>>

(* The stream breaks and what was in it is lost. *)
Breaks(s) ==
    /\ AtRest /\ sock[s].at = "up" /\ breaks < MaxBreaks
    /\ breaks' = breaks + 1
    /\ sock' = [sock EXCEPT ![s].at = "down"]
    /\ exits' = [exits EXCEPT ![s] = NoPanes]
    /\ UNCHANGED <<unborn, alive, active, refresh, watched, hops>>

WatchNext ==
    \/ \E p \in Panes : Spawned(p) \/ Dies(p)
    \/ \E t \in Tasks, p \in Panes : Registers(t, p) \/ Finalizes(t, p)
    \/ \E t \in Threads : Collect(t) \/ Store(t)
    \/ Sync
    \/ \E s \in Sockets :
          \/ Subscribe(s) \/ ReconcileSnapshot(s) \/ ReconcileFails(s) \/ Reconcile(s)
          \/ ReconcileAgain(s) \/ Poll(s) \/ Breaks(s)

WatchSpec == WatchInit /\ [][WatchNext]_watchVars

----------------------------------------------------------------------------
(* Properties. *)

WatchTypeOK ==
    /\ unborn \subseteq Panes /\ alive \subseteq Panes \ unborn
    /\ active \subseteq Panes \ unborn /\ watched \subseteq Panes \ unborn
    /\ refresh \in [Threads -> [at : {"idle", "collect", "store"},
                                grouped : SUBSET (Panes \ unborn)]]
    /\ sock \in [Sockets -> [at : {"absent", "down", "subscribed", "read", "up"},
                             panes : SUBSET Panes, gone : SUBSET Panes]]
    /\ exits \in [Sockets -> SUBSET Panes] /\ hops \in [Panes -> 0 .. 2] /\ breaks \in 0 .. MaxBreaks

(* While a stream has been reconciled and nothing has failed, a followed    *)
(* pane that has exited under an active run has its exit in the stream:     *)
(* whichever way the exit, the subscription, the snapshot and the           *)
(* registration of the run fall, none is lost between snapshot and stream.  *)
(* (A later run in a reused pane may register just after the exit was heard *)
(* and dropped; the reconciliation every 30 seconds finds it.)              *)
NoMissedExit ==
    breaks = 0 =>
        \A s \in Sockets : \A p \in sock[s].panes \cap active :
            sock[s].at = "up" /\ p \notin alive /\ hops[p] = 1 => p \in exits[s]
=============================================================================

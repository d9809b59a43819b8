----------------------------- MODULE BoardFeed -----------------------------
(***************************************************************************)
(* From a write in the daemon to the screen of one open board: the         *)
(* daemon's event broadcast and the bounded queue of the subscriber's      *)
(* connection (board-daemon/src/server.rs), the subscription thread and    *)
(* the signals it coalesces (board-tui/src/runtime.rs), and the reads the  *)
(* board sends in answer (driver/linear.rs, app/linear.rs, driver/load.rs).*)
(*                                                                         *)
(* What a read returns is a version number: the board's cards, the local   *)
(* state of its space, or the cached Linear document. A board shows the    *)
(* cards (mode "board") or the other two (mode "linear").                  *)
(***************************************************************************)
EXTENDS Integers, Sequences, FiniteSets

CONSTANTS
  Modes,        \* the modes this instance starts in
  RingSize,     \* events the broadcast keeps for a receiver
  OutboxSize,   \* entries of a connection's outbound queue
  MaxWrites,    \* bound: writes
  MaxCrashes    \* bound: daemon crashes

VARIABLES
  mode,         \* "board" or "linear", fixed when the program starts
  up,           \* the daemon is running
  crashes,      \* history: crashes so far
  value,        \* version of each topic in the daemon
  written,      \* history: writes so far
  announcing,   \* events committed and not yet broadcast
  subscribed,   \* the connection's event receiver is registered
  ring,         \* broadcast events the forwarder has not taken
  lagged,       \* the receiver missed events and has not been told
  overrun,      \* history: the receiver of this subscription missed events
  outbox,       \* the connection's outbound queue
  closed,       \* the queue refused an event: nothing more goes in
  client,       \* the subscription thread: starting, listening, reconnecting
  signals,      \* signals not yet drained by the event loop
  requests,     \* the board's request connection is to the running daemon
  read,         \* the read in flight of each topic
  queued,       \* topics with a follow-up read queued
  shown,        \* version of each topic on the screen, or Nothing
  since         \* history: version of each topic at the first subscription

daemonVars == <<up, crashes, value, written, announcing>>
connVars == <<subscribed, ring, lagged, overrun, outbox, closed>>
boardVars == <<requests, read, queued, shown>>
feedVars == <<mode, daemonVars, connVars, client, signals, boardVars, since>>

Topics == {"cards", "local", "linear"}
Events == {"board_changed", "run_ended", "local", "snapshot", "elsewhere"}
Signals == {"changed", "local", "snapshot", "elsewhere", "reconnected"}
Nothing == -1
Version == 0..MaxWrites
NoRead == [at |-> "idle", version |-> Nothing]
ReadAsked == [at |-> "asked", version |-> Nothing]
Reads == [at : {"idle", "asked", "answered"}, version : Version \cup {Nothing}]

FeedTypeOK ==
  /\ mode \in Modes /\ up \in BOOLEAN /\ crashes \in 0..MaxCrashes
  /\ value \in [Topics -> Version] /\ written \in Version
  /\ announcing \subseteq Events
  /\ {subscribed, lagged, overrun, closed} \subseteq BOOLEAN
  /\ ring \in Seq(Events) /\ Len(ring) <= RingSize
  /\ outbox \in Seq(Events) /\ Len(outbox) <= OutboxSize
  /\ client \in {"starting", "listening", "reconnecting"}
  /\ signals \subseteq Signals
  /\ requests \in BOOLEAN
  /\ read \in [Topics -> Reads] /\ queued \subseteq Topics
  /\ shown \in [Topics -> Version \cup {Nothing}]
  /\ since \in [Topics -> Version \cup {Nothing}]

\* The cards were read before the program opened its screen; the first read of
\* the Linear document is sent before the subscription.
FeedInit ==
  /\ mode \in Modes
  /\ up = TRUE /\ crashes = 0 /\ written = 0
  /\ value = [t \in Topics |-> 0]
  /\ announcing = {}
  /\ subscribed = FALSE /\ ring = <<>> /\ lagged = FALSE /\ overrun = FALSE
  /\ outbox = <<>> /\ closed = FALSE
  /\ client = "starting" /\ signals = {} /\ requests = TRUE
  /\ read = [t \in Topics |-> IF t = "linear" /\ mode = "linear" THEN ReadAsked ELSE NoRead]
  /\ queued = {}
  /\ shown = [t \in Topics |-> IF t = "cards" /\ mode = "board" THEN 0 ELSE Nothing]
  /\ since = [t \in Topics |-> Nothing]

-----------------------------------------------------------------------------
(* The daemon.                                                             *)

TopicOf(e) ==
  CASE e \in {"board_changed", "run_ended"} -> {"cards"}
    [] e = "local" -> {"local"}
    [] e = "snapshot" -> {"linear"}
    [] e = "elsewhere" -> {}

\* A handler commits under the store lock and emits after it.
Write(e) ==
  /\ up /\ written < MaxWrites /\ e \notin announcing
  /\ written' = written + 1
  /\ value' = [t \in Topics |-> IF t \in TopicOf(e) THEN value[t] + 1 ELSE value[t]]
  /\ announcing' = announcing \cup {e}
  /\ UNCHANGED <<mode, up, crashes, connVars, client, signals, boardVars, since>>

\* A full ring drops its oldest event and marks the receiver as lagged.
Emit(e) ==
  /\ up /\ e \in announcing
  /\ announcing' = announcing \ {e}
  /\ LET next == Append(ring, e)
         full == Len(ring) = RingSize
     IN /\ ring' = IF ~subscribed THEN ring ELSE IF full THEN Tail(next) ELSE next
        /\ lagged' = (lagged \/ (subscribed /\ full))
        /\ overrun' = (overrun \/ (subscribed /\ full))
  /\ UNCHANGED <<mode, up, crashes, value, written, subscribed, outbox, closed, client,
                 signals, boardVars, since>>

\* push_event: a board_changed behind a board_changed replaces it; a full queue
\* closes the connection instead of dropping an event.
Coalesces(e) == e = "board_changed" /\ outbox # <<>> /\ outbox[Len(outbox)] = "board_changed"
Overflows(e) == ~Coalesces(e) /\ Len(outbox) = OutboxSize

\* The forwarder turns a lag into one board_changed, and stops once the queue
\* has refused an event.
Forward ==
  /\ subscribed /\ (lagged \/ ring # <<>>)
  /\ LET e == IF lagged THEN "board_changed" ELSE Head(ring)
     IN IF Overflows(e)
          THEN /\ closed' = TRUE /\ subscribed' = FALSE
               /\ ring' = <<>> /\ lagged' = FALSE
               /\ UNCHANGED outbox
          ELSE /\ outbox' = IF Coalesces(e) THEN outbox ELSE Append(outbox, e)
               /\ lagged' = FALSE
               /\ ring' = IF lagged THEN ring ELSE Tail(ring)
               /\ UNCHANGED <<closed, subscribed>>
  /\ UNCHANGED <<mode, daemonVars, overrun, client, signals, boardVars, since>>

Disconnected ==
  /\ subscribed' = FALSE /\ ring' = <<>> /\ lagged' = FALSE /\ overrun' = FALSE
  /\ outbox' = <<>> /\ closed' = FALSE
  /\ client' = IF client = "starting" THEN "starting" ELSE "reconnecting"

FeedCrash ==
  /\ up /\ crashes < MaxCrashes
  /\ crashes' = crashes + 1
  /\ up' = FALSE /\ announcing' = {} /\ requests' = FALSE
  /\ Disconnected
  /\ UNCHANGED <<mode, value, written, signals, read, queued, shown, since>>

FeedRestart ==
  /\ ~up
  /\ up' = TRUE
  /\ UNCHANGED <<mode, crashes, value, written, announcing, connVars, client, signals,
                 boardVars, since>>

-----------------------------------------------------------------------------
(* The subscription thread.                                                *)

\* The first subscription sends no signal; when it fails the thread goes on as
\* after a lost stream.
FirstSubscribe ==
  /\ client = "starting"
  /\ client' = IF up THEN "listening" ELSE "reconnecting"
  /\ subscribed' = up
  /\ since' = IF up THEN value ELSE since
  /\ UNCHANGED <<mode, daemonVars, ring, lagged, overrun, outbox, closed, signals, boardVars>>

\* Mutant of Resubscribe: a thread that resubscribes and says nothing.
ResubscribeSilent ==
  /\ client = "reconnecting" /\ up
  /\ client' = "listening" /\ subscribed' = TRUE
  /\ UNCHANGED <<mode, daemonVars, ring, lagged, overrun, outbox, closed, signals, boardVars, since>>

\* The acknowledgement comes after the receiver is registered, and the signal
\* that makes the board read everything again after the acknowledgement.
Resubscribe ==
  /\ client = "reconnecting" /\ up
  /\ client' = "listening" /\ subscribed' = TRUE
  /\ signals' = signals \cup {"reconnected"}
  /\ UNCHANGED <<mode, daemonVars, ring, lagged, overrun, outbox, closed, boardVars, since>>

SignalOf(e) == IF e \in {"board_changed", "run_ended"} THEN "changed" ELSE e

Deliver ==
  /\ client = "listening" /\ outbox # <<>>
  /\ signals' = signals \cup {SignalOf(Head(outbox))}
  /\ outbox' = Tail(outbox)
  /\ UNCHANGED <<mode, daemonVars, subscribed, ring, lagged, overrun, closed, client,
                 boardVars, since>>

\* The writer sends what was queued before the refusal, then hangs up.
Hangup ==
  /\ closed /\ outbox = <<>>
  /\ Disconnected
  /\ UNCHANGED <<mode, daemonVars, signals, boardVars, since>>

-----------------------------------------------------------------------------
(* The board's event loop.                                                 *)

\* n requests of a read of topic t in one batch (request_or_queue,
\* request_local_state): the first is sent unless one is in flight, any other
\* is queued behind it.
Requested(n, t, r, q) ==
  IF n = 0 THEN [read |-> r, queued |-> q]
  ELSE IF r[t] = NoRead
    THEN [read |-> [r EXCEPT ![t] = ReadAsked], queued |-> IF n > 1 THEN q \cup {t} ELSE q]
    ELSE [read |-> r, queued |-> q \cup {t}]

Times(condition) == IF condition THEN 1 ELSE 0

\* on_daemon_signals and on_local_state_changed of a Linear board: what the
\* daemon calls a change of the board is ignored.
DrainLinear ==
  LET again == Times("reconnected" \in signals)
      document == Times("snapshot" \in signals)
      state == Times({"snapshot", "local"} \cap signals # {})
      first == Requested(again + document, "linear", read, queued)
      both == Requested(again + state, "local", first.read, first.queued)
  IN /\ mode = "linear"
     /\ read' = both.read /\ queued' = both.queued
     /\ UNCHANGED shown

\* A reconnect replaces the request connection before the cards are read again;
\* a read that fails leaves the cards on screen.
DrainBoard ==
  LET reconnects == "reconnected" \in signals
      connected == IF reconnects THEN up ELSE requests /\ up
  IN /\ mode = "board"
     /\ shown' = IF connected /\ {"changed", "reconnected"} \cap signals # {}
                   THEN [shown EXCEPT !["cards"] = value["cards"]]
                   ELSE shown
     /\ UNCHANGED <<read, queued>>

Drain ==
  /\ signals # {} /\ client # "starting"
  /\ signals' = {}
  /\ DrainLinear \/ DrainBoard
  /\ requests' = IF "reconnected" \in signals /\ up THEN TRUE ELSE requests
  /\ UNCHANGED <<mode, daemonVars, connVars, client, since>>

\* A worker reads over a connection of its own; the read fails when the daemon
\* is down.
WorkerReads(t) ==
  /\ read[t] = ReadAsked
  /\ read' = [read EXCEPT ![t] = [at |-> "answered",
                                  version |-> IF up THEN value[t] ELSE Nothing]]
  /\ UNCHANGED <<mode, daemonVars, connVars, client, signals, requests, queued, shown, since>>

\* The board loop takes a Linear document: the first good one asks for the
\* local state, and a queued read is sent.
LinearArrives ==
  LET v == read["linear"].version
      good == v # Nothing
      landed == [read EXCEPT !["linear"] = IF "linear" \in queued THEN ReadAsked ELSE NoRead]
      local == Requested(Times(good /\ shown["linear"] = Nothing), "local",
                         landed, queued \ {"linear"})
  IN /\ client # "starting" /\ read["linear"].at = "answered"
     /\ shown' = IF good THEN [shown EXCEPT !["linear"] = v] ELSE shown
     /\ read' = local.read /\ queued' = local.queued
     /\ UNCHANGED <<mode, daemonVars, connVars, client, signals, requests, since>>

\* The local state arrives: when its bindings changed the Linear document is
\* read too, and one queued read is sent however many changes were announced.
StateArrives ==
  LET v == read["local"].version
      landed == [read EXCEPT !["local"] = IF "local" \in queued THEN ReadAsked ELSE NoRead]
  IN /\ read["local"].at = "answered"
     /\ shown' = IF v # Nothing THEN [shown EXCEPT !["local"] = v] ELSE shown
     /\ \E rebound \in BOOLEAN :
          /\ rebound => v # Nothing /\ shown["local"] \notin {Nothing, v}
          /\ LET doc == Requested(Times(rebound), "linear", landed, queued \ {"local"})
             IN read' = doc.read /\ queued' = doc.queued
     /\ UNCHANGED <<mode, daemonVars, connVars, client, signals, requests, since>>

FeedNext ==
  \/ \E e \in Events : Write(e) \/ Emit(e)
  \/ Forward \/ FeedCrash \/ FeedRestart
  \/ FirstSubscribe \/ Resubscribe \/ Deliver \/ Hangup
  \/ Drain \/ LinearArrives \/ StateArrives
  \/ \E t \in Topics : WorkerReads(t)

FeedSpec == FeedInit /\ [][FeedNext]_feedVars

-----------------------------------------------------------------------------
(* Properties.                                                             *)

OnScreen == IF mode = "board" THEN {"cards"} ELSE {"local", "linear"}

\* Nothing is under way that could still change the screen.
Quiet ==
  /\ up /\ announcing = {}
  /\ client = "listening" /\ subscribed /\ ring = <<>> /\ ~lagged /\ outbox = <<>>
  /\ signals = {}
  /\ \A t \in Topics : read[t] = NoRead

\* Every write after the first subscription reaches the screen: through the
\* coalescing of signals, the queueing of reads behind reads, a queue that
\* overflows, and crashes of the daemon. A lag of the broadcast is made good for
\* the board of cards only: to a Linear board the board_changed that stands for
\* what was lost says nothing, until it subscribes again. (A daemon replaced
\* before the first subscription leaves the cards on a dead request connection.)
NoWriteUnseen ==
  Quiet /\ (mode = "board" => requests) /\ (mode = "linear" => ~overrun) =>
    \A t \in OnScreen : value[t] \in {shown[t], since[t]}
=============================================================================

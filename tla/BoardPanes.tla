----------------------------- MODULE BoardPanes -----------------------------
(***************************************************************************)
(* Boards that agents open beside themselves (board.pane.open and close):  *)
(* one recorded pane for a context of a Herdr session; and the panes that  *)
(* callers of the daemon have confirmed to be theirs (caller.resolve).     *)
(* A request is several calls to Herdr and the store: people close panes   *)
(* in between, calls fail, the daemon stops.                               *)
(*                                                                         *)
(* Herdr does not reuse the id of a pane in a running session; two         *)
(* sessions use the same ids.  Left out: the environment of a board,       *)
(* workspaces and tabs, and the search by folder, which never resolves.    *)
(***************************************************************************)
EXTENDS Naturals, Sequences, FiniteSets, SequencesExt

CONSTANTS
    Nil,
    Sessions,
    Agents,        \* requests in progress, one of each agent at a time
    Contexts,      \* what a board shows: a space, issue or card; "session" for its caller
    MaxBorn,       \* of each session, the panes it ever has
    MaxStops       \* stops of the daemon

VARIABLES
    live,          \* the panes of Herdr: [session, id, shows]
    born,          \* ids given out, of each session
    table,         \* linear_board_panes, in order of insertion
    serial,        \* BOARD_PANES: the request that holds it, or Nil
    request,       \* of each agent
    lost,          \* boards whose request ended before it recorded them
    remembered,    \* caller_locations
    stops

paneVars == <<live, born, table, serial, request, lost, remembered, stops>>

Unasked == [op |-> "idle"]
Where(p) == [session |-> p.session, id |-> p.id]
Alive(place) == \E p \in live : Where(p) = place
Becomes(a, r) == request' = [request EXCEPT ![a] = r]
Finish(a) == Becomes(a, Unasked) /\ serial' = Nil

\* The panes an agent may be in
Hosts == {p \in live : p.shows = Nil}

\* A session board is its agent's: the key is the agent's pane.
context_key(context, origin) == IF context = "session" THEN <<context, origin>> ELSE <<context, Nil>>

\* The newest row of a context, or Nil
board_pane_for_context(session, key) ==
    LET mine == {k \in DOMAIN table : table[k].session = session /\ table[k].key = key}
    IN IF mine = {} THEN Nil ELSE table[Max(mine)]

\* The key of the table is the pane: a row of the same pane is replaced.
RowsWithout(place) ==
    LET at == {k \in DOMAIN table : Where(table[k]) = place}
    IN IF at = {} THEN table ELSE RemoveAt(table, Max(at))
record_board_pane(row) == table' = Append(RowsWithout(Where(row)), row)
remove_board_pane(place) == table' = RowsWithout(place)

----------------------------------------------------------------------------
(* Herdr and its users *)

Birth(s, shows) ==
    /\ born[s] < MaxBorn[s]
    /\ born' = [born EXCEPT ![s] = @ + 1]
    /\ live' = live \cup {[session |-> s, id |-> born[s] + 1, shows |-> shows]}

PersonOpens(s) == Birth(s, Nil) /\ UNCHANGED <<table, serial, request, lost, remembered, stops>>

PersonCloses(p) ==
    /\ live' = live \ {p}
    /\ UNCHANGED <<born, table, serial, request, lost, remembered, stops>>

----------------------------------------------------------------------------
(* board.pane.open, board.pane.close *)

\* A mutant of MayBegin: the check and the record are not one section.
MayBeginAlways == TRUE

MayBegin == serial = Nil

\* The lock is taken before the caller's pane and the record are looked up.
Begin(a, op, context, origin) ==
    /\ request[a] = Unasked /\ MayBegin /\ serial' = a
    /\ Becomes(a, [op |-> op, origin |-> Where(origin), session |-> origin.session,
                   key |-> context_key(context, origin.id)])
    /\ UNCHANGED <<live, born, table, lost, remembered, stops>>

\* Herdr cannot be reached, refuses, or the caller's pane is gone.
Fails(a) ==
    /\ request[a].op \in {"open", "absent", "close"} /\ Finish(a)
    /\ UNCHANGED <<live, born, table, lost, remembered, stops>>

\* The recorded board is live and returned, or its row is dropped.
CheckRecorded(a) ==
    LET r   == request[a]
        row == board_pane_for_context(r.session, r.key)
    IN /\ r.op = "open" /\ Alive(r.origin)
       /\ IF row # Nil /\ Alive(Where(row)) THEN Finish(a) /\ UNCHANGED table
          ELSE /\ Becomes(a, [r EXCEPT !.op = "absent"]) /\ UNCHANGED serial
               /\ IF row # Nil THEN remove_board_pane(Where(row)) ELSE UNCHANGED table
       /\ UNCHANGED <<live, born, lost, remembered, stops>>

\* plugin.pane.open
OpenBoard(a) ==
    LET r == request[a]
    IN /\ r.op = "absent" /\ Birth(r.session, r.key)
       /\ Becomes(a, [op |-> "opened", key |-> r.key,
                      pane |-> [session |-> r.session, id |-> born[r.session] + 1]])
       /\ UNCHANGED <<table, serial, lost, remembered, stops>>

\* The answer may be lost, or the store may refuse the row.
RecordBoard(a) ==
    LET r == request[a]
    IN /\ r.op = "opened" /\ Finish(a)
       /\ \/ /\ record_board_pane([session |-> r.pane.session, id |-> r.pane.id, key |-> r.key])
             /\ UNCHANGED lost
          \/ lost' = lost \cup {r.pane} /\ UNCHANGED table
       /\ UNCHANGED <<live, born, remembered, stops>>

\* A board is closed if it is live; then its row is removed.
CloseBoard(a) ==
    LET r   == request[a]
        row == board_pane_for_context(r.session, r.key)
    IN /\ r.op = "close" /\ row # Nil
       /\ live' = {p \in live : Where(p) # Where(row)}
       /\ Becomes(a, [op |-> "closed", pane |-> Where(row)])
       /\ UNCHANGED <<born, table, serial, lost, remembered, stops>>

DropRow(a) ==
    LET r == request[a]
    IN /\ r.op = "closed" /\ Finish(a)
       /\ (remove_board_pane(r.pane) \/ UNCHANGED table)
       /\ UNCHANGED <<live, born, lost, remembered, stops>>

----------------------------------------------------------------------------
(* caller.resolve *)

\* Sessions that are not listed, or do not answer in time, are left out.
Answering == SUBSET Sessions
session_caller_panes(answering, id) == {p \in live : p.session \in answering /\ p.id = id}

\* A caller names its pane, with or without a session; one hit resolves.
match_caller(panes, only) ==
    LET hits == {p \in panes : only # Nil => p.session = only}
    IN IF Cardinality(hits) = 1 THEN {Where(p) : p \in hits} ELSE {}

AskBoard(a, id, only) ==
    \E answering \in Answering :
      \E pane \in match_caller(session_caller_panes(answering, id), only) :
         /\ request[a] = Unasked /\ Becomes(a, [op |-> "resolved", pane |-> pane])
         /\ UNCHANGED <<live, born, table, serial, lost, remembered, stops>>

Remember(a) ==
    /\ request[a].op = "resolved" /\ Becomes(a, Unasked)
    /\ remembered' = [remembered EXCEPT ![a] = request[a].pane]
    /\ UNCHANGED <<live, born, table, serial, lost, stops>>

\* live_remembered: the pane is asked for outside the lock.
Recall(a, reader) ==
    /\ request[reader] = Unasked /\ remembered[a] # Nil /\ ~Alive(remembered[a])
    /\ Becomes(reader, [op |-> "gone", of |-> a, pane |-> remembered[a]])
    /\ UNCHANGED <<live, born, table, serial, lost, remembered, stops>>

StillThere(r) == remembered[r.of] = r.pane

Forget(reader) ==
    LET r == request[reader]
    IN /\ r.op = "gone" /\ Becomes(reader, Unasked)
       /\ remembered' = IF StillThere(r) THEN [remembered EXCEPT ![r.of] = Nil] ELSE remembered
       /\ UNCHANGED <<live, born, table, serial, lost, stops>>

----------------------------------------------------------------------------
\* The daemon starts again: rows survive, memory does not.
Restart ==
    /\ stops < MaxStops /\ stops' = stops + 1
    /\ lost' = lost \cup {request[a].pane : a \in {a \in Agents : request[a].op = "opened"}}
    /\ request' = [a \in Agents |-> Unasked] /\ serial' = Nil
    /\ remembered' = [a \in Agents |-> Nil]
    /\ UNCHANGED <<live, born, table>>

PanesInit ==
    /\ live = {[session |-> s, id |-> 1, shows |-> Nil] : s \in Sessions}
    /\ born = [s \in Sessions |-> 1]
    /\ table = << >> /\ serial = Nil /\ lost = {} /\ stops = 0
    /\ request = [a \in Agents |-> Unasked] /\ remembered = [a \in Agents |-> Nil]

PanesNext ==
    \/ \E s \in Sessions : PersonOpens(s)
    \/ \E p \in live : PersonCloses(p)
    \/ \E a \in Agents :
          \/ \E op \in {"open", "close"}, c \in Contexts, p \in Hosts : Begin(a, op, c, p)
          \/ Fails(a) \/ CheckRecorded(a) \/ OpenBoard(a) \/ RecordBoard(a)
          \/ CloseBoard(a) \/ DropRow(a)
          \/ \E id \in {p.id : p \in Hosts}, only \in Sessions \cup {Nil} : AskBoard(a, id, only)
          \/ Remember(a) \/ Forget(a) \/ \E b \in Agents : Recall(b, a)
    \/ Restart

PanesSpec == PanesInit /\ [][PanesNext]_paneVars

----------------------------------------------------------------------------
PanesTypeOK ==
    /\ \A p, q \in live : Where(p) = Where(q) => p = q
    /\ \A p \in live : p.id \in 1..born[p.session] /\ born[p.session] <= MaxBorn[p.session]
    /\ \A k, l \in DOMAIN table : Where(table[k]) = Where(table[l]) => k = l
    /\ serial # Nil => request[serial] # Unasked

\* panes.rs: two opens of one context never open two boards, in any order of
\* requests, failures and closed panes: every board there is can be found
\* again, but for one whose record was lost.
OneBoardPane ==
    \A p \in live :
        \/ p.shows = Nil \/ Where(p) \in lost
        \/ \E a \in Agents : request[a].op = "opened" /\ request[a].pane = Where(p)
        \/ LET row == board_pane_for_context(p.session, p.shows)
           IN row # Nil /\ Where(row) = Where(p)
=============================================================================

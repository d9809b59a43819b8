----------------------------- MODULE RunProtocol -----------------------------
(***************************************************************************)
(* What boardd promises about runs to those who ask for them: a queue of   *)
(* runs per space, served oldest first, one at a time and at most Capacity *)
(* over all spaces.  There is no dispatcher here, no launch, no pane, no   *)
(* scheduler state, no request in flight and no restart: a run is          *)
(* submitted, starts and closes.  RunRefinement states that the daemon     *)
(* keeps the promise.                                                      *)
(***************************************************************************)
EXTENDS Integers, FiniteSets

CONSTANTS
  Cards,      \* cards, present or not
  RunIds,     \* run ids, in the order of submission
  Spaces,     \* the spaces a card may name
  Outcome,    \* how a run may end
  Capacity,   \* how many runs may be started at once
  NoCard      \* the card of no run

VARIABLES
  state,      \* of each run: none, queued, started, or its outcome
  card,       \* the card it works for
  space       \* the space of each card

vars == <<state, card, space>>

Queued == {r \in RunIds : state[r] = "queued"}
Started == {r \in RunIds : state[r] = "started"}
OpenRuns(c) == {r \in Queued \cup Started : card[r] = c}
SpaceOf(r) == space[card[r]]

(* No row is younger.                                                      *)
IsNext(r) == \A q \in RunIds : state[q] # "none" => q < r

Init ==
  /\ state = [r \in RunIds |-> "none"]
  /\ card = [r \in RunIds |-> NoCard]
  /\ space \in [Cards -> Spaces]

(* A run is submitted for a card without one, which may name its space     *)
(* with it.                                                                *)
Submit(r, c, s) ==
  /\ IsNext(r)
  /\ OpenRuns(c) = {}
  /\ state' = [state EXCEPT ![r] = "queued"]
  /\ card' = [card EXCEPT ![r] = c]
  /\ space' = [space EXCEPT ![c] = s]

(* The oldest run of a free space starts while there is capacity.          *)
Start(r) ==
  /\ r \in Queued
  /\ \A q \in Queued : q < r => SpaceOf(q) # SpaceOf(r)
  /\ \A q \in Started : SpaceOf(q) # SpaceOf(r)
  /\ Cardinality(Started) < Capacity
  /\ state' = [state EXCEPT ![r] = "started"]
  /\ UNCHANGED <<card, space>>

Close(r, outcome) ==
  /\ r \in Queued \cup Started
  /\ state' = [state EXCEPT ![r] = outcome]
  /\ UNCHANGED <<card, space>>

(* A run closes and its card's next one takes a place in the queue.        *)
Hop(r, outcome, n) ==
  /\ r \in Queued \cup Started
  /\ IsNext(n)
  /\ state' = [state EXCEPT ![r] = outcome, ![n] = "queued"]
  /\ card' = [card EXCEPT ![n] = card[r]]
  /\ UNCHANGED space

(* A card without an open run names another space.                         *)
Relocate(c, s) ==
  /\ OpenRuns(c) = {}
  /\ space' = [space EXCEPT ![c] = s]
  /\ UNCHANGED <<state, card>>

(* A card without an open run is forgotten with its runs.                  *)
Forget(c) ==
  /\ OpenRuns(c) = {}
  /\ state' = [r \in RunIds |-> IF card[r] = c THEN "none" ELSE state[r]]
  /\ card' = [r \in RunIds |-> IF card[r] = c THEN NoCard ELSE card[r]]
  /\ UNCHANGED space

Next ==
  \/ \E r \in RunIds, c \in Cards, s \in Spaces : Submit(r, c, s)
  \/ \E r \in RunIds : Start(r)
  \/ \E r \in RunIds, outcome \in Outcome : Close(r, outcome)
  \/ \E r, n \in RunIds, outcome \in Outcome : Hop(r, outcome, n)
  \/ \E c \in Cards, s \in Spaces : Relocate(c, s)
  \/ \E c \in Cards : Forget(c)

Spec == Init /\ [][Next]_vars
=============================================================================

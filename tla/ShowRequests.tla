---------------------------- MODULE ShowRequests ----------------------------
(***************************************************************************)
(* An agent asks the person to look at an issue; the person accepts or     *)
(* dismisses, the agent asks again or withdraws, and a request nobody      *)
(* answers expires: at once for every reader, and in its row when the      *)
(* sweeper gets to it.  The person answers a row a board drew earlier.     *)
(*                                                                         *)
(* Left out: reasons, requesters and sessions; the clock only goes forward *)
(* (the code reads the wall clock).                                        *)
(***************************************************************************)
EXTENDS Naturals, Sequences, FiniteSets

CONSTANTS
    Askers,       \* owners: the agents
    Wanted,       \* issues
    TTL,          \* show_request_ttl_secs
    MaxTime,      \* the last instant
    MaxRequests   \* rows

VARIABLES
    time,
    requests,   \* id -> [owner, issue, expires, outcome]
    drawn       \* the requests on the board the person looks at

showVars == <<time, requests, drawn>>

Open     == "open"
Outcomes == {Open, "accepted", "rejected", "withdrawn", "expired"}

ShowInit ==
    /\ time = 0
    /\ requests = << >>
    /\ drawn = {}

is_overdue(r) == time >= requests[r].expires
open_show_requests == {r \in DOMAIN requests : requests[r].outcome = Open}
is_pending(r) == requests[r].outcome = Open /\ ~is_overdue(r)
Pending == {r \in open_show_requests : is_pending(r)}

refresh_show_request(r) == requests' = [requests EXCEPT ![r].expires = time + TTL]
add_show_request(o, i) ==
    /\ Len(requests) < MaxRequests
    /\ requests' = Append(requests, [owner |-> o, issue |-> i, outcome |-> Open,
                                     expires |-> time + TTL])

----------------------------------------------------------------------------
Pass ==
    /\ time < MaxTime
    /\ time' = time + 1
    /\ UNCHANGED <<requests, drawn>>

\* A mutant: only the latest row is looked at.
MineIfLatest(o, i) ==
    {r \in Pending : /\ r = Len(requests)
                     /\ requests[r].owner = o /\ requests[r].issue = i}

Mine(o, i) == {r \in Pending : requests[r].owner = o /\ requests[r].issue = i}

\* A question that is pending is refreshed in its place; else a row is added.
linear_show_request(o, i) ==
    /\ \/ \E r \in Mine(o, i) : refresh_show_request(r)
       \/ Mine(o, i) = {} /\ add_show_request(o, i)
    /\ UNCHANGED <<time, drawn>>

\* A board reads what is pending.
Draw ==
    /\ drawn' = Pending
    /\ UNCHANGED <<time, requests>>

close_show_request(r, outcome) == requests' = [requests EXCEPT ![r].outcome = outcome]

\* A request that was answered, or that is overdue, takes no answer.
close_pending(r, outcome) ==
    /\ is_pending(r)
    /\ close_show_request(r, outcome)

\* The person answers the first question drawn.
answer(r) == r \in drawn /\ \A q \in drawn : r <= q

\* A question answered goes from the board; one that was answered, withdrawn or
\* that expired in the meantime makes it read again.
write_arrived(r, outcome) ==
    IF is_pending(r) THEN close_pending(r, outcome) /\ drawn' = drawn \ {r}
    ELSE drawn' = Pending /\ UNCHANGED requests

Accept(r) == answer(r) /\ write_arrived(r, "accepted") /\ UNCHANGED time

Dismiss(r) == answer(r) /\ write_arrived(r, "rejected") /\ UNCHANGED time

Withdraw(o, i) ==
    /\ \E r \in Mine(o, i) : close_pending(r, "withdrawn")
    /\ UNCHANGED <<time, drawn>>

\* Every open row whose time is over is marked, in one transaction.
expire_overdue ==
    LET due == {r \in open_show_requests : is_overdue(r)}
    IN /\ due # {}
       /\ requests' = [r \in DOMAIN requests |->
              IF r \in due THEN [requests[r] EXCEPT !.outcome = "expired"] ELSE requests[r]]

Sweep == expire_overdue /\ UNCHANGED <<time, drawn>>

ShowNext ==
    \/ Pass
    \/ \E o \in Askers, i \in Wanted : linear_show_request(o, i)
    \/ Draw
    \/ \E r \in DOMAIN requests : Accept(r)
    \/ \E r \in DOMAIN requests : Dismiss(r)
    \/ \E o \in Askers, i \in Wanted : Withdraw(o, i)
    \/ Sweep

ShowSpec == ShowInit /\ [][ShowNext]_showVars

----------------------------------------------------------------------------
ShowTypeOK ==
    /\ time \in 0..MaxTime
    /\ Len(requests) <= MaxRequests
    /\ \A r \in DOMAIN requests :
          requests[r] \in [owner : Askers, issue : Wanted, outcome : Outcomes,
                           expires : 0..(MaxTime + TTL)]
    /\ drawn \subseteq DOMAIN requests

\* An agent that asks again does not queue: however its questions expired, were
\* answered or withdrawn before, it has one pending row per issue.
OnePendingPerOwner ==
    \A r, s \in Pending :
        /\ requests[r].owner = requests[s].owner
        /\ requests[r].issue = requests[s].issue
        => r = s

\* An answer is final and the request it answers is the one that was asked: a
\* person who answers a stale board never overturns a withdrawal or an expiry,
\* and no row comes back or changes its question.
AnswerIsFinal ==
    [][\A r \in DOMAIN requests :
          /\ r \in DOMAIN requests'
          /\ requests[r].outcome # Open => requests'[r] = requests[r]
          /\ requests'[r].issue = requests[r].issue]_showVars
=============================================================================

---------------------------- MODULE ManagedLaunch ----------------------------
(***************************************************************************)
(* One launch of a managed agent in a pane of its own, or in the pane of   *)
(* the previous run: agent.start with its retries, the two readiness       *)
(* gates, the prompt, and the capture of the conversation's id from the    *)
(* harnesses that mint it themselves.  Herdr and the agent answer late,    *)
(* refuse, or never answer: a lost answer says nothing about what was done.*)
(*                                                                         *)
(* Left out: the placement of the pane (CardTabs); the content of texts;   *)
(* the clock: a wait may give up at any probe.  The agent's program reads  *)
(* its system-prompt file before it calls itself interactive.              *)
(***************************************************************************)
EXTENDS Naturals

CONSTANTS
    StartRetries,   \* AGENT_START_BUSY_RETRIES
    PromptRetries   \* AGENT_PROMPT_BUSY_RETRIES

VARIABLES
    plan,      \* [kind, mint, prompt, reuse]: what the launch is asked to do
    phase,     \* where the launch is
    attempt,   \* 1, or 2 after a pane that was gone before the start
    name,      \* "primary", "fallback" after agent_name_taken
    budget,    \* [start, prompt]: retries left
    file,      \* the system-prompt file exists
    agent,     \* what Herdr holds for the pane: [is, turn, id]
    told,      \* [system, task]: how often the agent received each
    captured   \* the conversation's id the launch hands on

launchVars == <<plan, phase, attempt, name, budget, file, agent, told, captured>>

NoId    == "none"
Own     == "own"       \* an id of the expected agent, kind and source
Foreign == "foreign"   \* any other agent_session

FileKinds    == {"claude"}                     \* pi is the same
MintingKinds == {"codex", "opencode"}          \* agy is as opencode
CapturesLate == {"opencode"}

\* A mint begins a conversation; a rescue resumes one and prompts nothing.
Plans == {p \in [kind : FileKinds \cup MintingKinds, mint : BOOLEAN,
                 prompt : BOOLEAN, reuse : BOOLEAN] :
             /\ p.mint => p.prompt
             /\ p.reuse => p.prompt /\ ~p.mint}

LaunchInit ==
    /\ plan \in Plans
    /\ phase = "place"
    /\ attempt = 1
    /\ name = "primary"
    /\ budget = [start |-> StartRetries, prompt |-> PromptRetries]
    /\ file = FALSE
    /\ agent = [is |-> "shell", turn |-> "idle", id |-> NoId]
    /\ told = [system |-> 0, task |-> 0]
    /\ captured = NoId

Reused      == phase # "place" /\ plan.reuse
interactive == agent.is = "ready"

----------------------------------------------------------------------------
\* Every failure but the first missing pane ends the launch: the owned pane is
\* closed, unless that fails as well, and the file is removed.
Fail ==
    /\ phase' = "failed"
    /\ file' = FALSE
    /\ \/ agent' = [agent EXCEPT !.is = "gone"]
       \/ UNCHANGED agent
    /\ UNCHANGED <<plan, attempt, name, budget, told, captured>>

GoTo(next) ==
    /\ phase' = next
    /\ UNCHANGED <<plan, attempt, name, budget, file, agent, told, captured>>

\* The candidate for reuse may be gone, then the pane is a fresh one.
Place ==
    /\ phase = "place"
    /\ \/ /\ plan.reuse
          /\ phase' = "reuse"
          /\ \E turn \in {"idle", "working"}, id \in {NoId, Own} :
                agent' = [is |-> "ready", turn |-> turn, id |-> id]
          /\ UNCHANGED <<plan, file>>
       \/ /\ phase' = "start"
          /\ plan' = [plan EXCEPT !.reuse = FALSE]
          /\ agent' = [is |-> "shell", turn |-> "idle", id |-> NoId]
          /\ file' = (plan.kind \in FileKinds)
    /\ budget' = [budget EXCEPT !.start = StartRetries]
    /\ name' = "primary"
    /\ UNCHANGED <<attempt, told, captured>>

----------------------------------------------------------------------------
(* agent.start *)

StartAccepted ==
    /\ phase = "start" /\ agent.is = "shell"
    /\ phase' = "ready"
    /\ agent' = [agent EXCEPT !.is = "starting"]
    /\ UNCHANGED <<plan, attempt, name, budget, file, told, captured>>

\* The retries left are shared by the two names.
StartBusy ==
    /\ phase = "start" /\ agent.is = "shell"
    /\ \/ /\ budget.start > 0
          /\ budget' = [budget EXCEPT !.start = @ - 1]
          /\ UNCHANGED <<plan, phase, attempt, name, file, agent, told, captured>>
       \/ budget.start = 0 /\ Fail

\* A rescue has no second name.
NameTaken ==
    /\ phase = "start"
    /\ \/ /\ name = "primary" /\ plan.prompt
          /\ name' = "fallback"
          /\ UNCHANGED <<plan, phase, attempt, budget, file, agent, told, captured>>
       \/ /\ name = "fallback" \/ ~plan.prompt
          /\ Fail

PaneNotFound ==
    /\ phase = "start" /\ agent.is = "gone"
    /\ \/ /\ attempt = 1 /\ plan.prompt
          /\ attempt' = 2 /\ phase' = "place" /\ file' = FALSE
          /\ UNCHANGED <<plan, name, budget, agent, told, captured>>
       \/ /\ attempt = 2 \/ ~plan.prompt
          /\ Fail

\* Any other error: the agent may have been started all the same.
StartLost == phase = "start" /\ Fail

----------------------------------------------------------------------------
(* The gates before the prompt *)

AfterReady == IF plan.kind \in MintingKinds \ CapturesLate THEN "capture"
              ELSE IF ~plan.prompt THEN "handover"
              ELSE IF plan.kind \in FileKinds THEN "session"
              ELSE "prompt"

AwaitInteractive ==
    /\ phase = "ready"
    /\ \/ interactive /\ GoTo(AfterReady)
       \/ ~interactive /\ Fail            \* the deadline, or agent.get fails

AwaitReuse ==
    /\ phase = "reuse"
    /\ \/ interactive /\ agent.turn = "idle" /\ GoTo("session")
       \/ ~(interactive /\ agent.turn = "idle") /\ Fail

\* No session within the bound is no reason to wait on.
AwaitSession == phase = "session" /\ GoTo("prompt")

----------------------------------------------------------------------------
(* agent.prompt *)

Landed ==
    told' = [system |-> told.system + (IF plan.mint /\ plan.kind \in MintingKinds
                                       THEN 1 ELSE 0),
             task   |-> told.task + 1]

PromptAccepted ==
    /\ phase = "prompt" /\ interactive
    /\ Landed
    /\ agent' = [agent EXCEPT !.turn = "working"]
    /\ phase' = "handover"
    /\ UNCHANGED <<plan, attempt, name, budget, file, captured>>

\* The typed refusal alone is retried, while the agent stays interactive.
PromptBusy ==
    /\ phase = "prompt" /\ agent.is # "gone"
    /\ \/ /\ interactive /\ budget.prompt > 0
          /\ budget' = [budget EXCEPT !.prompt = @ - 1]
          /\ UNCHANGED <<plan, phase, attempt, name, file, agent, told, captured>>
       \/ (~interactive \/ budget.prompt = 0) /\ Fail

\* A mutant: an error of any kind is retried.
PromptLostRetried ==
    /\ phase = "prompt"
    /\ interactive /\ Landed
    /\ budget.prompt > 0
    /\ budget' = [budget EXCEPT !.prompt = @ - 1]
    /\ UNCHANGED <<plan, phase, attempt, name, file, agent, captured>>

\* Any other error, of a prompt that may have landed.
PromptLost ==
    /\ phase = "prompt"
    /\ phase' = "failed"
    /\ file' = FALSE
    /\ \/ agent' = [agent EXCEPT !.is = "gone"]
       \/ UNCHANGED agent
    /\ \/ interactive /\ Landed
       \/ UNCHANGED told
    /\ UNCHANGED <<plan, attempt, name, budget, captured>>

----------------------------------------------------------------------------
\* Bounded probes for an id that is the agent's own; anything else is no id.
Capture ==
    /\ \/ phase = "capture"
       \/ phase = "handover" /\ plan.kind \in CapturesLate /\ ~Reused /\ captured = NoId
    /\ phase' = IF phase = "handover" THEN "launched"
                ELSE IF plan.prompt THEN "prompt" ELSE "handover"
    /\ \/ captured' = IF agent.id = Own /\ agent.is # "gone" THEN Own ELSE NoId
       \/ captured' = NoId
    /\ file' = FALSE
    /\ UNCHANGED <<plan, attempt, name, budget, agent, told>>

HandOver ==
    /\ phase = "handover"
    /\ plan.kind \notin CapturesLate \/ Reused
    /\ phase' = "launched"
    /\ file' = FALSE
    /\ UNCHANGED <<plan, attempt, name, budget, agent, told, captured>>

----------------------------------------------------------------------------
(* Herdr, the agent and the person, outside the daemon *)

\* The program comes up, reads the file it was started with, and is interactive.
Boots ==
    /\ agent.is = "starting"
    /\ agent' = [agent EXCEPT !.is = "ready"]
    /\ told' = [told EXCEPT !.system = IF file THEN @ + 1 ELSE @]
    /\ UNCHANGED <<plan, phase, attempt, name, budget, file, captured>>

\* The integration reports who it is; some only after the first prompt.
ReportsSession ==
    /\ interactive /\ agent.id = NoId
    /\ plan.kind \in CapturesLate /\ plan.prompt => told.task > 0
    /\ \E id \in {Own, Foreign} : agent' = [agent EXCEPT !.id = id]
    /\ UNCHANGED <<plan, phase, attempt, name, budget, file, told, captured>>

\* A turn ends, or the person begins one.
Turns ==
    /\ interactive
    /\ agent' = [agent EXCEPT !.turn = IF @ = "idle" THEN "working" ELSE "idle"]
    /\ UNCHANGED <<plan, phase, attempt, name, budget, file, told, captured>>

Closes ==
    /\ agent.is # "gone"
    /\ agent' = [agent EXCEPT !.is = "gone"]
    /\ UNCHANGED <<plan, phase, attempt, name, budget, file, told, captured>>

LaunchNext ==
    \/ Place
    \/ StartAccepted \/ StartBusy \/ NameTaken \/ PaneNotFound \/ StartLost
    \/ AwaitInteractive \/ AwaitReuse \/ AwaitSession
    \/ PromptAccepted \/ PromptBusy \/ PromptLost
    \/ Capture \/ HandOver
    \/ Boots \/ ReportsSession \/ Turns \/ Closes

LaunchSpec == LaunchInit /\ [][LaunchNext]_launchVars

----------------------------------------------------------------------------
LaunchTypeOK ==
    /\ plan \in Plans
    /\ phase \in {"place", "start", "ready", "reuse", "session", "capture",
                  "prompt", "handover", "launched", "failed"}
    /\ attempt \in 1..2
    /\ name \in {"primary", "fallback"}
    /\ budget \in [start : 0..StartRetries, prompt : 0..PromptRetries]
    /\ file \in BOOLEAN
    /\ agent \in [is : {"shell", "starting", "ready", "gone"},
                  turn : {"idle", "working"}, id : {NoId, Own, Foreign}]
    /\ told.system \in 0..2 /\ told.task \in 0..2
    /\ captured \in {NoId, Own}

\* What the agent must have received when the launch succeeded.
Expected ==
    [system |-> IF Reused THEN 0
                ELSE IF plan.kind \in FileKinds \/ plan.mint THEN 1 ELSE 0,
     task   |-> IF plan.prompt THEN 1 ELSE 0]

\* managed.rs agent_prompt_with_busy_retry: "without retry to avoid duplicate
\* delivery of a prompt that may have landed."  Whatever is refused, lost or
\* retried, the agent never gets the task or its instructions twice, and a
\* launch that succeeds has delivered each exactly when the plan asks for it.
ToldOnce ==
    /\ told.system <= 1 /\ told.task <= 1
    /\ phase = "launched" => told = Expected
=============================================================================

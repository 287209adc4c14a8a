----------------------------- MODULE WorkflowRun -----------------------------
(***************************************************************************)
(* The frozen contract of a workflow run (workflow_run.cpp): its states,   *)
(* the transition table, how a run maps onto the task that carries it, and *)
(* what a definition and a policy must satisfy before a run is made.       *)
(***************************************************************************)
EXTENDS Naturals, Sequences

TerminalRun == {"Completed", "Failed", "Cancelled"}
RunStates == {"Created", "Running", "Paused", "WaitingUser", "WaitingAgent"}
               \cup TerminalRun

(* Mutant: a finished run may be restarted. *)
RunSuccessors_Revive ==
  [ Created      |-> {"Running", "Cancelled"},
    Running      |-> {"Paused", "WaitingUser", "WaitingAgent"} \cup TerminalRun,
    Paused       |-> {"Running", "Cancelled"},
    WaitingUser  |-> {"Running", "Cancelled"},
    WaitingAgent |-> {"Running", "WaitingUser", "Failed", "Cancelled"},
    Completed    |-> {"Cancelled"}, Failed |-> {"Cancelled"}, Cancelled |-> {} ]

RunSuccessors ==
  [ Created      |-> {"Running", "Cancelled"},
    Running      |-> {"Paused", "WaitingUser", "WaitingAgent"} \cup TerminalRun,
    Paused       |-> {"Running", "Cancelled"},
    WaitingUser  |-> {"Running", "Cancelled"},
    WaitingAgent |-> {"Running", "WaitingUser", "Failed", "Cancelled"},
    Completed    |-> {}, Failed |-> {}, Cancelled |-> {} ]

valid_workflow_run_transition(from, to) == to \in RunSuccessors[from]

\* The transition, applied to anything that has the fields of a run view (a
\* decision is a number, 0 when none is pending). A terminal state answers its
\* own repetition with a NoOp and nothing else.
apply_workflow_run_transition(view, target) ==
  IF valid_workflow_run_transition(view.state, target)
    THEN [status |-> "Applied",
          view   |-> [view EXCEPT !.state = target, !.epoch = @ + 1,
                        !.decision = IF view.state = "WaitingUser" THEN 0 ELSE @]]
    ELSE [status |-> IF view.state \in TerminalRun /\ view.state = target
                       THEN "NoOpTerminal" ELSE "Rejected",
          view   |-> view]

\* The task outcome a settled run asks for.
task_state_for_run_state(state) ==
  CASE state = "Created" -> "Idle"
    [] state = "Running" -> "Acting"
    [] state \in {"Paused", "WaitingUser"} -> "Paused"
    [] state = "WaitingAgent" -> "Recovering"
    [] OTHER -> state

-----------------------------------------------------------------------------
(* Policies and definitions. *)

Policies == {"Strict", "DryRun", "Interactive", "Recoverable", "AgentAssisted"}
workflow_policy_allows_agent(policy) ==
  policy \in {"Recoverable", "AgentAssisted", "Interactive"}
workflow_policy_dispatches_side_effects(policy) == policy # "DryRun"

\* Decoding accepts a definition whose control jumps go back to a loop head,
\* whose fallbacks go forward, and whose default policy is allowed and able to
\* run its hooks.
valid_definition(def) ==
  /\ Len(def.steps) > 0
  /\ def.policy \in def.allowed
  /\ \A i \in DOMAIN def.steps :
       LET step == def.steps[i]
       IN  /\ step.kind = "Control" => step.goto \in 1 .. (i - 1) /\ def.steps[step.goto].head
           /\ step.hook = "Fallback" => step.goto \in (i + 1) .. Len(def.steps)
           /\ step.hook = "Agent" => workflow_policy_allows_agent(def.policy)

validate_workflow_policy_compatibility(def, policy) ==
  /\ policy \in def.allowed
  /\ \/ workflow_policy_allows_agent(policy)
     \/ \A i \in DOMAIN def.steps : def.steps[i].hook # "Agent"

=============================================================================

----------------------------- MODULE MCWorkflow -----------------------------
(* A workflow run, the recovery of runs, or what a run leaves in memory, on  *)
(* small instances. The three share no state: a behaviour moves one part and *)
(* leaves the others as they began, so the state space is their sum.         *)
EXTENDS Workflow

CONSTANTS r1, r2, p1, p2, p3, h1, h2
VARIABLES part, view, orch, pipe, caller,
          facts, settle, known, asking, memory, audit, clock, closed

-----------------------------------------------------------------------------
(* The run: six definitions, each with two callers that create, start, pause, *)
(* resume, cancel, patch, decide or shut down while the drive works.          *)

Step_(kind, hook) ==
  [kind |-> kind, hook |-> hook, effects |-> FALSE, pre |-> FALSE, ver |-> TRUE, args |-> "lit",
   goto |-> 0, head |-> FALSE, iterations |-> 1, max_attempts |-> 2, max_retries |-> 1]
Call_(hook) == [Step_("ToolCall", hook) EXCEPT !.effects = TRUE]
Parameter == [p |-> [default |-> "none", required |-> FALSE]]
Definition(policy, steps) ==
  [steps |-> steps, policy |-> policy, allowed |-> {policy, "DryRun"}, params |-> Parameter]
Load(def, calls, faults) ==
  [def |-> def, faults |-> faults, proposal |-> << Entry("step", "Skip", 1, "none") >>,
   calls |-> [calls EXCEPT !.a =
     << [op |-> "create", policy |-> def.policy], [op |-> "start", async |-> TRUE] >> \o @]]
Do(op) == [op |-> op]
Answer(how) == [op |-> "resolve", how |-> how]
Command(target) == [op |-> "task", target |-> target]
Patch(id, entries) ==
  [op |-> "patch", patch |-> [id |-> id, entries |-> entries, confirmed |-> FALSE]]
Undo(n) == [op |-> "rollback", nth |-> n]

StrictLoad ==
  Load(Definition("Strict", << [Call_("Retry") EXCEPT !.pre = TRUE], Step_("Verify", "None") >>),
       [a |-> << Do("pause"), Do("resume") >>, b |-> << Do("cancel") >>], FALSE)
DecisionLoad ==
  Load(Definition("Interactive", << Call_("None") >>),
       [a |-> << Answer("accept"), Answer("cancel") >>, b |-> << Do("input"), Answer("reject") >>], FALSE)
PatchLoad ==
  Load(Definition("Interactive", << Call_("None") >>),
       [a |-> << Do("pause"), Patch("x", << Entry("step", "Set", 1, "lit2") >>), Undo(1) >>,
        b |-> << Patch("y", << Entry("param", "Set", "p", "v"), Entry("step", "Skip", 1, "none") >>) >>],
       FALSE)
AgentLoad ==
  Load(Definition("AgentAssisted", << Step_("Verify", "None"), Call_("Agent") >>),
       [a |-> << Do("resume"), Do("resume") >>,
        b |-> << Patch("y", << Entry("policy", "Set", "policy", "DryRun") >>) >>], FALSE)
LoopLoad ==
  Load(Definition("Recoverable", << [Step_("Navigate", "Fallback") EXCEPT !.goto = 3, !.head = TRUE],
                                    [Step_("Control", "None") EXCEPT !.goto = 1],
                                    Step_("Verify", "None") >>),
       [a |-> << Command("SuspendedForTakeover"), Command("Observing"), Do("resume") >>,
        b |-> << Command("Cancelled") >>], FALSE)
ShutLoad ==
  Load(Definition("Strict", << [Call_("Fallback") EXCEPT !.goto = 2], Step_("Verify", "None") >>),
       [a |-> << Do("pause"), Do("resume") >>, b |-> << Do("shutdown"), Do("shutdown") >>], TRUE)
MCLoads == {StrictLoad, DecisionLoad, PatchLoad, AgentLoad, LoopLoad, ShutLoad}

-----------------------------------------------------------------------------
(* Recovery: two runs that wait for the agent, three ways to ask for help.    *)

On(op, r) == [op |-> op, run |-> r]
MCScripts ==
  {[a |-> << On("start", r1), On("start", r1) >>, b |-> << On("cancel", r1) >>],
   [a |-> << On("attempt", r1), On("attempt", r2) >>, b |-> << >>],
   [a |-> << On("start", r1) >>, b |-> << On("attempt", r1), On("shutdown", r1) >>]}
Recovery == INSTANCE WorkflowRecovery WITH
  Runs <- {r1, r2}, Pipes <- {p1, p2, p3}, Scripts <- MCScripts, MaxAttempts <- 1,
  MaxConcurrent <- 2, MaxTracked <- 1, MaxRepairs <- 1,
  MaxEpoch <- [r \in {r1, r2} |-> IF r = r1 THEN 3 ELSE 1]
recoveryVars == <<view, orch, pipe, caller>>

-----------------------------------------------------------------------------
(* Learning: every way a run can end, two hosts that ask for its lesson. A    *)
(* run escalates only after a failure and is patched only after escalating.   *)

MCFacts ==
  {f \in [outcome : TerminalRun, policy : {"Strict", "DryRun"}, escalations : {0, 1},
           step : {0, 1}, reason : {"code", "text"}, patches : {<< >>, <<1, 2>>},
           audited : BOOLEAN] :
     (f.escalations > 0 => f.step = 1) /\ (f.patches # << >> => f.escalations > 0)}
Learning == INSTANCE WorkflowLearning WITH
  Hosts <- {h1, h2}, RunFacts <- MCFacts, MaxActions <- 1, MaxClock <- 2, caller <- asking
learningVars == <<facts, settle, known, asking, memory, audit, clock, closed>>

-----------------------------------------------------------------------------
WorkflowInit ==
  /\ part \in {"run", "recovery", "learning"}
  /\ Init /\ Recovery!RecoveryInit /\ Learning!Init
  /\ part # "run" => load = StrictLoad
  /\ part # "recovery" => Len(caller["b"].todo) = 0
  /\ part # "learning" =>
       facts = [outcome |-> "Completed", policy |-> "Strict", escalations |-> 0, step |-> 0,
                reason |-> "code", patches |-> << >>, audited |-> TRUE]

WorkflowNext ==
  \/ part = "run" /\ Next /\ UNCHANGED <<part, recoveryVars, learningVars>>
  \/ part = "recovery" /\ Recovery!RecoveryNext /\ UNCHANGED <<part, vars, learningVars>>
  \/ part = "learning" /\ Learning!Next /\ UNCHANGED <<part, vars, recoveryVars>>

\* Threads that can run do run: the executor runs every drive and pipeline it
\* accepted, and a caller inside a call goes on. No promise is made for hosts that
\* move runs from outside.
Working ==
  \/ /\ part = "run" /\ UNCHANGED <<part, recoveryVars, learningVars>>
     /\ (\E d \in Drives : DriveStep(d)) \/ (\E c \in Callers : CallerStep(c))
  \/ /\ part = "recovery" /\ UNCHANGED <<part, vars, learningVars>>
     /\ \/ \E p \in {p1, p2, p3} : Recovery!PipeStep(p)
        \/ \E c \in {"a", "b"} : Recovery!RecoveryCall(c)
  \/ part = "learning" /\ Learning!Next /\ UNCHANGED <<part, vars, recoveryVars>>

allVars == <<part, vars, recoveryVars, learningVars>>
WorkflowSpec == WorkflowInit /\ [][WorkflowNext]_allVars /\ WF_allVars(Working)

-----------------------------------------------------------------------------
(* Properties. *)

\* At most one attempt per run, and a bounded number of them (WorkflowRecovery).
OneAttemptPerRun == Recovery!OneAttemptPerRun

\* What a run left in memory is readable and true (WorkflowLearning).
ExperienceIsTrue == Learning!ExperienceIsTrue

\* Everything asked of the workflow runtime, of recovery and of learning comes to
\* an end: drives stop or park, calls return, attempts settle.
WorkSettles ==
  <>[]CASE part = "run" -> Quiet
        [] part = "recovery" -> Recovery!RecoveryQuiet
        [] part = "learning" -> Learning!LearningQuiet

\* What a comment of the transition table says of a run that waits for the user:
\* it has a pending decision point.
WaitingHasDecision == run.state = "WaitingUser" => run.decision # 0

=============================================================================

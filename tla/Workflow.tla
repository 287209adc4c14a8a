------------------------------ MODULE Workflow ------------------------------
(***************************************************************************)
(* The workflow runtime (workflow_runtime.cpp) around one run: the drive   *)
(* that executes its steps, the callers that create, start, pause, resume, *)
(* cancel and patch it, raise and resolve decisions and shut the runtime   *)
(* down, and the task of MiraRuntime that carries it.                      *)
(*                                                                         *)
(* mutex_ is a leaf lock: it is released before every command, event and   *)
(* host call.  An action is one critical section or one such call; the     *)
(* program counters of proc name the places in between, where others run.  *)
(* Predicates, tools and observations answer anything they can answer.     *)
(***************************************************************************)
EXTENDS WorkflowRun, Lifecycle, Integers, FiniteSets, Functions

CONSTANTS
  Loads,          \* workloads: a definition, what the callers do, which faults
  MaxActive,      \* max_active_runs
  MaxAsync,       \* max_concurrent_async_drives
  MaxExecutions,  \* max_step_executions_per_run
  MaxPending,     \* max_pending_patches_per_run
  MaxApplied,     \* max_applied_patches_per_run
  MaxEscalations  \* max_escalations_per_run

\* A workload makes its run once, the model follows one run; its callers are not
\* drives, and a host answers a decision in one of the three ways there are.
WorkOf(l) == UNION {Range(l.calls[c]) : c \in DOMAIN l.calls}
ASSUME LoadsAssumption ==
  \A l \in Loads :
    /\ DOMAIN l.calls \cap {"d1", "d2"} = {}
    /\ \A c \in DOMAIN l.calls : l.calls[c] \in Seq(WorkOf(l))
    /\ \A o \in WorkOf(l) : /\ o.op = "resolve" => o.how \in {"accept", "reject", "cancel"}
                            /\ o.op = "start" => o.async \in BOOLEAN
    /\ \A c1, c2 \in DOMAIN l.calls :
         \A i \in 1 .. Len(l.calls[c1]), j \in 1 .. Len(l.calls[c2]) :
           l.calls[c1][i].op = "create" /\ l.calls[c2][j].op = "create" => c1 = c2 /\ i = j
ASSUME ActiveAssumption == MaxActive \in Nat

-----------------------------------------------------------------------------
(* The patch plane as functions of a run's effective state: what a patch   *)
(* does to the parameters, the step overrides, the skipped steps and the   *)
(* policy (apply_patch), and which entries a rollback is made of. A value  *)
(* is "none" (absent), "ref" (arguments that refer to the first parameter),*)
(* "stale" (arguments naming a tool the registry does not have) or any     *)
(* other literal.                                                          *)

Entry(target, op, path, value) ==
  [target |-> target, op |-> op, path |-> path, value |-> value]

\* The effective state of a run at creation.
Effective(def, policy) ==
  [param |-> [n \in DOMAIN def.params |-> def.params[n].default], policy |-> policy,
   over |-> [i \in DOMAIN def.steps |-> "none"], skipped |-> {}]

\* Unset parameters take their default; a required one must have a value.
bind_workflow_parameters(def, param) ==
  [n \in DOMAIN def.params |->
     IF param[n] = "none" THEN def.params[n].default ELSE param[n]]
Bindable(def, param) ==
  \A n \in DOMAIN def.params :
    def.params[n].required => bind_workflow_parameters(def, param)[n] # "none"

\* Arguments resolve under the bindings, and under a dispatching policy the
\* tool they name is registered (resolve_step_arguments, check_tool_arguments).
Resolvable(def, param, policy, i, arguments) ==
  def.steps[i].kind \in {"ToolCall", "Navigate"} =>
    /\ arguments = "ref" => param["p"] # "none"
    /\ def.steps[i].kind = "ToolCall" /\ workflow_policy_dispatches_side_effects(policy)
         => arguments # "stale"

\* A path names a declared parameter or step; a policy is in the allowed set.
KnownTarget(def, entry) ==
  CASE entry.target = "param"  -> entry.path \in DOMAIN def.params
    [] entry.target = "step"   -> entry.path \in DOMAIN def.steps
    [] entry.target = "policy" -> entry.value \in def.allowed

Params(def, eff, entries) ==
  LET of(target) == SelectSeq(entries, LAMBDA e : e.target = target)
      mine == of("param")
      after[k \in 0 .. Len(mine)] ==
        IF k = 0 THEN eff.param
        ELSE [after[k - 1] EXCEPT ![mine[k].path] =
                IF mine[k].op = "Set" THEN mine[k].value ELSE "none"]
  IN  after[Len(mine)]

\* One step entry on [ok, over, skipped]. Unset clears both the override and
\* the skip mark and falls back to the definition's arguments.
StepEntry(def, param, policy, st, e) ==
  CASE e.op = "Skip"  -> [st EXCEPT !.skipped = @ \cup {e.path}]
    [] e.op = "Unset" -> [ok |-> st.ok /\ Resolvable(def, param, policy, e.path,
                                                     def.steps[e.path].args),
                          over |-> [st.over EXCEPT ![e.path] = "none"],
                          skipped |-> st.skipped \ {e.path}]
    [] e.op = "Set"   -> [st EXCEPT !.ok = @ /\ Resolvable(def, param, policy, e.path, e.value),
                                    !.over[e.path] = e.value]

\* The whole patch: targets first, then parameters with one rebinding pass,
\* then step entries in order, the policy last; any failure rejects it all.
Patched(def, eff, entries) ==
  LET changed == \E k \in DOMAIN entries : entries[k].target = "param"
      given   == Params(def, eff, entries)
      param   == IF changed THEN bind_workflow_parameters(def, given) ELSE eff.param
      steps   == SelectSeq(entries, LAMBDA e : e.target = "step")
      after[k \in 0 .. Len(steps)] ==
        IF k = 0 THEN [ok |-> TRUE, over |-> eff.over, skipped |-> eff.skipped]
        ELSE StepEntry(def, param, eff.policy, after[k - 1], steps[k])
      last    == after[Len(steps)]
      policy  == SelectSeq(entries, LAMBDA e : e.target = "policy")
  IN  IF ~ \A k \in DOMAIN entries : KnownTarget(def, entries[k])
        THEN [ok |-> FALSE, eff |-> eff]
      ELSE IF changed /\ ~(/\ Bindable(def, given)
                           /\ \A i \in DOMAIN def.steps : eff.over[i] = "none" =>
                                Resolvable(def, param, eff.policy, i, def.steps[i].args))
        THEN [ok |-> FALSE, eff |-> eff]
      ELSE IF ~last.ok
        THEN [ok |-> FALSE, eff |-> eff]
      ELSE [ok  |-> TRUE,
            eff |-> [param |-> param, over |-> last.over, skipped |-> last.skipped,
                     policy |-> IF policy = << >> THEN eff.policy ELSE policy[Len(policy)].value]]

\* The difference between the current state and a boundary, as entries. The
\* step entries come in the order of the code: overrides to drop or change,
\* overrides to bring back, skips to lift, skips to bring back.
rollback_entries(def, eff, boundary) ==
  LET differ == {n \in DOMAIN def.params : eff.param[n] # boundary.param[n]}
      names == CHOOSE s \in [1 .. Cardinality(differ) -> differ] : Range(s) = differ
      steps(P(_)) == SelectSeq([i \in DOMAIN def.steps |-> i], P)
      unset(i) == Entry("step", "Unset", i, "none")
      set(i)   == IF boundary.over[i] = "none" THEN unset(i)
                  ELSE Entry("step", "Set", i, boundary.over[i])
      each(s, F(_)) == [k \in DOMAIN s |-> F(s[k])]
  IN  each(names, LAMBDA n : IF boundary.param[n] = "none"
                               THEN Entry("param", "Unset", n, "none")
                               ELSE Entry("param", "Set", n, boundary.param[n]))
      \o (IF eff.policy = boundary.policy THEN << >>
          ELSE << Entry("policy", "Set", "policy", boundary.policy) >>)
      \o each(steps(LAMBDA i : eff.over[i] # "none" /\ eff.over[i] # boundary.over[i]), set)
      \o each(steps(LAMBDA i : eff.over[i] = "none" /\ boundary.over[i] # "none"), set)
      \o each(steps(LAMBDA i : i \in eff.skipped \ boundary.skipped), unset)
      \o each(steps(LAMBDA i : i \in boundary.skipped \ eff.skipped),
              LAMBDA i : Entry("step", "Skip", i, "none"))

-----------------------------------------------------------------------------
(* The runtime. *)

VARIABLES
  load,     \* the workload of this behaviour
  run,      \* the RunRecord
  task,     \* the state of the carrier task
  table,    \* accepting_, shut_down_, active_runs_, async_drives_; rest counts
            \* the other runs of the table
  proc      \* the drives and the callers

vars == <<load, run, task, table, proc>>

Drives == {"d1", "d2"}
Callers == DOMAIN load.calls
Def == load.def
Step == Def.steps[run.cursor]
Verdicts == {"Satisfied", "NotSatisfied", "NotEvaluable"}

NoRequest == [kind |-> "none", proposal |-> << >>]
NoPatch == [id |-> "none", entries |-> << >>, confirmed |-> FALSE]
NoNew == [ok |-> FALSE, eff |-> Effective(Def, Def.policy)]
NoProc == [pc |-> "none", ret |-> "none", wd |-> FALSE, fresh |-> FALSE, prev |-> 0,
           async |-> FALSE, queue |-> << >>, patch |-> NoPatch, new |-> NoNew,
           target |-> "none", seen |-> 0, edges |-> 0, todo |-> << >>]

\* state, epoch and decision are the WorkflowRunView; unsure records a side
\* effect that was cut short and is not resolved yet.
NoRun ==
  [state |-> "Absent", epoch |-> 0, decision |-> 0, request |-> NoRequest,
   eff |-> Effective(Def, Def.policy), queue |-> << >>, applied |-> << >>, patch_epoch |-> 0,
   cursor |-> 1, attempts |-> [i \in DOMAIN Def.steps |-> 0],
   retries |-> [i \in DOMAIN Def.steps |-> 0], jumps |-> [i \in DOMAIN Def.steps |-> 0],
   executions |-> 0, escalations |-> 0, interrupted |-> FALSE, active |-> FALSE, unsure |-> 0]

Init ==
  /\ load \in Loads /\ valid_definition(load.def)
  /\ run = NoRun
  /\ task = "Absent"
  /\ table = [accepting |-> TRUE, shut |-> FALSE, active |-> 0, async |-> 0, rest |-> 0]
  /\ proc = [p \in Drives \cup Callers |->
               IF p \in Drives THEN NoProc
               ELSE [NoProc EXCEPT !.pc = "idle", !.todo = load.calls[p]]]

-----------------------------------------------------------------------------
(* Shared by the drive and the callers. *)

At(p, pc) == proc[p].pc = pc
Go(p, pc) == proc' = [proc EXCEPT ![p].pc = pc]
Return(c) == Go(c, "idle")

\* task_withdrawn and task_pause_family.
PauseFamily == {"Pausing", "Paused", "TakeoverSettling", "SuspendedForTakeover"}
Withdrawn == PauseFamily \cup {"Cancelling", "Cancelled", "Completed", "Failed"}

\* The control commands of MiraRuntime on the carrier, each atomic.
Reaches(state, target) ==
  \/ valid_task_transition(state, target)
  \/ target = "Paused" /\ valid_task_transition(state, "Pausing")
  \/ target = "Cancelled" /\ valid_task_transition(state, "Cancelling")
  \/ target = "SuspendedForTakeover" /\ valid_task_transition(state, "TakeoverSettling")
Commanded(target) == IF Reaches(task, target) THEN target ELSE task
Completed(outcome) ==
  IF task \notin TerminalTask /\ task_state_path_exists(task, outcome) THEN outcome ELSE task

CanCommit(target) == valid_workflow_run_transition(run.state, target)
Committed(target) ==
  [apply_workflow_run_transition(run, target).view EXCEPT
     !.request = IF run.state = "WaitingUser" THEN NoRequest ELSE @]


\* The first half of settle_terminal: commit and give the slot back; a commit
\* the table rejects leaves everything alone. close follows.
settle_terminal(p, outcome, k) ==
  IF CanCommit(outcome)
    THEN /\ run' = Committed(outcome)
         /\ table' = [table EXCEPT !.active = @ - 1]
         /\ proc' = [proc EXCEPT ![p].pc = "close", ![p].target = outcome, ![p].ret = k]
    ELSE Go(p, k) /\ UNCHANGED <<run, table>>

\* The second half: the carrier task follows through the control plane.
close(p) ==
  /\ At(p, "close")
  /\ task' = IF proc[p].target = "Cancelled" THEN Commanded("Cancelled")
             ELSE Completed(task_state_for_run_state(proc[p].target))
  /\ proc' = [proc EXCEPT ![p].pc = proc[p].ret, ![p].target = "none", ![p].ret = "none"]
  /\ UNCHANGED <<load, run, table>>

\* apply_patch: a first lock read the effective state (new is what validation
\* made of it), this one records the boundary and installs the result.

patch_write(p) ==
  /\ At(p, "write")
  /\ LET accepted == proc[p].new.ok /\ Len(run.applied) < MaxApplied
         failed   == IF p \in Drives THEN "drain" ELSE "idle"
     IN  /\ run' = IF ~accepted THEN run
                   ELSE [run EXCEPT
                           !.applied = Append(@, [id |-> proc[p].patch.id, eff |-> run.eff]),
                           !.eff = proc[p].new.eff, !.patch_epoch = @ + 1]
         /\ proc' = [proc EXCEPT ![p].pc = IF accepted THEN proc[p].ret ELSE failed,
                       ![p].ret = "none", ![p].patch = NoPatch, ![p].new = NoNew]
  /\ UNCHANGED <<load, task, table>>

\* escalate_waiting_user: stage the decision, commit WaitingUser, pause the
\* carrier. A rejected commit takes the staged decision back.
stage(p, kind, proposal) ==
  run' = [run EXCEPT !.escalations = @ + 1, !.decision = run.escalations + 1,
                     !.request = [kind |-> kind, proposal |-> proposal]]

raise(p) ==
  /\ At(p, "raise")
  /\ IF CanCommit("WaitingUser")
       THEN run' = Committed("WaitingUser") /\ Go(p, "park")
       ELSE /\ run' = [run EXCEPT !.decision = 0, !.request = NoRequest]
            /\ Go(p, IF p \in Drives THEN "giveup" ELSE "idle")
  /\ UNCHANGED <<load, task, table>>

park(p) ==
  /\ At(p, "park")
  /\ task' = Commanded("Paused")
  /\ Go(p, IF p \in Drives THEN "fin" ELSE "idle")
  /\ UNCHANGED <<load, run, table>>
-----------------------------------------------------------------------------
(* WorkflowRuntime::drive. *)

drive_begin(d) ==
  /\ At(d, "begin")
  /\ IF run.state = "Created"
       THEN /\ run' = Committed("Running")
            /\ proc' = [proc EXCEPT ![d].pc = "snap", ![d].fresh = TRUE]
       ELSE Go(d, "top") /\ UNCHANGED run
  /\ UNCHANGED <<load, task, table>>

\* A fresh drive reads the carrier and resumes it if it was idle.
drive_snap(d) ==
  /\ At(d, "snap")
  /\ Go(d, IF task = "Idle" THEN "wake" ELSE "top")
  /\ UNCHANGED <<load, run, task, table>>

drive_wake(d) ==
  /\ At(d, "wake")
  /\ task' = Commanded("Observing")
  /\ Go(d, "top")
  /\ UNCHANGED <<load, run, table>>

\* One poll of the withdrawal monitor, between drive's start and its exit.
withdrawal_tick(d) ==
  /\ proc[d].pc \notin {"none", "begin", "snap", "wake", "fin"}
  /\ ~proc[d].wd /\ task \in Withdrawn
  /\ proc' = [proc EXCEPT ![d].wd = TRUE]
  /\ UNCHANGED <<load, run, task, table>>

\* The loop head: leave when the view moved off Running, else take the queue.
drive_top(d) ==
  /\ At(d, "top")
  /\ IF run.state # "Running"
       THEN Go(d, "fin") /\ UNCHANGED run
       ELSE /\ proc' = [proc EXCEPT ![d].pc = "drain", ![d].queue = run.queue]
            /\ run' = [run EXCEPT !.queue = << >>]
  /\ UNCHANGED <<load, task, table>>

drain_pending_patches(d) ==
  /\ At(d, "drain")
  /\ LET rest == [proc EXCEPT ![d].queue = Tail(@)]
         patch == Head(proc[d].queue)
     IN  proc' = IF proc[d].queue = << >> THEN [proc EXCEPT ![d].pc = "check"]
                 ELSE IF run.state \in TerminalRun THEN rest
                 ELSE [rest EXCEPT ![d].pc = "write", ![d].ret = "drain", ![d].patch = patch,
                                   ![d].new = Patched(Def, run.eff, patch.entries)]
  /\ UNCHANGED <<load, run, task, table>>

\* The step boundary: a withdrawal the monitor saw, the budget, the end, a
\* step a patch skips.
drive_check(d) ==
  /\ At(d, "check")
  /\ IF proc[d].wd /\ task \in PauseFamily
       THEN /\ run' = IF CanCommit("Paused") THEN Committed("Paused") ELSE run
            /\ Go(d, "fin") /\ UNCHANGED table
     ELSE IF proc[d].wd THEN settle_terminal(d, "Cancelled", "fin")
     ELSE IF run.executions >= MaxExecutions THEN settle_terminal(d, "Failed", "fin")
     ELSE IF run.cursor > Len(Def.steps) THEN settle_terminal(d, "Completed", "fin")
     ELSE IF run.cursor \in run.eff.skipped
       THEN run' = [run EXCEPT !.cursor = @ + 1] /\ Go(d, "top") /\ UNCHANGED table
     ELSE Go(d, "enter") /\ UNCHANGED <<run, table>>
  /\ UNCHANGED <<load, task>>

\* Precondition, then the checkpoint of AgentAssisted (each arrival of the
\* cursor hands off once), then the attempt.
drive_enter(d) ==
  /\ At(d, "enter")
  /\ \E verdict \in IF Step.pre THEN Verdicts ELSE {"Satisfied"} :
       LET entered == IF proc[d].prev = 0 THEN proc[d].fresh ELSE run.cursor # proc[d].prev
           handoff == entered /\ run.eff.policy = "AgentAssisted" /\ Step.hook = "Agent"
       IN  CASE verdict = "NotEvaluable" -> Go(d, "fail") /\ UNCHANGED run
             [] verdict = "NotSatisfied" ->
                  Go(d, "top") /\ run' = [run EXCEPT !.cursor = @ + 1]
             [] OTHER ->
                  /\ proc' = [proc EXCEPT ![d].pc = IF handoff THEN "agent" ELSE "exec",
                                          ![d].prev = run.cursor]
                  /\ run' = IF handoff THEN run
                            ELSE [run EXCEPT !.attempts[run.cursor] = @ + 1, !.executions = @ + 1]
  /\ UNCHANGED <<load, task, table>>

Advance(d) == run' = [run EXCEPT !.cursor = @ + 1] /\ Go(d, "top")

\* Control jumps, verifications and everything a DryRun does settle here; a
\* call that dispatches goes to the tool.
drive_exec(d) ==
  /\ At(d, "exec")
  /\ IF Step.kind = "Control"
       THEN IF run.jumps[run.cursor] + 1 > Step.iterations
              THEN Go(d, "fail") /\ UNCHANGED run
              ELSE /\ run' = [run EXCEPT !.jumps[run.cursor] = @ + 1, !.cursor = Step.goto]
                   /\ Go(d, "top")
     ELSE IF Step.kind # "Verify" /\ workflow_policy_dispatches_side_effects(run.eff.policy)
       THEN Go(d, IF Step.kind = "Navigate" THEN "route" ELSE "tool") /\ UNCHANGED run
     ELSE \E verdict \in IF Step.ver \/ Step.kind # "ToolCall" THEN Verdicts ELSE {"Satisfied"} :
            IF \/ verdict = "Satisfied"
               \/ verdict = "NotEvaluable" /\ run.eff.policy = "DryRun"
              THEN Advance(d)
              ELSE Go(d, "fail") /\ UNCHANGED run
  /\ UNCHANGED <<load, task, table>>

\* execute_navigate_step: plan a route from the screen as it is now, then one
\* dispatch and one arrival reading per edge. Every edge looks at the withdrawal
\* flag and counts against the execution budget of the run.
MaxEdges == 2
navigate_plan(d) ==
  /\ At(d, "route")
  /\ \/ Go(d, "fail")
     \/ \E n \in 0 .. MaxEdges : proc' = [proc EXCEPT ![d].pc = "edge", ![d].edges = n]
  /\ UNCHANGED <<load, run, task, table>>

navigate_edge(d) ==
  /\ At(d, "edge")
  /\ LET left(pc, n) == proc' = [proc EXCEPT ![d].pc = pc, ![d].edges = n]
         dispatched == [run EXCEPT !.executions = @ + 1]
     IN  IF proc[d].edges = 0
           THEN \/ Advance(d)
                \/ Step.ver /\ Go(d, "fail") /\ UNCHANGED run
         ELSE IF proc[d].wd
           THEN /\ \E r \in {run} \cup {x \in {dispatched} : x.executions <= MaxExecutions} :
                     run' = [r EXCEPT !.interrupted = TRUE]   \* before or during the dispatch
                /\ left("top", 0)
         ELSE IF run.executions >= MaxExecutions THEN left("fail", 0) /\ UNCHANGED run
         ELSE \/ run' = dispatched /\ left("edge", proc[d].edges - 1)
              \/ left("fail", 0) /\ run' \in {run, dispatched}
  /\ UNCHANGED <<load, task, table>>

\* dispatch_step. A tool reports Cancelled only when its probe said so: what it
\* did by then is unknown.
Effectful(i) == Def.steps[i].kind = "ToolCall" /\ Def.steps[i].effects

drive_tool(d) ==
  /\ At(d, "tool")
  /\ \/ /\ proc[d].wd /\ Go(d, "top")
        /\ run' = [run EXCEPT !.interrupted = TRUE,
                              !.unsure = IF Effectful(run.cursor) THEN run.cursor ELSE @]
     \/ Advance(d)
     \/ Go(d, "fail") /\ UNCHANGED run
  /\ UNCHANGED <<load, task, table>>

\* handle_step_failure: the step's own hook, then what the policy says.
Escalate(d) ==
  IF run.escalations >= MaxEscalations THEN settle_terminal(d, "Failed", "fin")
  ELSE /\ run' = [run EXCEPT !.escalations = @ + 1] /\ Go(d, "agent") /\ UNCHANGED table

handle_step_failure(d) ==
  /\ At(d, "fail")
  /\ LET i == run.cursor
         retry == /\ Step.hook = "Retry" /\ run.attempts[i] < Step.max_attempts
                  /\ run.retries[i] < Step.max_retries
     IN  IF retry
           THEN \/ /\ run' = [run EXCEPT !.retries[i] = @ + 1]
                   /\ Go(d, "top") /\ UNCHANGED table
                \/ Effectful(i) /\ settle_terminal(d, "Failed", "fin")
         ELSE IF Step.hook = "Fallback"
           THEN run' = [run EXCEPT !.cursor = Step.goto] /\ Go(d, "top") /\ UNCHANGED table
         ELSE IF Step.hook = "Agent" /\ workflow_policy_allows_agent(run.eff.policy)
           THEN Escalate(d)
         ELSE IF run.eff.policy = "Interactive"
           THEN IF run.escalations >= MaxEscalations THEN settle_terminal(d, "Failed", "fin")
                ELSE /\ stage(d, "StepFailure", << Entry("step", "Skip", i, "none") >>)
                     /\ Go(d, "raise") /\ UNCHANGED table
         ELSE IF workflow_policy_allows_agent(run.eff.policy) THEN Escalate(d)
         ELSE settle_terminal(d, "Failed", "fin")
  /\ UNCHANGED <<load, task>>

\* enter_waiting_agent; a rejected transition is followed by the attempt to
\* settle the run as Failed.
enter_waiting_agent(d) ==
  /\ At(d, "agent")
  /\ IF CanCommit("WaitingAgent") THEN run' = Committed("WaitingAgent") /\ Go(d, "recover")
     ELSE Go(d, "giveup") /\ UNCHANGED run
  /\ UNCHANGED <<load, task, table>>

begin_task_recovery(d) ==
  /\ At(d, "recover") /\ task' = Commanded("Recovering") /\ Go(d, "fin")
  /\ UNCHANGED <<load, run, table>>

drive_giveup(d) ==
  /\ At(d, "giveup") /\ settle_terminal(d, "Failed", "fin") /\ UNCHANGED <<load, task>>

\* The epilogue of start_run, execute_run and continue_run around drive.
drive_fin(d) ==
  /\ At(d, "fin")
  /\ run' = [run EXCEPT !.active = FALSE]
  /\ table' = [table EXCEPT !.async = IF proc[d].async THEN @ - 1 ELSE @]
  /\ proc' = [proc EXCEPT ![d] = NoProc]
  /\ UNCHANGED <<load, task>>

DriveStep(d) ==
  \/ drive_begin(d) \/ drive_snap(d) \/ drive_wake(d) \/ drive_top(d)
  \/ drain_pending_patches(d) \/ patch_write(d) \/ drive_check(d) \/ drive_enter(d)
  \/ drive_exec(d) \/ navigate_plan(d) \/ navigate_edge(d) \/ drive_tool(d)
  \/ handle_step_failure(d) \/ raise(d) \/ park(d)
  \/ enter_waiting_agent(d) \/ begin_task_recovery(d) \/ drive_giveup(d)
  \/ close(d) \/ drive_fin(d)
-----------------------------------------------------------------------------
(* The callers: hosts, the model's tools and MiraRuntime's own commands.     *)
(* A caller makes the calls of its todo list one after the other.            *)

Op(c) == Head(proc[c].todo)
Taken(c, pc) == [proc EXCEPT ![c].pc = pc, ![c].todo = Tail(@)]
Starting(c, op) == At(c, "idle") /\ proc[c].todo # << >> /\ Op(c).op = op
Known(c, op) == Starting(c, op) /\ run.state # "Absent"

\* create_run_locked: admission, the carrier task submitted outside the lock,
\* then the capacity once more before the record is inserted.
create_run(c) ==
  /\ Starting(c, "create")
  /\ LET policy == Op(c).policy
     IN  proc' = Taken(c, IF /\ validate_workflow_policy_compatibility(Def, policy)
                             /\ Bindable(Def, run.eff.param)
                             /\ \A i \in DOMAIN Def.steps :
                                  /\ Resolvable(Def, run.eff.param, policy, i, Def.steps[i].args)
                                  /\ Effectful(i) /\ policy # "DryRun" => Def.steps[i].ver
                             /\ table.accepting /\ table.active < MaxActive
                            THEN "submit_task" ELSE "idle")
  /\ run' = [run EXCEPT !.eff.policy = Op(c).policy]
  /\ UNCHANGED <<load, task, table>>

\* The submission may fail, or time out with the task made all the same.
create_submit(c) ==
  /\ At(c, "submit_task")
  /\ \/ task' = "Idle" /\ Go(c, "insert")
     \/ load.faults /\ task' \in {"Absent", "Idle"} /\ Return(c)
  /\ UNCHANGED <<load, run, table>>

create_insert(c) ==
  /\ At(c, "insert")
  /\ IF table.accepting /\ table.active < MaxActive
       THEN /\ run' = [run EXCEPT !.state = "Created"]
            /\ table' = [table EXCEPT !.active = @ + 1]
            /\ UNCHANGED task
       ELSE task' = Commanded("Cancelled") /\ UNCHANGED <<run, table>>
  /\ Return(c) /\ UNCHANGED load

\* Another run of the table is created or settles meanwhile.
others ==
  /\ load.faults
  /\ \/ /\ table.accepting /\ table.active < MaxActive
        /\ table' = [table EXCEPT !.active = @ + 1, !.rest = @ + 1]
     \/ /\ table.rest > 0
        /\ table' = [table EXCEPT !.active = @ - 1, !.rest = @ - 1]
  /\ UNCHANGED <<load, run, task, proc>>

\* start_run (asynchronous, bounded) and execute_run (on the caller's thread).
Launch(c, d, async) ==
  [proc EXCEPT ![c] = [@ EXCEPT !.pc = "idle"],
               ![d] = [NoProc EXCEPT !.pc = "begin", !.async = async]]
start_run(c) ==
  /\ Known(c, "start")
  /\ LET async == Op(c).async
         admitted == /\ table.accepting /\ ~run.active /\ run.state \notin TerminalRun
                     /\ async => table.async < MaxAsync
     IN  IF ~admitted THEN proc' = Taken(c, "idle") /\ UNCHANGED <<run, table>>
         ELSE \E d \in {x \in Drives : At(x, "none")} :
                /\ proc' = [Launch(c, d, async) EXCEPT ![c].todo = Tail(@)]
                /\ run' = [run EXCEPT !.active = TRUE]
                /\ table' = [table EXCEPT !.async = IF async THEN @ + 1 ELSE @]
  /\ UNCHANGED <<load, task>>

\* pause_run: pause the carrier, then wait for the drive to commit; without a
\* drive the caller commits. The wait is bounded.
pause_run(c) ==
  /\ Known(c, "pause")
  /\ proc' = Taken(c, IF table.accepting /\ run.state = "Running" THEN "pause" ELSE "idle")
  /\ UNCHANGED <<load, run, task, table>>
pause_task(c) ==
  /\ At(c, "pause") /\ task' = Commanded("Paused")
  /\ Go(c, IF Reaches(task, "Paused") THEN "pausing" ELSE "idle")
  /\ UNCHANGED <<load, run, table>>
pause_wait(c) ==
  /\ At(c, "pausing")
  /\ IF run.state \in {"Paused"} \cup TerminalRun THEN Return(c)
     ELSE IF run.active THEN Return(c)    \* the deadline
     ELSE Go(c, "pause_commit")
  /\ UNCHANGED <<load, run, task, table>>
pause_commit(c) ==
  /\ At(c, "pause_commit") /\ Return(c)
  /\ run' = IF CanCommit("Paused") THEN Committed("Paused") ELSE run
  /\ UNCHANGED <<load, task, table>>

\* cancel_run: cancel the carrier and settle the run unless its drive did; a
\* drive that does not come around in time is overtaken.
cancel_run(c) ==
  /\ Known(c, "cancel")
  /\ proc' = Taken(c, IF run.state \in TerminalRun THEN "idle" ELSE "cancel")
  /\ UNCHANGED <<load, run, task, table>>
cancel_task(c) ==
  /\ At(c, "cancel") /\ task' = Commanded("Cancelled") /\ Go(c, "cancelling")
  /\ UNCHANGED <<load, run, table>>
cancel_settle(c) ==
  /\ At(c, "cancelling") /\ settle_terminal(c, "Cancelled", "idle") /\ UNCHANGED <<load, task>>

\* A command another client of MiraRuntime gives the carrier: a pause, a
\* cancel, a takeover, its release.
task_command(c) ==
  /\ Known(c, "task") /\ task' = Commanded(Op(c).target) /\ proc' = Taken(c, "idle")
  /\ UNCHANGED <<load, run, table>>
-----------------------------------------------------------------------------
(* continue_run, behind resume_run and resolve_decision. *)

resume_run(c) ==
  /\ Known(c, "resume")
  /\ proc' = Taken(c, IF table.accepting /\ run.state \in {"Paused", "WaitingAgent"}
                        THEN "continue" ELSE "idle")
  /\ UNCHANGED <<load, run, task, table>>

\* A bounded wait for the previous drive, then the asynchronous capacity.
continue_run(c) ==
  /\ At(c, "continue")
  /\ Go(c, IF ~run.active /\ table.async < MaxAsync THEN "resume_task" ELSE "idle")
  /\ UNCHANGED <<load, run, task, table>>

\* A rejected resume is tolerated while the carrier is not withdrawn.
continue_task(c) ==
  /\ At(c, "resume_task")
  /\ task' = Commanded("Observing")
  /\ Go(c, IF Reaches(task, "Observing") \/ task \notin Withdrawn THEN "observe" ELSE "idle")
  /\ UNCHANGED <<load, run, table>>

continue_observe(c) ==
  /\ At(c, "observe")
  /\ \/ Go(c, "running") /\ UNCHANGED <<run, table>>
     \/ settle_terminal(c, "Failed", "idle")
  /\ UNCHANGED <<load, task>>

continue_commit(c) ==
  /\ At(c, "running")
  /\ IF CanCommit("Running")
       THEN run' = Committed("Running") /\ Go(c, IF run.interrupted THEN "mend" ELSE "launch")
       ELSE Return(c) /\ UNCHANGED run
  /\ UNCHANGED <<load, task, table>>


\* What to do with the step a withdrawal cut short: a patch may skip it, it may
\* be repeated if it has no side effects, its verification may show that it
\* happened, its fallback may replace it; otherwise the run fails.
resolve_interrupted_step(c) ==
  /\ At(c, "mend")
  /\ LET mended(cursor) == /\ run' = [run EXCEPT !.interrupted = FALSE, !.unsure = 0,
                                                  !.cursor = cursor]
                           /\ Go(c, "launch") /\ UNCHANGED table
         i == run.cursor
     IN  IF i > Len(Def.steps) THEN mended(i)
         ELSE IF i \in run.eff.skipped THEN mended(i + 1)
         ELSE IF ~workflow_policy_dispatches_side_effects(run.eff.policy) \/ ~Effectful(i)
           THEN mended(i)
         ELSE \/ mended(i + 1)
              \/ IF Step.hook = "Fallback" THEN mended(Step.goto)
                 ELSE IF CanCommit("Failed")
                   THEN /\ run' = [Committed("Failed") EXCEPT !.interrupted = FALSE]
                        /\ table' = [table EXCEPT !.active = @ - 1]
                        /\ proc' = [proc EXCEPT ![c].pc = "close", ![c].target = "Failed",
                                                ![c].ret = "idle"]
                 ELSE /\ run' = [run EXCEPT !.interrupted = FALSE]
                      /\ Return(c) /\ UNCHANGED table
  /\ UNCHANGED <<load, task>>

\* The executor takes the drive, or refuses it and the view goes back.
continue_launch(c) ==
  /\ At(c, "launch")
  /\ \/ \E d \in {x \in Drives : At(x, "none")} :
          /\ proc' = Launch(c, d, TRUE)
          /\ run' = [run EXCEPT !.active = TRUE]
          /\ table' = [table EXCEPT !.async = @ + 1]
     \/ /\ load.faults /\ Return(c) /\ UNCHANGED table
        /\ LET back == IF CanCommit("Paused") THEN Committed("Paused") ELSE run
           IN  run' = [back EXCEPT !.active = FALSE]
  /\ UNCHANGED <<load, task>>

-----------------------------------------------------------------------------
(* Patches and decisions. *)

patch_run(c) ==
  /\ Known(c, "patch")
  /\ proc' = [Taken(c, IF table.shut THEN "idle" ELSE "submit") EXCEPT ![c].patch = Op(c).patch]
  /\ UNCHANGED <<load, run, task, table>>

\* rollback_run_patch of the n-th applied patch, under a fresh patch id.
rollback_run_patch(c) ==
  /\ Known(c, "rollback")
  /\ LET n == Op(c).nth
         entries == IF n \in DOMAIN run.applied
                      THEN rollback_entries(Def, run.eff, run.applied[n].eff) ELSE << >>
     IN  proc' = [Taken(c, IF table.shut \/ entries = << >> THEN "idle" ELSE "submit") EXCEPT
                    ![c].patch = [id |-> "fresh", entries |-> entries, confirmed |-> FALSE]]
  /\ UNCHANGED <<load, run, task, table>>

\* submit_patch: replay, admission by policy and state, then the queue of a
\* running run or the direct application.
Replayed(id) ==
  /\ id # "fresh"
  /\ \/ \E k \in DOMAIN run.applied : run.applied[k].id = id
     \/ \E k \in DOMAIN run.queue : run.queue[k].id = id

submit_patch(c) ==
  /\ At(c, "submit")
  /\ LET patch == proc[c].patch
         k == IF patch.confirmed THEN "continue" ELSE "idle"
         admitted == /\ table.accepting /\ ~Replayed(patch.id)
                     /\ run.state \in {"Running", "Paused", "WaitingUser", "WaitingAgent"}
                     /\ \/ patch.confirmed \/ run.eff.policy = "Interactive"
                        \/ /\ run.state = "WaitingAgent"
                           /\ workflow_policy_allows_agent(run.eff.policy)
     IN  proc' = IF ~admitted \/ (run.state = "Running" /\ Len(run.queue) >= MaxPending)
                   THEN [proc EXCEPT ![c].pc = "idle", ![c].patch = NoPatch]
                 ELSE [proc EXCEPT ![c].ret = k,
                         ![c].pc = IF run.state = "Running" THEN "push" ELSE "read"]
  /\ UNCHANGED <<load, run, task, table>>

submit_queue(c) ==
  /\ At(c, "push")
  /\ run' = [run EXCEPT !.queue = Append(@, proc[c].patch)]
  /\ proc' = [proc EXCEPT ![c].pc = proc[c].ret, ![c].ret = "none", ![c].patch = NoPatch]
  /\ UNCHANGED <<load, task, table>>

apply_patch(c) ==
  /\ At(c, "read")
  /\ proc' = IF run.state \in TerminalRun
               THEN [proc EXCEPT ![c].pc = "idle", ![c].ret = "none", ![c].patch = NoPatch]
               ELSE [proc EXCEPT ![c].pc = "write",
                                 ![c].new = Patched(Def, run.eff, proc[c].patch.entries)]
  /\ UNCHANGED <<load, run, task, table>>

\* request_user_input raises an AgentPrompt on a running interactive run.
execute_user_input(c) ==
  /\ Known(c, "input")
  /\ proc' = Taken(c, IF /\ ~table.shut /\ run.state = "Running"
                         /\ run.eff.policy = "Interactive" /\ run.decision = 0
                        THEN "stage" ELSE "idle")
  /\ UNCHANGED <<load, run, task, table>>
input_stage(c) ==
  /\ At(c, "stage")
  /\ IF run.escalations >= MaxEscalations THEN Return(c) /\ UNCHANGED run
     ELSE stage(c, "AgentPrompt", load.proposal) /\ Go(c, "raise")
  /\ UNCHANGED <<load, task, table>>

\* A host reads the pending decision and answers it later.
pending_decision_request(c) ==
  /\ Known(c, "resolve")
  /\ proc' = [proc EXCEPT ![c].pc =
                 IF run.state = "WaitingUser" /\ run.request.kind # "none" THEN "answer" ELSE "idle",
                 ![c].seen = run.decision, ![c].target = Op(c).how, ![c].todo = Tail(@)]
  /\ UNCHANGED <<load, run, task, table>>

resolve_decision(c) ==
  /\ At(c, "answer")
  /\ LET pending == /\ table.accepting /\ run.state = "WaitingUser"
                    /\ run.decision # 0 /\ run.decision = proc[c].seen
     IN  proc' = [proc EXCEPT ![c].seen = 0, ![c].target = "none",
                    ![c].pc = IF ~pending THEN "idle" ELSE proc[c].target]
  /\ UNCHANGED <<load, run, task, table>>

\* Reject: the kind is read again; a failure decision goes back to Running and
\* fails from there, a prompt continues.
decision_reject(c) ==
  /\ At(c, "reject")
  /\ Go(c, IF run.request.kind \in {"StepFailure", "none"} THEN "activate" ELSE "continue")
  /\ UNCHANGED <<load, run, task, table>>
decision_activate(c) ==
  /\ At(c, "activate")
  /\ IF CanCommit("Running") THEN run' = Committed("Running") /\ Go(c, "refuse")
     ELSE Return(c) /\ UNCHANGED run
  /\ UNCHANGED <<load, task, table>>
decision_refuse(c) ==
  /\ At(c, "refuse") /\ settle_terminal(c, "Failed", "idle") /\ UNCHANGED <<load, task>>

\* Accept: the proposal is applied as a confirmed patch, then the run continues.
decision_accept(c) ==
  /\ At(c, "accept")
  /\ LET proposal == run.request.proposal
     IN  proc' = IF proposal = << >> THEN [proc EXCEPT ![c].pc = "continue"]
                 ELSE [proc EXCEPT ![c].pc = "submit",
                         ![c].patch = [id |-> "fresh", entries |-> proposal, confirmed |-> TRUE]]
  /\ UNCHANGED <<load, run, task, table>>
-----------------------------------------------------------------------------
(* shutdown: refuse new work, cancel the carriers, settle what no drive owns, *)
(* wait for the drives whose futures were there at the first lock.            *)

shutdown(c) ==
  /\ Starting(c, "shutdown")
  /\ proc' = [Taken(c, IF table.shut THEN "idle" ELSE "sh_cancel") EXCEPT
                ![c].target = IF run.state \in TerminalRun \cup {"Absent"} THEN "none" ELSE "live"]
  /\ table' = [table EXCEPT !.accepting = FALSE, !.shut = TRUE]
  /\ UNCHANGED <<load, run, task>>
shutdown_cancel(c) ==
  /\ At(c, "sh_cancel")
  /\ task' = IF proc[c].target = "live" THEN Commanded("Cancelled") ELSE task
  /\ proc' = [proc EXCEPT ![c].pc = "sh_settle", ![c].target = "none"]
  /\ UNCHANGED <<load, run, table>>
shutdown_settle(c) ==
  /\ At(c, "sh_settle")
  /\ IF run.active \/ run.state \in TerminalRun \cup {"Absent"}
       THEN Go(c, "sh_wait") /\ UNCHANGED <<run, table>>
       ELSE settle_terminal(c, "Cancelled", "sh_wait")
  /\ UNCHANGED <<load, task>>
shutdown_wait(c) ==    \* ready futures or the end of the budget
  /\ At(c, "sh_wait") /\ Return(c) /\ UNCHANGED <<load, run, task, table>>

CallerStep(c) ==
  \/ create_run(c) \/ create_submit(c) \/ create_insert(c) \/ start_run(c)
  \/ pause_run(c) \/ pause_task(c) \/ pause_wait(c) \/ pause_commit(c)
  \/ cancel_run(c) \/ cancel_task(c) \/ cancel_settle(c) \/ task_command(c)
  \/ resume_run(c) \/ continue_run(c) \/ continue_task(c) \/ continue_observe(c)
  \/ continue_commit(c) \/ resolve_interrupted_step(c) \/ continue_launch(c)
  \/ patch_run(c) \/ rollback_run_patch(c) \/ submit_patch(c) \/ submit_queue(c)
  \/ apply_patch(c) \/ patch_write(c) \/ execute_user_input(c) \/ input_stage(c)
  \/ raise(c) \/ park(c) \/ pending_decision_request(c) \/ resolve_decision(c)
  \/ decision_reject(c) \/ decision_activate(c) \/ decision_refuse(c) \/ decision_accept(c)
  \/ close(c) \/ shutdown(c) \/ shutdown_cancel(c) \/ shutdown_settle(c) \/ shutdown_wait(c)

Next ==
  \/ \E d \in Drives : DriveStep(d) \/ withdrawal_tick(d)
  \/ \E c \in Callers : CallerStep(c)
  \/ others

Spec == Init /\ [][Next]_vars

-----------------------------------------------------------------------------
(* Properties. *)

Quiet == (\A d \in Drives : At(d, "none"))
         /\ \A c \in Callers : At(c, "idle") /\ (proc[c].todo = << >> \/ run.state = "Absent")

\* Every variable keeps its type.
TypeOK ==
  /\ run.state \in RunStates \cup {"Absent"} /\ task \in TaskStates \cup {"Absent"}
  /\ run.epoch \in Nat /\ run.cursor \in 1 .. Len(Def.steps) + 1
  /\ run.executions \in 0 .. MaxExecutions /\ run.escalations \in 0 .. MaxEscalations
  /\ run.eff.policy \in Policies /\ Len(run.applied) <= MaxApplied
  /\ table.active \in Nat /\ table.async \in Nat

\* The counters of the run table are exact at every step: a run holds one slot
\* from its insertion until it settles, whoever settles it and however often
\* that is tried, and async_drives_ counts the asynchronous drives
\* (create_run_locked, settle_terminal, start_run, continue_run).
CountersExact ==
  /\ table.active = table.rest + IF run.state \in TerminalRun \cup {"Absent"} THEN 0 ELSE 1
  /\ table.active <= MaxActive
  /\ table.async = Cardinality({d \in Drives : proc[d].async})

\* And when nobody is at work any more, a settled run left no live task behind.
SlotsAddUp ==
  /\ TypeOK /\ CountersExact
  /\ Quiet /\ run.state \in TerminalRun => task \in TerminalTask


\* The view moves only along the frozen table, one epoch per move, whichever of
\* the drive, the callers and shutdown get there first.
Contract == INSTANCE WorkflowContract WITH view <- [state |-> run.state, epoch |-> run.epoch]
ImplementsRunContract == Contract!RunContract
=============================================================================

-------------------------- MODULE WorkflowRecovery --------------------------
(***************************************************************************)
(* The recovery orchestrator (workflow_recovery.cpp): a run that waits for *)
(* the agent is taken through the attempt pipeline - admission, context,   *)
(* model decision, patch, resume or cancel - synchronously or on the       *)
(* executor, while hosts move the same run by other means.                 *)
(*                                                                         *)
(* The orchestrator's mutex is a leaf; every call on the runtime, the      *)
(* control plane and the gateway is a step of its own. WorkflowRuntime is  *)
(* seen through its run views, which move along the table of WorkflowRun.  *)
(***************************************************************************)
EXTENDS WorkflowRun, FiniteSets

CONSTANTS
  Runs, Pipes,         \* runs; pipeline executions, each used once
  Scripts,             \* what the two callers may do: function caller -> calls
  MaxAttempts,         \* max_attempts_per_run
  MaxConcurrent,       \* max_concurrent_attempts
  MaxTracked,          \* max_tracked_runs
  MaxRepairs,          \* max_decision_repairs
  MaxEpoch             \* per run, the bound on the moves hosts make

VARIABLES
  view,     \* the runs: state, epoch, and the state of the carrier task
  orch,     \* accepting_, async_in_flight_ and the tracking table
  pipe,     \* the pipelines
  caller    \* the callers: pc, the pipeline they wait for, the calls to come

recovery_vars == <<view, orch, pipe, caller>>

NoEntry == [known |-> FALSE, ordinal |-> 0, used |-> 0, in_flight |-> FALSE,
            last |-> "none", flag |-> "none", pending |-> "none"]
NoPipe == [pc |-> "free", run |-> "none", cancel |-> FALSE, seen |-> "none", expected |-> 0,
           repairs |-> 0, retried |-> FALSE, entered |-> FALSE, act |-> "none", outcome |-> "none"]

RecoveryInit ==
  /\ view = [r \in Runs |-> [state |-> "WaitingAgent", epoch |-> 1, task |-> "Recovering"]]
  /\ orch = [accepting |-> TRUE, async |-> 0, tracking |-> [r \in Runs |-> NoEntry]]
  /\ pipe = [p \in Pipes |-> NoPipe]
  /\ \E s \in Scripts :
       caller = [c \in DOMAIN s |-> [pc |-> "idle", pipe |-> "none", todo |-> s[c]]]

-----------------------------------------------------------------------------
(* The runs, moved by their drives, by hosts and by the attempts. *)

CanMove(r, target) == valid_workflow_run_transition(view[r].state, target)
Moved(r, target) ==
  [view EXCEPT ![r] = [state |-> target, epoch |-> @.epoch + 1,
                       task |-> IF target \in {"Paused", "WaitingUser"} THEN "Paused"
                                ELSE task_state_for_run_state(target)]]

host_moves_run(r) ==
  /\ view[r].epoch < MaxEpoch[r]
  /\ \E target \in {"Running", "WaitingAgent", "Cancelled"} :
       CanMove(r, target) /\ view' = Moved(r, target)
  /\ UNCHANGED <<orch, pipe, caller>>
host_takes_over(r) ==
  /\ view[r].task = "Recovering" /\ view[r].epoch < MaxEpoch[r]
  /\ view' = [view EXCEPT ![r].task = "SuspendedForTakeover"]
  /\ UNCHANGED <<orch, pipe, caller>>

-----------------------------------------------------------------------------
(* run_pipeline. *)

At_(p, pc) == pipe[p].pc = pc
Step_(p, pc) == pipe' = [pipe EXCEPT ![p].pc = pc]
Settle(p, outcome) == pipe' = [pipe EXCEPT ![p].pc = "settle", ![p].outcome = outcome]
\* abort_reason: shutdown or the attempt's cancel flag.
Aborting(p) == ~orch.accepting \/ pipe[p].cancel
Entry_(p) == orch.tracking[pipe[p].run]
Tracked == {r \in Runs : orch.tracking[r].known}

pipeline_snapshot(p) ==
  /\ At_(p, "snapshot")
  /\ pipe' = [pipe EXCEPT ![p].pc = "admit", ![p].seen = view[pipe[p].run].state]
  /\ UNCHANGED <<view, orch, caller>>

Admitted(p) ==
  /\ orch' = [orch EXCEPT !.tracking[pipe[p].run] =
                [@ EXCEPT !.known = TRUE, !.ordinal = @ + 1, !.in_flight = TRUE,
                          !.flag = p, !.last = "none"]]
  /\ Step_(p, "continuation")

\* admit: early rejections settle at once, a full table evicts and retries once.
admit(p) ==
  /\ At_(p, "admit")
  /\ IF \/ ~orch.accepting \/ pipe[p].seen # "WaitingAgent" \/ Entry_(p).in_flight
        \/ Entry_(p).used >= MaxAttempts
       THEN /\ pipe' = [pipe EXCEPT ![p].pc = "early", ![p].outcome =
                          IF orch.accepting /\ pipe[p].seen = "WaitingAgent" /\ ~Entry_(p).in_flight
                            THEN "DeferredToHost" ELSE "Aborted"]
            /\ UNCHANGED orch
     ELSE IF ~Entry_(p).known /\ Cardinality(Tracked) >= MaxTracked
       THEN /\ pipe' = [pipe EXCEPT ![p].pc = IF pipe[p].retried THEN "done" ELSE "evict",
                                    ![p].retried = TRUE]
            /\ UNCHANGED orch
     ELSE Admitted(p)
  /\ UNCHANGED <<view, caller>>

\* evict_terminal_runs: idle entries of settled runs; settled runs stay settled
\* and idleness is checked again under the lock that erases.
evict_terminal_runs(p) ==
  /\ At_(p, "evict")
  /\ orch' = [orch EXCEPT !.tracking = [r \in Runs |->
                IF /\ view[r].state \in TerminalRun /\ ~@[r].in_flight /\ @[r].pending = "none"
                  THEN NoEntry ELSE @[r]]]
  /\ Step_(p, "admit") /\ UNCHANGED <<view, caller>>

record_early_result(p) ==
  /\ At_(p, "early")
  /\ orch' = IF Entry_(p).known /\ ~Entry_(p).in_flight
               THEN [orch EXCEPT !.tracking[pipe[p].run].last = pipe[p].outcome] ELSE orch
  /\ Step_(p, "done") /\ UNCHANGED <<view, caller>>

\* agent_continuation, then the carrier, which must be Recovering.
agent_continuation(p) ==
  /\ At_(p, "continuation")
  /\ IF view[pipe[p].run].state = "WaitingAgent"
       THEN pipe' = [pipe EXCEPT ![p].pc = "preflight", ![p].expected = view[pipe[p].run].epoch]
       ELSE Settle(p, "Aborted")
  /\ UNCHANGED <<view, orch, caller>>
preflight(p) ==
  /\ At_(p, "preflight")
  /\ IF view[pipe[p].run].task = "Recovering" THEN Step_(p, "consume") ELSE Settle(p, "Aborted")
  /\ UNCHANGED <<view, orch, caller>>

\* The context is assembled and the budget slot of the run is consumed.
consume_attempt(p) ==
  /\ At_(p, "consume")
  /\ orch' = [orch EXCEPT !.tracking[pipe[p].run].used = @ + 1]
  /\ pipe' = [pipe EXCEPT ![p].pc = "model", ![p].entered = TRUE]
  /\ UNCHANGED <<view, caller>>

model_request(p) ==
  /\ At_(p, "model")
  /\ IF Aborting(p) THEN Settle(p, "Aborted") ELSE Step_(p, "infer")
  /\ UNCHANGED <<view, orch, caller>>

(* Mutant: a repair round costs nothing. *)
Repair_Free(p) == Step_(p, "model")

\* What the gateway may answer; repairable answers cost a repair round.
Repair(p) ==
  IF pipe[p].repairs >= MaxRepairs THEN Settle(p, "DeferredToHost")
  ELSE pipe' = [pipe EXCEPT ![p].pc = "model", ![p].repairs = @ + 1]
infer(p) ==
  /\ At_(p, "infer")
  /\ \/ Settle(p, "Aborted")            \* no answer, or not admitted
     \/ Settle(p, "DeferredToHost")     \* refused, or need_user
     \/ Repair(p)                       \* not a decision, or a malformed one
     \/ \E act \in {"resume", "cancel", "patch"} :
          pipe' = [pipe EXCEPT ![p].pc = "recheck", ![p].act = act]
  /\ UNCHANGED <<view, orch, caller>>

\* recheck_run: the decision is dropped when the run moved on.
recheck_run(p) ==
  /\ At_(p, "recheck")
  /\ IF \/ pipe[p].act # "cancel" /\ Aborting(p)
        \/ view[pipe[p].run].state # "WaitingAgent"
        \/ view[pipe[p].run].epoch # pipe[p].expected
       THEN Settle(p, "Aborted") ELSE Step_(p, pipe[p].act)
  /\ UNCHANGED <<view, orch, caller>>

\* patch_run applies or rejects; what follows an accepted patch is rechecked
\* against the view it returned.
patch_run_(p) ==
  /\ At_(p, "patch")
  /\ \/ /\ view[pipe[p].run].state \notin TerminalRun
        /\ pipe' = [pipe EXCEPT ![p].pc = "recheck", ![p].act = "resume",
                                ![p].expected = view[pipe[p].run].epoch]
     \/ IF Aborting(p) THEN Settle(p, "Aborted") ELSE Repair(p)
  /\ UNCHANGED <<view, orch, caller>>

resume_run_(p) ==
  /\ At_(p, "resume")
  /\ \/ /\ view[pipe[p].run].state \in {"Paused", "WaitingAgent"}
        /\ view' = Moved(pipe[p].run, "Running") /\ Settle(p, "Resumed")
     \/ Settle(p, "Aborted") /\ UNCHANGED view
  /\ UNCHANGED <<orch, caller>>
cancel_run_(p) ==
  /\ At_(p, "cancel")
  /\ IF CanMove(pipe[p].run, "Cancelled")
       THEN view' = Moved(pipe[p].run, "Cancelled") /\ Settle(p, "CancelRequested")
       ELSE UNCHANGED view /\ \/ Settle(p, "CancelRequested") \/ Settle(p, "Aborted")
  /\ UNCHANGED <<orch, caller>>

\* settle_tracking; the audit event and the hook follow.
settle_tracking(p) ==
  /\ At_(p, "settle")
  /\ orch' = [orch EXCEPT
       !.async = IF Entry_(p).pending = "none" THEN @ ELSE @ - 1,
       !.tracking[pipe[p].run] = [@ EXCEPT !.in_flight = FALSE, !.flag = "none",
                                           !.pending = "none", !.last = pipe[p].outcome]]
  /\ Step_(p, "done") /\ UNCHANGED <<view, caller>>

PipeStep(p) ==
  \/ pipeline_snapshot(p) \/ admit(p) \/ evict_terminal_runs(p) \/ record_early_result(p)
  \/ agent_continuation(p) \/ preflight(p) \/ consume_attempt(p) \/ model_request(p)
  \/ infer(p) \/ recheck_run(p) \/ patch_run_(p) \/ resume_run_(p) \/ cancel_run_(p)
  \/ settle_tracking(p)

-----------------------------------------------------------------------------
(* The public operations. *)

Asked(c, op) == caller[c].pc = "idle" /\ caller[c].todo # << >> /\ Head(caller[c].todo).op = op
Target(c) == Head(caller[c].todo).run
Finished(c) == [caller EXCEPT ![c] = [pc |-> "idle", pipe |-> "none", todo |-> Tail(@.todo)]]
Free == {p \in Pipes : pipe[p].pc = "free"}    \* alike: the first one is taken
Begin(c, pc) ==
  LET p == CHOOSE x \in Free : TRUE IN
  /\ Free # {}
  /\ pipe' = [pipe EXCEPT ![p].pc = "snapshot", ![p].run = Target(c)]
  /\ caller' = [caller EXCEPT ![c].pc = pc, ![c].pipe = p]

\* attempt_recovery runs the pipeline on the calling thread.
attempt_recovery(c) ==
  \/ Asked(c, "attempt") /\ Begin(c, "sync") /\ UNCHANGED <<view, orch>>
  \/ /\ caller[c].pc = "sync" /\ At_(caller[c].pipe, "done")
     /\ caller' = Finished(c) /\ UNCHANGED <<view, orch, pipe>>

\* start_recovery: checked under the lock, submitted outside it, recorded under
\* a second one; the executor may refuse.
start_recovery(c) ==
  /\ Asked(c, "start")
  /\ LET entry == orch.tracking[Target(c)]
         refused == \/ ~orch.accepting \/ entry.in_flight \/ entry.pending # "none"
                    \/ orch.async >= MaxConcurrent
     IN  caller' = IF refused THEN Finished(c) ELSE [caller EXCEPT ![c].pc = "submit"]
  /\ UNCHANGED <<view, orch, pipe>>
start_submit(c) ==
  /\ caller[c].pc = "submit"
  /\ \/ Begin(c, "record")
     \/ caller' = Finished(c) /\ UNCHANGED pipe
  /\ UNCHANGED <<view, orch>>
start_record(c) ==
  /\ caller[c].pc = "record"
  /\ orch' = [orch EXCEPT !.async = @ + 1, !.tracking[Target(c)] =
                [@ EXCEPT !.known = TRUE, !.pending = caller[c].pipe]]
  /\ caller' = Finished(c) /\ UNCHANGED <<view, pipe>>

cancel_recovery(c) ==
  /\ Asked(c, "cancel")
  /\ LET flag == orch.tracking[Target(c)].flag
     IN  pipe' = IF flag = "none" THEN pipe ELSE [pipe EXCEPT ![flag].cancel = TRUE]
  /\ caller' = Finished(c) /\ UNCHANGED <<view, orch>>

\* shutdown: refuse, flag what is in flight, drain the futures within a budget.
shutdown_(c) ==
  /\ Asked(c, "shutdown")
  /\ orch' = [orch EXCEPT !.accepting = FALSE]
  /\ pipe' = [p \in Pipes |->
                IF \E r \in Runs : orch.tracking[r].flag = p
                  THEN [pipe[p] EXCEPT !.cancel = TRUE] ELSE pipe[p]]
  /\ caller' = Finished(c) /\ UNCHANGED view

RecoveryCall(c) ==
  \/ attempt_recovery(c) \/ start_recovery(c) \/ start_submit(c) \/ start_record(c)
  \/ cancel_recovery(c) \/ shutdown_(c)

RecoveryNext ==
  \/ \E p \in Pipes : PipeStep(p)
  \/ \E c \in DOMAIN caller : RecoveryCall(c)
  \/ \E r \in Runs : host_moves_run(r) \/ host_takes_over(r)

-----------------------------------------------------------------------------
(* Properties. *)

RecoveryQuiet == /\ \A p \in Pipes : pipe[p].pc \in {"free", "done"}
                 /\ \A c \in DOMAIN caller : caller[c].pc = "idle" /\ caller[c].todo = << >>

\* One attempt at a time and a bounded number of them: the tracking entry is in
\* flight exactly while one pipeline is past its admission (admit,
\* settle_tracking), and no run is taken to the model more often than
\* max_attempts_per_run, whichever entry point and eviction brought it there.
OneAttemptPerRun ==
  \A r \in Runs :
    LET admitted == {p \in Pipes : pipe[p].run = r /\ pipe[p].pc \notin
                       {"free", "snapshot", "admit", "evict", "early", "done"}}
    IN  /\ orch.tracking[r].in_flight = (admitted # {}) /\ Cardinality(admitted) <= 1
        /\ Cardinality({p \in Pipes : pipe[p].run = r /\ pipe[p].entered}) <= MaxAttempts
=============================================================================

----------------------------- MODULE AgentLoop -----------------------------
(* One task driven by AgentLoop::run (src/model/agent_loop.cpp), which acts *)
(* through JournaledActionDispatcher (src/model/action_dispatcher.cpp) and  *)
(* ActionJournal (src/storage/action_journal.cpp), killed at any point and  *)
(* resumed from what RecoveryPlanner reads back.                            *)
(*                                                                          *)
(* The log holds the events the projection reads; user-message, tool and    *)
(* working-context records, which it ignores, are left out, as is what goes *)
(* into a prompt. The model, the environment, the verifier, the lease       *)
(* broker and the host are external: each call may end in every way the     *)
(* loop tells apart. An append may fail without writing, or fail after the  *)
(* record became durable (FileEventStore reindexes it later).               *)
EXTENDS Checkpoint, FiniteSets

CONSTANTS Task,
          Configs         \* the configurations a run may have

\* A configuration has max_steps, max_recoveries_per_step, max_tool_executions
\* and max_pending_user_messages of AgentLoopConfig as steps, recoveries, tools
\* and pending; faults (the appends that may fail), crashes (the process deaths)
\* and signals (what may happen to the context) are bounds of the instance.

VARIABLES log,          \* the session's durable events
          loop,           \* the running loop: its step, counters and dispatch
          ctx,            \* the OperationContext: cancelled, expired, and whether it
                          \* stopped with an input past its last check, not yet sent
          world,          \* what the environment did with each action
          inbox,          \* queued user messages
          config,         \* the configuration of this run
          budget          \* faults and crashes still to come

vars == <<log, loop, ctx, world, inbox, config, budget>>

Actions == 1..config.steps * (config.crashes + 1)

\* A run at the start of its first step.
NewRun(epoch) ==
    [pc |-> "step", epoch |-> epoch, step |-> 1, recoveries |-> 0,
     repairs |-> 0, tools |-> 0, batch |-> 0, answer |-> "none", action |-> 0,
     uncertain |-> FALSE, outcome |-> "none"]

Effects == {"Completed", "unknown", "error", "throw"}
Executed == {a \in Actions : world.result[a] \in Effects}
NextAction == 1 + Cardinality({i \in 1..Len(log) : log[i].type = "ActionPrepared"})

Stopped == ctx.cancelled \/ ctx.expired
StopOutcome == IF ctx.cancelled THEN "Cancelled" ELSE "Failed"

---------------------------------------------------------------------------
(* Ways a step ends.                                                        *)

At(pc) == loop.pc = pc
Goto(pc) == loop' = [loop EXCEPT !.pc = pc]

\* The variables of one step end with it.
StepOver(l) == [l EXCEPT !.answer = "none", !.action = 0, !.uncertain = FALSE]
Leave(outcome) ==
    loop' = [StepOver(loop) EXCEPT !.pc = "settle", !.outcome = outcome]
Following(l) == [StepOver(l) EXCEPT !.pc = "step", !.step = @ + 1]

\* Mutant: a retry stays in its step and is not counted.
Recover_Uncounted == loop' = [StepOver(loop) EXCEPT !.pc = "step"]

\* A recoverable failure: try again in the next step, or give up.
Recover ==
    loop' = IF loop.recoveries < config.recoveries
            THEN Following([loop EXCEPT !.recoveries = @ + 1])
            ELSE [StepOver(loop) EXCEPT !.pc = "settle", !.outcome = "Failed"]

\* One append of this run: committed, lost, or committed but reported as failed.
AppendTo(type, arg, ok) ==
    LET e == Event(Task, type, loop.epoch, 0, arg)
    IN  \/ ok /\ log' = Append(log, e) /\ UNCHANGED budget
        \/ /\ ~ok /\ budget.faults > 0
           /\ budget' = [budget EXCEPT !.faults = @ - 1]
           /\ log' \in {log, Append(log, e)}

---------------------------------------------------------------------------
(* AgentLoop::run, up to the decision.                                      *)

BeginStep ==
    /\ At("step")
    /\ \/ loop.step > config.steps /\ Leave("MaxSteps") /\ UNCHANGED inbox
       \/ loop.step <= config.steps /\ ctx.cancelled /\ Leave("Cancelled") /\ UNCHANGED inbox
       \/ loop.step <= config.steps /\ ~ctx.cancelled /\ Goto("observe") /\ inbox' = 0
    /\ UNCHANGED <<log, ctx, world, budget>>

Observe ==
    /\ At("observe")
    /\ Goto("infer") \/ Recover \/ Leave("Failed")
    /\ UNCHANGED <<log, ctx, world, inbox, budget>>

Answers == {"Refused", "ToolProposals", "NoExecutableOutput", "Malformed", "Incomplete",
            "fail", "done", "uncompilable", "act"}

\* gateway.infer: an error, a rejected admission, or a parsed answer; the
\* context is looked at again once the answer is here.
Infer ==
    /\ At("infer")
    /\ \/ Leave("Cancelled") \/ Recover \/ Leave("Failed")
       \/ Stopped /\ Leave(StopOutcome)
       \/ \E answer \in Answers :
            /\ ~Stopped
            /\ loop' = [loop EXCEPT !.answer = answer, !.pc =
                    IF answer = "Malformed" /\ loop.repairs = 0 THEN "repair" ELSE "decide"]
    /\ UNCHANGED <<log, ctx, world, inbox, budget>>

\* One schema repair per run, unless its request cannot be built; only a decision
\* replaces the malformed answer.
Repair ==
    /\ At("repair")
    /\ \/ Goto("decide")
       \/ \E answer \in {"Malformed", "fail", "done", "uncompilable", "act"} :
            loop' = [loop EXCEPT !.repairs = 1, !.answer = answer, !.pc = "decide"]
    /\ UNCHANGED <<log, ctx, world, inbox, budget>>

Decide ==
    /\ At("decide")
    /\ \/ loop.answer \in {"Refused", "NoExecutableOutput", "fail"} /\ Leave("Failed")
       \/ loop.answer \in {"Malformed", "Incomplete", "uncompilable"} /\ Recover
       \/ loop.answer = "done" /\ Goto("verify_done")
       \/ loop.answer = "act" /\ Goto("dispatch")
       \/ loop.answer = "ToolProposals" /\ \E n \in 1..config.tools + 1 :
            IF loop.tools + n > config.tools THEN Leave("Failed")
            ELSE loop' = [loop EXCEPT !.pc = "tools", !.batch = n]
    /\ UNCHANGED <<log, ctx, world, inbox, budget>>

\* One proposal of a batch: refused by the boundary, or executed.
ExecuteTool ==
    /\ At("tools")
    /\ \/ ctx.cancelled /\ Leave("Cancelled")
       \/ ~ctx.cancelled /\ (Leave("Cancelled") \/ Leave("Failed"))
       \/ /\ ~ctx.cancelled
          /\ LET l == [loop EXCEPT !.tools = @ + 1, !.batch = @ - 1]
             IN  loop' = IF l.batch = 0 THEN Following(l) ELSE l
    /\ UNCHANGED <<log, ctx, world, inbox, budget>>

\* A done claim is checked against a fresh observation; nothing is recorded.
VerifyDone ==
    /\ At("verify_done")
    /\ \/ Leave("Failed")
       \/ Stopped /\ Leave(StopOutcome)
       \/ ~Stopped /\ Leave("Completed")
       \/ ~Stopped /\ loop' = Following(loop)
    /\ UNCHANGED <<log, ctx, world, inbox, budget>>

---------------------------------------------------------------------------
(* JournaledActionDispatcher::dispatch. The journal of a call is its own,   *)
(* so its phases are the steps below.                                       *)

Prepare ==
    /\ At("dispatch")
    /\ \/ Stopped /\ Leave(StopOutcome) /\ UNCHANGED <<log, budget>>
       \/ /\ ~Stopped
          /\ \E ok \in BOOLEAN :
                /\ AppendTo("ActionPrepared", NextAction, ok)
                /\ IF ok THEN loop' = [loop EXCEPT !.pc = "lease", !.action = NextAction]
                   ELSE Leave("Failed")
    /\ UNCHANGED <<ctx, world, inbox>>

\* The host grants an input lease, refuses it or throws.
AcquireLease ==
    /\ At("lease")
    /\ \/ Leave("Failed") \/ Leave("Cancelled")
       \/ Stopped /\ Leave(StopOutcome)
       \/ ~Stopped /\ Goto("start")
    /\ UNCHANGED <<log, ctx, world, inbox, budget>>

\* Mutant: the result of recording the start is not looked at.
StartDispatch_IgnoresError ==
    /\ At("start")
    /\ \E ok \in BOOLEAN : AppendTo("ActionDispatchStarted", loop.action, ok)
    /\ Goto("started")
    /\ UNCHANGED <<ctx, world, inbox>>

StartDispatch ==
    /\ At("start")
    /\ \E ok \in BOOLEAN :
          /\ AppendTo("ActionDispatchStarted", loop.action, ok)
          /\ IF ok THEN Goto("started") ELSE Leave("Failed")
    /\ UNCHANGED <<ctx, world, inbox>>

\* The context is looked at once the start is durable, and again once the lease
\* is valid: that is the last look before the input.
Look(from, to) ==
    /\ At(from)
    /\ \/ Stopped /\ Leave(StopOutcome)
       \/ ~Stopped /\ Goto(to)
    /\ UNCHANGED <<log, ctx, world, inbox, budget>>

\* The lease is valid, is not, or its validation throws, which is handled like an
\* execution that throws although nothing was sent.
Validate ==
    /\ At("validate")
    /\ \/ (Leave("Failed") \/ Leave("Cancelled") \/ Goto("valid")) /\ UNCHANGED world
       \/ /\ world' = [world EXCEPT !.result[loop.action] = "unsent"]
          /\ Goto("record")
    /\ UNCHANGED <<log, ctx, inbox, budget>>

\* environment.execute; a result that is not a clean one may leave a gesture held.
Execute ==
    /\ At("execute")
    /\ \E result \in Effects \cup {"Rejected"} :
          world' = [world EXCEPT !.result[loop.action] = result,
                                 !.held = @ \/ result \in {"unknown", "error", "throw"}]
    /\ ctx' = [ctx EXCEPT !.late = FALSE]
    /\ Goto("record")
    /\ UNCHANGED <<log, inbox, budget>>

\* Mutant: an unknown result is recorded like a clean one.
RecordedAs_Receipt(result) == "ActionReceipt"

RecordedAs(result) ==
    IF result \in {"Completed", "Rejected"} THEN "ActionReceipt" ELSE "ActionExecutionUncertain"

\* Mutant: every result is treated as a completed one, and the input is kept.
Record_IgnoresUncertain ==
    /\ At("record")
    /\ \E ok \in BOOLEAN : AppendTo("ActionReceipt", loop.action, ok)
    /\ Goto("acted")
    /\ UNCHANGED <<ctx, world, inbox>>

\* What came back goes to the journal; anything but a clean result also
\* releases the input, and only then does the call return.
Record ==
    /\ At("record")
    /\ LET result == world.result[loop.action]
           clean == RecordedAs(result) = "ActionReceipt"
       IN  \E ok \in BOOLEAN :
            /\ AppendTo(RecordedAs(result), loop.action, ok)
            /\ \E released \in BOOLEAN :
                /\ clean => released
                /\ world' = [world EXCEPT !.held = @ /\ (clean \/ ~released)]
                /\ CASE clean /\ ~ok -> Goto("record_failure")
                     [] ok /\ released /\ result \notin {"error", "throw", "unsent"} ->
                            loop' = [loop EXCEPT !.pc = "acted", !.uncertain = ~clean]
                     [] OTHER -> Leave("Failed") \/ Leave("Cancelled")
    /\ UNCHANGED <<ctx, inbox>>

\* A receipt that could not be recorded is recorded as uncertain, best effort.
RecordFailure ==
    /\ At("record_failure")
    /\ \E ok \in BOOLEAN : AppendTo("ActionExecutionUncertain", loop.action, ok)
    /\ Leave("Failed")
    /\ UNCHANGED <<ctx, world, inbox>>

---------------------------------------------------------------------------
(* AgentLoop::run, after the action.                                        *)

Acted ==
    /\ At("acted")
    /\ \/ Stopped /\ Leave(StopOutcome)
       \/ ~Stopped /\ world.result[loop.action] = "Rejected" /\ Recover
       \/ ~Stopped /\ world.result[loop.action] # "Rejected" /\ Goto("verify")
    /\ UNCHANGED <<log, ctx, world, inbox, budget>>

\* A fresh observation and the verifier's verdict. An uncertain action that is
\* not confirmed keeps its pin: nothing is recorded and the run fails.
Verify ==
    /\ At("verify")
    /\ \/ (Leave("Failed") \/ (Stopped /\ Leave(StopOutcome))) /\ UNCHANGED <<log, world, budget>>
       \/ \E satisfied \in BOOLEAN, ok \in BOOLEAN :
            /\ ~Stopped
            /\ IF loop.uncertain /\ ~satisfied
               THEN Leave("Failed") /\ UNCHANGED <<log, world, budget>>
               ELSE /\ AppendTo("VerificationResult", None, ok)
                    /\ world' = [world EXCEPT !.resolved = Executed]
                    /\ IF satisfied THEN Leave("Completed")
                       ELSE loop' = Following(loop)
    /\ UNCHANGED <<ctx, inbox>>

Settle ==
    /\ At("settle")
    /\ \E ok \in BOOLEAN : AppendTo("LoopSettled", loop.outcome, ok)
    /\ Goto("returned")
    /\ UNCHANGED <<ctx, world, inbox>>

LoopStep ==
    \/ BeginStep \/ Observe \/ Infer \/ Repair \/ Decide \/ ExecuteTool \/ VerifyDone
    \/ Prepare \/ AcquireLease \/ StartDispatch \/ Look("started", "validate")
    \/ Validate \/ Look("valid", "execute") \/ Execute \/ Record
    \/ RecordFailure \/ Acted \/ Verify \/ Settle

---------------------------------------------------------------------------
(* The rest of the world.                                                   *)

Cancel ==
    /\ "cancel" \in config.signals /\ ~ctx.cancelled /\ loop.pc \notin {"down", "returned"}
    /\ ctx' = [ctx EXCEPT !.cancelled = TRUE, !.late = IF Stopped THEN @ ELSE At("execute")]
    /\ UNCHANGED <<log, loop, world, inbox, budget>>

Expire ==
    /\ "expire" \in config.signals /\ ~ctx.expired /\ loop.pc \notin {"down", "returned"}
    /\ ctx' = [ctx EXCEPT !.expired = TRUE, !.late = IF Stopped THEN @ ELSE At("execute")]
    /\ UNCHANGED <<log, loop, world, inbox, budget>>

enqueue_user_message ==
    /\ inbox < config.pending
    /\ inbox' = inbox + 1
    /\ UNCHANGED <<log, loop, ctx, world, budget>>

NewContext == [cancelled |-> FALSE, expired |-> FALSE, late |-> FALSE]

Crash ==
    /\ budget.crashes > 0 /\ ~At("down")
    /\ budget' = [budget EXCEPT !.crashes = @ - 1]
    /\ loop' = [NewRun(loop.epoch) EXCEPT !.pc = "down"]
    /\ ctx' = NewContext /\ inbox' = 0
    /\ UNCHANGED <<log, world>>

\* The checkpoint that survives a crash covers no event, every event but the last
\* few, or all; that older ones make no difference is PlanFollowsLog of Projection.
Surviving == 0..Len(log) \ 1..Len(log) - 3

\* The plan made from the checkpoint that covers the first n events.
PlanFrom(n) ==
    plan(IF n = 0 THEN <<>> ELSE <<FullBuild(Defaults, Task, SubSeq(log, 1, n), 0)>>, log, Task, 0)

MustVerify(p) == p.pending # <<>> \/ p.action = "ResumeVerifying"

\* A host that obeys the plan: it leaves a terminal task alone, verifies what
\* the plan pins before anything else, and runs the task in the next epoch.
Resume ==
    /\ At("down")
    /\ \E n \in Surviving :
        LET p == PlanFrom(n)
            epoch == IF p.action = "NoState" THEN 1 ELSE p.checkpoint[1].task_epoch + 1
        IN  \/ p.action = "AlreadyTerminal" /\ Goto("returned") /\ UNCHANGED <<log, world>>
            \/ /\ p.action # "AlreadyTerminal" /\ ~MustVerify(p)
               /\ loop' = NewRun(epoch) /\ UNCHANGED <<log, world>>
            \/ /\ p.action # "AlreadyTerminal" /\ MustVerify(p)
               /\ loop' = NewRun(epoch)
               /\ world' = [world EXCEPT !.resolved = Executed, !.held = FALSE]
               /\ log' = Append(log, Event(Task, "VerificationResult", epoch, 0, None))
    /\ UNCHANGED <<ctx, inbox, budget>>

\* A run that has returned stays so.
Finished == At("returned") /\ UNCHANGED vars

Init ==
    /\ config \in Configs
    /\ log = <<>> /\ loop = NewRun(1) /\ ctx = NewContext /\ inbox = 0
    /\ world = [result |-> [a \in Actions |-> "none"], resolved |-> {}, held |-> FALSE]
    /\ budget = [faults |-> config.faults, crashes |-> config.crashes]

Next ==
    /\ LoopStep \/ Cancel \/ Expire \/ enqueue_user_message \/ Crash \/ Resume \/ Finished
    /\ UNCHANGED config

\* The steps that go on by themselves: the thread running the loop, and a host
\* that restarts what it finds down.
Going == LoopStep /\ UNCHANGED config
Resuming == Resume /\ UNCHANGED config

---------------------------------------------------------------------------
(* ActionJournal::recover, on the log.                                      *)

journal_step(phase, type) ==
    CASE phase = "DataLoss" -> phase
      [] type = "ActionPrepared" -> IF phase = "Prepared" THEN phase ELSE "DataLoss"
      [] type = "ActionDispatchStarted" ->
            IF phase = "Prepared" THEN "DispatchStarted" ELSE phase
      [] OTHER -> IF phase = "Prepared" THEN "DataLoss"
                  ELSE IF type = "ActionReceipt" THEN "Receipt" ELSE "ExecutionUncertain"

recover(action) ==
    LET own == SelectSeq(log, LAMBDA e : e.type \in JournalTypes /\ e.arg = action)
        phase[i \in 0..Len(own)] ==
            IF i = 0 THEN "Prepared" ELSE journal_step(phase[i - 1], own[i].type)
    IN  phase[Len(own)]

---------------------------------------------------------------------------
(* Properties.                                                              *)

TypeOK ==
    /\ loop.step \in 1..config.steps + 1 /\ loop.recoveries \in 0..config.recoveries
    /\ loop.tools \in 0..config.tools /\ loop.repairs \in 0..1 /\ loop.action \in 0..Len(log)
    /\ inbox \in 0..config.pending
    /\ world.resolved \subseteq Executed /\ world.held \in BOOLEAN

\* The journal of an action reads back without a contradiction and never
\* claims less than happened: input reached the environment only after its
\* start was durable, and only a clean result is remembered as a receipt
\* (JournaledActionDispatcher::dispatch, ActionJournal::recover).
JournalTellsTruth ==
    \A a \in Actions :
        LET phase == recover(a)
        IN  /\ phase # "DataLoss"
            /\ a \in Executed => phase # "Prepared"
            /\ phase = "Receipt" => world.result[a] \in {"Completed", "Rejected"}

\* Should the process die now, whatever checkpoint survives, the plan of the
\* next process still shows an action whose effect nobody has verified: it is
\* pinned, or its verification is owed (CheckpointBuilder and RecoveryPlanner
\* over what dispatch and run append).
PlanNeverForgets ==
    Executed \ world.resolved # {} =>
        \A n \in Surviving :
            LET p == PlanFrom(n)
            IN  /\ p.action # "NoState"
                /\ p.pending # <<>> \/ p.checkpoint[1].verification_pending
                /\ p.action # "AlreadyTerminal" => MustVerify(p)

Sent == {a \in Actions : world.result[a] \notin {"none", "unsent"}}

\* No input is sent while an earlier one is unverified or may still be held
\* down, in one run and across restarts (run's Verify and dispatch's quiesce).
NoBlindInput ==
    [][Sent' # Sent => Executed \subseteq world.resolved /\ ~world.held]_vars

\* Once the context is cancelled or expired, no input is sent but the one that
\* was past its last look at that moment, and that one once (the looks at the
\* context in dispatch and in run).
StopEndsInput == [][Sent' # Sent /\ Stopped => ctx.late]_vars

\* A run reports Completed only with every effect it caused verified.
CompletedMeansVerified == loop.outcome = "Completed" => Executed \subseteq world.resolved
============================================================================

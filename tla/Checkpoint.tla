---------------------------- MODULE Checkpoint ----------------------------
(* The task projection: how an event log is folded into a TaskCheckpoint    *)
(* (src/storage/checkpoint_store.cpp) and what RecoveryPlanner makes of it  *)
(* (src/runtime/task_recovery.cpp). Pure operators, no state.               *)
(*                                                                          *)
(* An event is [task, type, epoch, env, arg]; its session sequence is its   *)
(* position in the log. Every list item of a projection is a record with a  *)
(* field key. A payload the reducer counts as malformed or ignored only     *)
(* moves the watermark, and is an event of type "Other". Goals, texts and   *)
(* provenance are abstracted to the values events carry; reducer statistics *)
(* are left out.                                                            *)
EXTENDS Integers, SequencesExt

CONSTANTS MaxFacts,     \* CheckpointBuilder::Config::max_verified_facts by default
          MaxListed,      \* its bounds on steps, objectives and issues
          MaxRecent       \* max_recent_actions

\* CheckpointBuilder::Config{}, which RecoveryPlanner always builds with; a
\* CheckpointCoordinator is given its own.
Defaults == [facts |-> MaxFacts, listed |-> MaxListed, recent |-> MaxRecent]

\* Marks an absent optional, and the epoch of an event without an envelope;
\* Open marks a task with no terminal state.
None == -1
Open == "Open"

TerminalStates == {"Completed", "Failed", "Cancelled"}
JournalTypes == {"ActionPrepared", "ActionDispatchStarted", "ActionReceipt",
                 "ActionExecutionUncertain"}
EnvelopeTypes == {"ActionDispatched", "VerificationResult", "LoopSettled"}

Event(task, type, epoch, env, arg) ==
    [task |-> task, type |-> type, epoch |-> epoch, env |-> env, arg |-> arg]

EmptyCheckpoint(task) ==
    [task |-> task, task_epoch |-> 0, environment_epoch |-> 0, through |-> 0,
     goal |-> "", constraints |-> <<>>, verified_facts |-> <<>>,
     completed_steps |-> <<>>, pending_objectives |-> <<>>, unresolved_issues |-> <<>>,
     uncertain_side_effects |-> <<>>, current_observation |-> None,
     recent_actions |-> <<>>, verification_pending |-> FALSE, terminal_state |-> Open]

---------------------------------------------------------------------------
(* Lists of a projection.                                                   *)

HasKey(list, key) == \E i \in 1..Len(list) : list[i].key = key

\* Pushed onto a list at its bound, an item drives out the oldest.
Pushed(list, item, max) ==
    IF Len(list) >= max THEN Tail(Append(list, item)) ELSE Append(list, item)

\* An item takes the place of the one with its key.
Replaced(list, item) ==
    [i \in 1..Len(list) |-> IF list[i].key = item.key THEN item ELSE list[i]]

Without(list, key) == SelectSeq(list, LAMBDA item : item.key # key)

Larger(a, b) == IF a >= b THEN a ELSE b

---------------------------------------------------------------------------
(* The reducer.                                                             *)

\* An action already listed only changes its outcome; a nil action id never matches.
apply_recent_action(config, list, id, outcome) ==
    IF id # None /\ HasKey(list, id)
    THEN [i \in 1..Len(list) |->
            IF list[i].key = id THEN [list[i] EXCEPT !.outcome = outcome] ELSE list[i]]
    ELSE Pushed(list, [key |-> id, outcome |-> outcome], config.recent)

\* A published fact is fenced by the epochs it was verified in; a flat one is not.
apply_fact(config, c, e) ==
    LET put == IF HasKey(c.verified_facts, e.arg.key)
               THEN Replaced(c.verified_facts, e.arg)
               ELSE Pushed(c.verified_facts, e.arg, config.facts)
    IN  IF e.epoch = None THEN [c EXCEPT !.verified_facts = put]
        ELSE IF \/ c.terminal_state # Open
                \/ e.epoch < c.task_epoch \/ e.env < c.environment_epoch THEN c
        ELSE [c EXCEPT !.verified_facts = put, !.task_epoch = e.epoch,
                       !.environment_epoch = e.env]

\* The terminal state a settled loop reports; MaxSteps is a failure.
SettledAs(outcome) == IF outcome = "MaxSteps" THEN "Failed" ELSE outcome

\* Events about the task's state, its epochs and its loop.
apply_state_event(config, c, e) ==
    CASE e.type = "TaskStateChanged" ->
            [c EXCEPT !.terminal_state =
                IF @ = Open /\ e.arg \in TerminalStates THEN e.arg ELSE @]
      [] e.type = "TaskEpochAdvanced" -> [c EXCEPT !.task_epoch = Larger(@, e.arg)]
      [] e.type = "EnvironmentEpochChanged" ->
            [c EXCEPT !.environment_epoch = Larger(@, e.arg)]
      [] e.type = "ObservationRecorded" -> [c EXCEPT !.current_observation = e.arg]
      [] e.type = "ActionDispatched" ->
            [c EXCEPT !.recent_actions = apply_recent_action(config, @, None, "dispatched"),
                      !.verification_pending = TRUE]
      [] e.type = "VerificationResult" ->
            [c EXCEPT !.verification_pending = FALSE, !.uncertain_side_effects = <<>>]
      [] e.type = "LoopSettled" ->
            [c EXCEPT !.terminal_state = IF @ = Open THEN SettledAs(e.arg) ELSE @]
      [] OTHER -> c

\* Events about what the task knows and has to do; the others are its state.
apply_json_event(config, c, e) ==
    CASE e.type = "TaskGoalSet" -> [c EXCEPT !.goal = e.arg]
      [] e.type = "TaskConstraintAdded" ->
            [c EXCEPT !.constraints =
                IF HasKey(@, e.arg.key) THEN Replaced(@, e.arg) ELSE Append(@, e.arg)]
      [] e.type = "TaskConstraintRemoved" -> [c EXCEPT !.constraints = Without(@, e.arg)]
      [] e.type = "TaskFactVerified" -> apply_fact(config, c, e)
      [] e.type = "TaskStepCompleted" ->
            [c EXCEPT !.completed_steps = Pushed(@, e.arg, config.listed)]
      [] e.type = "TaskObjectiveAdded" ->
            [c EXCEPT !.pending_objectives =
                IF HasKey(@, e.arg.key) THEN @ ELSE Pushed(@, e.arg, config.listed)]
      [] e.type = "TaskObjectiveCompleted" ->
            [c EXCEPT !.pending_objectives = Without(@, e.arg)]
      [] e.type = "TaskIssueRaised" ->
            [c EXCEPT !.unresolved_issues =
                IF HasKey(@, e.arg.key) THEN @ ELSE Pushed(@, e.arg, config.listed)]
      [] e.type = "TaskIssueResolved" -> [c EXCEPT !.unresolved_issues = Without(@, e.arg)]
      [] OTHER -> apply_state_event(config, c, e)

apply_journal_event(config, c, e) ==
    LET seen == [c EXCEPT !.task_epoch = Larger(@, e.epoch),
                          !.environment_epoch = Larger(@, e.env)]
    IN  CASE e.type = "ActionPrepared" -> seen
          [] e.type = "ActionDispatchStarted" ->
                [seen EXCEPT !.recent_actions = apply_recent_action(config, @, e.arg, "dispatched"),
                             !.verification_pending = TRUE]
          [] e.type = "ActionReceipt" ->
                [seen EXCEPT !.recent_actions = apply_recent_action(config, @, e.arg, "receipt")]
          [] e.type = "ActionExecutionUncertain" ->
                [seen EXCEPT !.uncertain_side_effects =
                    IF HasKey(@, e.arg) THEN @ ELSE Append(@, [key |-> e.arg])]

\* Loop events may be wrapped with the epoch of the loop that wrote them: a
\* stale one is skipped, a newer one advances the epoch.
apply_event(config, c, e) ==
    IF e.type \in JournalTypes THEN apply_journal_event(config, c, e)
    ELSE IF e.type \in EnvelopeTypes /\ e.epoch # None
         THEN IF e.epoch < c.task_epoch THEN c
              ELSE apply_json_event(config, [c EXCEPT !.task_epoch = e.epoch], e)
         ELSE apply_json_event(config, c, e)

\* Mutant: events the base already holds are applied again.
apply_entry_Replays(config, c, e, seq) ==
    IF e.task # c.task THEN c ELSE apply_event(config, [c EXCEPT !.through = seq], e)

\* Events of other tasks, and those the base already holds, are skipped.
apply_entry(config, c, e, seq) ==
    IF e.task # c.task \/ seq <= c.through THEN c
    ELSE apply_event(config, [c EXCEPT !.through = seq], e)

valid_at(fact, now) == fact.from <= now /\ now < fact.until
UnexpiredFacts(c, now) ==
    [c EXCEPT !.verified_facts = SelectSeq(@, LAMBDA fact : valid_at(fact, now))]

\* The projection of the log's events on top of base, as of now.
build(config, base, log, now) ==
    LET after[i \in 0..Len(log)] ==
            IF i = 0 THEN base ELSE apply_entry(config, after[i - 1], log[i], i)
    IN  UnexpiredFacts(after[Len(log)], now)

\* A rebuild that starts from no checkpoint.
FullBuild(config, task, log, now) == build(config, EmptyCheckpoint(task), log, now)

---------------------------------------------------------------------------
(* RecoveryPlanner::plan, once it has read the log and chosen its base.     *)

TaskEvents(log, task) == {i \in 1..Len(log) : log[i].task = task}

planned_action(c) ==
    IF c.terminal_state # Open THEN "AlreadyTerminal"
    ELSE IF c.uncertain_side_effects # <<>> THEN "ResumeObserving"
    ELSE IF c.verification_pending THEN "ResumeVerifying" ELSE "ResumeObserving"

\* The outcome for base, a checkpoint or None.
plan(base, log, task, now) ==
    IF base = <<>> /\ TaskEvents(log, task) = {}
    THEN [action |-> "NoState", checkpoint |-> <<>>, pending |-> <<>>]
    ELSE LET c == build(Defaults, IF base = <<>> THEN EmptyCheckpoint(task) ELSE base[1], log, now)
         IN  [action |-> planned_action(c), checkpoint |-> <<c>>,
              pending |-> c.uncertain_side_effects]
============================================================================

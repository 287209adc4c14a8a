------------------------------- MODULE Runtime -------------------------------
(***************************************************************************)
(* MiraRuntime (src/runtime/runtime.cpp): the control plane.               *)
(*                                                                         *)
(* Host threads submit commands under the admission lock; one serial       *)
(* control context runs their callbacks in order; begin_operation writes   *)
(* from the host thread under the same locks; and one external owner runs  *)
(* finish_shutdown, which takes and releases the admission lock several    *)
(* times and so interleaves with everything else.  A callback holds        *)
(* records_mutex from its first to its last access and is one step.        *)
(***************************************************************************)
EXTENDS Lifecycle, Integers, Sequences, FiniteSets

CONSTANTS
  Sessions,        \* ids open_session may generate
  Tasks,           \* ids submit_task may generate
  Operations,      \* ids begin_operation may generate
  NoId,            \* the nil id
  QueueCapacity,   \* executor_queue_capacity: commands waiting to run
  MaxCommands,     \* bound: commands admitted in one behaviour
  MaxLost          \* bound: admitted commands the executor may drop unrun

ASSUME IdsAssumption ==
  NoId \notin Sessions \cup Tasks \cup Operations

ASSUME BoundsAssumption ==
  /\ QueueCapacity \in Nat \ {0}
  /\ MaxCommands \in Nat
  /\ MaxLost \in Nat

VARIABLES
  runtime_state,     \* RuntimeStateCell
  executor,          \* kairo: "none", "open", "closed" (context shut down), "down"
  shutdown_command,  \* optional handle: 0 or the command's id
  shutdown_outcome,  \* settlement of that handle: "pending", "Applied", "Failed"
  final_report,      \* optional ShutdownReport: "none", "clean", "unclean"
  sessions,          \* Sessions -> record, state "Absent" before it is opened
  tasks,             \* Tasks -> record, state "Absent" before it is submitted
  operations,        \* Operations -> record, state "Absent" before it begins
  control_sequence,  \* callbacks started
  queue,             \* admitted commands waiting in the serial context
  lost,              \* ids of admitted commands dropped unrun, not settled
  issued,            \* commands admitted (their ids are 1..issued)
  consumed,          \* commands whose future a finalizer has consumed
  finalizer,         \* where finish_shutdown stands
  failure,           \* finish_shutdown's local optional<Error>
  last,              \* kind, receipt and settlement of the last callback
  applied,           \* history: operations whose completion was applied
  fenced             \* history: operations whose task was withdrawn since they began

recordVars    == <<sessions, tasks, operations, applied>>
commandVars   == <<queue, lost, issued>>
finalizerVars == <<consumed, finalizer, failure, final_report>>
vars == <<runtime_state, executor, shutdown_command, shutdown_outcome,
          final_report, sessions, tasks, operations, control_sequence, queue,
          lost, issued, consumed, finalizer, failure, last, applied, fenced>>

-----------------------------------------------------------------------------
(* Records *)

NoSession == [state |-> "Absent", environment_epoch |-> 0]
NoTask    == [state |-> "Absent", epoch |-> 0, environment_epoch |-> 0,
              session_id |-> NoId, control_sequence |-> 0,
              terminal_outcome |-> "none"]
NoOperation == [state |-> "Absent", task_id |-> NoId, task_epoch |-> 0]

(* A state in which a task does no autonomous work, or none any more. *)
Withdrawn == {"Paused", "SuspendedForTakeover", "Recovering"} \cup TerminalTask

(* Mutant: a task that was settled as Completed still counts as live. *)
Live_CompletedToo(t) == tasks[t].state \notin {"Failed", "Cancelled", "Absent"}

Live(t)     == tasks[t].state \notin TerminalTask \cup {"Absent"}
LiveTasksOf(s) == {t \in Tasks : Live(t) /\ tasks[t].session_id = s}

(* What the host may ask for; SubmitTask, CompleteTask carry one argument. *)
SessionKinds == {"OpenSession", "CloseSession", "RequestTakeover",
                 "ReleaseTakeover"}
TaskTargets  == [PauseTask |-> "Paused", ResumeTask |-> "Observing",
                 CancelTask |-> "Cancelled", BeginTaskRecovery |-> "Recovering"]

CommandRequests ==
  [kind : SessionKinds, target : Sessions, arg : {NoId}]
    \cup [kind : {"SubmitTask"}, target : Tasks, arg : Sessions]
    \cup [kind : DOMAIN TaskTargets, target : Tasks, arg : {NoId}]
    \cup [kind : {"CompleteTask"}, target : Tasks,
          arg : {"Completed", "Failed", "Cancelled"}]
    \cup [kind : {"OperationCompletion"}, target : Operations, arg : {NoId}]

QueuedCommand ==
  [id : Nat, kind : SessionKinds, target : Sessions, arg : {NoId}]
    \cup [id : Nat, kind : {"SubmitTask"}, target : Tasks, arg : Sessions]
    \cup [id : Nat, kind : DOMAIN TaskTargets, target : Tasks, arg : {NoId}]
    \cup [id : Nat, kind : {"CompleteTask"}, target : Tasks,
          arg : {"Completed", "Failed", "Cancelled"}]
    \cup [id : Nat, kind : {"OperationCompletion"}, target : Operations,
          arg : {NoId}]
    \cup [id : Nat, kind : {"ShutdownRuntime"}, target : {NoId}, arg : {NoId}]

QueueIds == {queue[i].id : i \in 1..Len(queue)}
Pending(c) == c \in QueueIds \cup lost
Settled(c) == c \in 1..issued /\ ~Pending(c)

(***************************************************************************)
(* Every step that changes a task's state to a withdrawn one fences the    *)
(* operations that are under way in it: they began before the withdrawal.  *)
(***************************************************************************)
TrackFences ==
  fenced' = fenced \cup
    {o \in Operations :
       /\ operations[o].state # "Absent"
       /\ \E t \in Tasks :
            /\ operations[o].task_id = t
            /\ tasks'[t].state # tasks[t].state
            /\ tasks'[t].state \in Withdrawn}

-----------------------------------------------------------------------------
(* Submission: enqueue, enqueue_admitted *)

Admitted == executor = "open" /\ Len(queue) < QueueCapacity

(***************************************************************************)
(* enqueue: refused unless the runtime is Running; otherwise submitted to  *)
(* the control context and registered, both under the admission lock.  A   *)
(* submission refused by the executor returns an error and no handle.      *)
(***************************************************************************)
Enqueue(request) ==
  /\ runtime_state = "Running"
  /\ Admitted
  /\ issued < MaxCommands
  /\ issued' = issued + 1
  /\ queue'  = Append(queue, [id     |-> issued + 1,
                              kind   |-> request.kind,
                              target |-> request.target,
                              arg    |-> request.arg])
  /\ UNCHANGED lost

(***************************************************************************)
(* A session or task id is generated before its command is submitted, so   *)
(* OpenSession and SubmitTask always name an id no earlier command made.   *)
(***************************************************************************)
FreshId(request) ==
  /\ request.kind = "OpenSession" => sessions[request.target].state = "Absent"
  /\ request.kind = "SubmitTask"  => tasks[request.target].state = "Absent"
  /\ request.kind \in {"OpenSession", "SubmitTask"} =>
       \A i \in 1..Len(queue) :
          ~(queue[i].kind = request.kind /\ queue[i].target = request.target)

SubmitCommand ==
  /\ \E request \in CommandRequests : FreshId(request) /\ Enqueue(request)
  /\ UNCHANGED <<runtime_state, executor, shutdown_command, shutdown_outcome,
                 recordVars, control_sequence, finalizerVars, last, fenced>>

(* External: the executor drops an admitted command; its future throws. *)
LoseSubmission ==
  /\ Cardinality(lost) < MaxLost
  /\ \E i \in 1..Len(queue) :
       /\ lost'  = lost \cup {queue[i].id}
       /\ queue' = [j \in 1..(Len(queue) - 1) |->
                      IF j < i THEN queue[j] ELSE queue[j + 1]]
  /\ UNCHANGED <<runtime_state, executor, shutdown_command, shutdown_outcome,
                 recordVars, control_sequence, issued, finalizerVars, last,
                 fenced>>

-----------------------------------------------------------------------------
(* Callbacks on the control context *)

(* The callback wrapper: take the next command, give it a sequence number. *)
Running(kind) ==
  /\ queue # <<>>
  /\ Head(queue).kind = kind
  /\ queue' = Tail(queue)
  /\ control_sequence' = control_sequence + 1
  /\ UNCHANGED <<executor, shutdown_command, lost, issued, finalizerVars>>

Command == Head(queue)

Reply(receipt, status) ==
  last' = [kind |-> Command.kind, receipt |-> receipt, status |-> status]

Reject == Reply("Rejected", "Failed")
Apply  == Reply("Accepted", "Applied")
NoOp   == Reply("Accepted", "NoOp")
Throw  == Reply("Accepted", "Failed")   \* the wrapper's catch block

(* Cancel in place: close_session and shutdown write the terminal state. *)
CancelledTask(t) ==
  [tasks[t] EXCEPT !.state = "Cancelled", !.epoch = @ + 1,
                   !.terminal_outcome = "Cancelled",
                   !.control_sequence = control_sequence + 1]

open_session ==
  /\ Running("OpenSession")
  /\ IF sessions[Command.target].state # "Absent"
       THEN Reject /\ UNCHANGED sessions
       ELSE /\ Apply
            /\ sessions' = [sessions EXCEPT ![Command.target] =
                              [state |-> "Autonomous", environment_epoch |-> 0]]
  /\ UNCHANGED <<runtime_state, shutdown_outcome, tasks, operations, applied>>

submit_task ==
  /\ Running("SubmitTask")
  /\ IF sessions[Command.arg].state # "Autonomous"
       THEN Reject /\ UNCHANGED tasks
       ELSE /\ Apply
            /\ tasks' = [tasks EXCEPT ![Command.target] =
                           IF @.state # "Absent" THEN @   \* emplace
                             ELSE [NoTask EXCEPT !.state = "Idle",
                                     !.session_id = Command.arg,
                                     !.control_sequence = control_sequence + 1]]
  /\ UNCHANGED <<runtime_state, shutdown_outcome, sessions, operations, applied>>

(***************************************************************************)
(* simple_task_command: pause, resume, cancel, begin recovery.  Pause and  *)
(* cancel may pass through Pausing and Cancelling; the intermediate state  *)
(* is what the epoch rule below sees as the previous one.                  *)
(***************************************************************************)
Via(state, target) ==
  CASE /\ target = "Paused" /\ state # "Pausing"
       /\ valid_task_transition(state, "Pausing")
       /\ valid_task_transition("Pausing", target)       -> "Pausing"
    [] /\ target = "Cancelled" /\ state # "Cancelling"
       /\ valid_task_transition(state, "Cancelling")
       /\ valid_task_transition("Cancelling", target)    -> "Cancelling"
    [] OTHER                                             -> state

(* Mutant: pausing leaves the epoch to the later resume. *)
EpochAdvance_NotOnPause(previous, target) ==
  IF \/ previous \in {"Paused", "SuspendedForTakeover", "Recovering"}
     \/ target \in {"SuspendedForTakeover", "Cancelled", "Recovering"}
    THEN 1 ELSE 0

EpochAdvance(previous, target) ==
  IF \/ target = "Observing"
          /\ previous \in {"Paused", "SuspendedForTakeover", "Recovering"}
     \/ target \in {"Paused", "SuspendedForTakeover", "Cancelled", "Recovering"}
    THEN 1 ELSE 0

Moved(t, target) ==
  [tasks[t] EXCEPT
     !.state = target,
     !.epoch = @ + EpochAdvance(Via(tasks[t].state, target), target),
     !.terminal_outcome = IF target = "Cancelled" THEN "Cancelled" ELSE @,
     !.control_sequence = control_sequence + 1]

simple_task_command(kind) ==
  /\ Running(kind)
  /\ LET t      == Command.target
         state  == tasks[t].state
         target == TaskTargets[kind]
     IN  IF state = "Absent"
           THEN Reject /\ UNCHANGED tasks
         ELSE IF state \in TerminalTask /\ state = target
           THEN NoOp /\ UNCHANGED tasks
         ELSE IF /\ ~valid_task_transition(state, target)
                 /\ Via(state, target) = state
           THEN Reject /\ UNCHANGED tasks
         ELSE Apply /\ tasks' = [tasks EXCEPT ![t] = Moved(t, target)]
  /\ UNCHANGED <<runtime_state, shutdown_outcome, sessions, operations, applied>>

(* Mutant: settling a task leaves its epoch. *)
SettledTask_SameEpoch(t, outcome) ==
  [tasks[t] EXCEPT !.state = outcome, !.terminal_outcome = outcome,
                   !.control_sequence = control_sequence + 1]

SettledTask(t, outcome) ==
  [tasks[t] EXCEPT !.state = outcome, !.epoch = @ + 1,
                   !.terminal_outcome = outcome,
                   !.control_sequence = control_sequence + 1]

complete_task ==
  /\ Running("CompleteTask")
  /\ LET t       == Command.target
         state   == tasks[t].state
         outcome == Command.arg
     IN  IF state = "Absent" \/ outcome \notin {"Completed", "Failed"}
           THEN Reject /\ UNCHANGED tasks
         ELSE IF state \in TerminalTask
           THEN /\ IF state = outcome THEN NoOp ELSE Reject
                /\ UNCHANGED tasks
         ELSE IF ~task_state_path_exists(state, outcome)
           THEN Reject /\ UNCHANGED tasks
         ELSE /\ Apply
              /\ tasks' = [tasks EXCEPT ![t] = SettledTask(t, outcome)]
  /\ UNCHANGED <<runtime_state, shutdown_outcome, sessions, operations, applied>>

(***************************************************************************)
(* request_human_takeover: every live task that may settle is suspended,   *)
(* and the environment is interrupted last.  An interrupt that throws      *)
(* leaves the takeover in force and settles the command as failed.         *)
(***************************************************************************)
SuspendedTask(t) ==
  [tasks[t] EXCEPT !.state = "SuspendedForTakeover", !.epoch = @ + 1,
                   !.control_sequence = control_sequence + 1]

request_human_takeover ==
  /\ Running("RequestTakeover")
  /\ LET s     == Command.target
         state == sessions[s].state
     IN  IF state = "Absent"
           THEN Reject /\ UNCHANGED <<sessions, tasks>>
         ELSE IF state \in {"HumanControlled", "TakeoverPending"}
           THEN NoOp /\ UNCHANGED <<sessions, tasks>>
         ELSE IF ~valid_session_transition(state, "TakeoverPending")
           THEN Reject /\ UNCHANGED <<sessions, tasks>>
         ELSE /\ Apply \/ Throw
              /\ sessions' = [sessions EXCEPT ![s].state = "HumanControlled"]
              /\ tasks' = [t \in Tasks |->
                   IF /\ t \in LiveTasksOf(s)
                      /\ valid_task_transition(tasks[t].state, "TakeoverSettling")
                     THEN SuspendedTask(t) ELSE tasks[t]]
  /\ UNCHANGED <<runtime_state, shutdown_outcome, operations, applied>>

ResumedTask(t, environment_epoch) ==
  [tasks[t] EXCEPT !.state = "Observing", !.epoch = @ + 1,
                   !.environment_epoch = environment_epoch,
                   !.control_sequence = control_sequence + 1]

release_human_takeover ==
  /\ Running("ReleaseTakeover")
  /\ LET s     == Command.target
         state == sessions[s].state
         epoch == sessions[s].environment_epoch + 1
     IN  IF state = "Autonomous"
           THEN NoOp /\ UNCHANGED <<sessions, tasks>>
         ELSE IF state # "HumanControlled"
           THEN Reject /\ UNCHANGED <<sessions, tasks>>
         ELSE /\ Apply
              /\ sessions' = [sessions EXCEPT ![s] =
                   [state |-> "Autonomous", environment_epoch |-> epoch]]
              /\ tasks' = [t \in Tasks |->
                   IF /\ tasks[t].session_id = s
                      /\ tasks[t].state = "SuspendedForTakeover"
                     THEN ResumedTask(t, epoch) ELSE tasks[t]]
  /\ UNCHANGED <<runtime_state, shutdown_outcome, operations, applied>>

(***************************************************************************)
(* close_session cancels the live tasks, interrupts the environment and    *)
(* only then reaches Closed; an interrupt that throws leaves Closing.      *)
(***************************************************************************)
close_session ==
  /\ Running("CloseSession")
  /\ LET s     == Command.target
         state == sessions[s].state
     IN  IF state = "Closed"
           THEN NoOp /\ UNCHANGED <<sessions, tasks>>
         ELSE IF state = "Absent" \/ ~valid_session_transition(state, "Closing")
           THEN Reject /\ UNCHANGED <<sessions, tasks>>
         ELSE /\ \/ /\ Apply
                    /\ sessions' = [sessions EXCEPT ![s].state = "Closed"]
                 \/ /\ Throw
                    /\ sessions' = [sessions EXCEPT ![s].state = "Closing"]
              /\ tasks' = [t \in Tasks |-> IF t \in LiveTasksOf(s)
                                             THEN CancelledTask(t) ELSE tasks[t]]
  /\ UNCHANGED <<runtime_state, shutdown_outcome, operations, applied>>

(***************************************************************************)
(* A completion is applied only to the epoch its operation began in; a     *)
(* late or second one settles the operation and changes no task.           *)
(***************************************************************************)
Current(o) ==
  LET t == operations[o].task_id
  IN  /\ tasks[t].epoch = operations[o].task_epoch
      /\ tasks[t].state \notin TerminalTask

admit_operation_completion ==
  /\ Running("OperationCompletion")
  /\ LET o == Command.target
         t == operations[o].task_id
     IN  IF operations[o].state = "Absent"
           THEN Reject /\ UNCHANGED <<tasks, operations, applied>>
         ELSE IF operations[o].state = "Settled"
           THEN NoOp /\ UNCHANGED <<tasks, operations, applied>>
         ELSE /\ operations' = [operations EXCEPT ![o].state = "Settled"]
              /\ IF Current(o)
                   THEN /\ Apply
                        /\ tasks' = [tasks EXCEPT ![t].control_sequence =
                                       control_sequence + 1]
                        /\ applied' = applied \cup {o}
                   ELSE NoOp /\ UNCHANGED <<tasks, applied>>
  /\ UNCHANGED <<runtime_state, shutdown_outcome, sessions>>

(***************************************************************************)
(* The shutdown callback: cancel every live task, release every open       *)
(* session's environment (Closed, or Failed when the release fails), and   *)
(* leave Stopping for Quiesced or, after a failure, Failed.                *)
(***************************************************************************)
shutdown_callback ==
  /\ Running("ShutdownRuntime")
  /\ tasks' = [t \in Tasks |-> IF Live(t) THEN CancelledTask(t) ELSE tasks[t]]
  /\ \E failing \in SUBSET {s \in Sessions :
                       sessions[s].state \notin TerminalSession \cup {"Absent"}} :
       LET target  == IF failing = {} THEN "Quiesced" ELSE "Failed"
           moves   == /\ runtime_state = "Stopping"
                      /\ valid_runtime_transition("Stopping", target)
           outcome == IF failing = {} /\ moves THEN "Applied" ELSE "Failed"
       IN  /\ sessions' = [s \in Sessions |->
                CASE s \in failing -> [sessions[s] EXCEPT !.state = "Failed"]
                  [] sessions[s].state \in TerminalSession \cup {"Absent"}
                                   -> sessions[s]
                  [] OTHER         -> [sessions[s] EXCEPT !.state = "Closed"]]
           /\ runtime_state' = IF moves THEN target ELSE runtime_state
           /\ Reply("Accepted", outcome)
           /\ shutdown_outcome' = IF shutdown_command = Command.id
                                    THEN outcome ELSE shutdown_outcome
  /\ UNCHANGED <<operations, applied>>

ControlStep ==
  /\ \/ open_session
     \/ submit_task
     \/ \E kind \in DOMAIN TaskTargets : simple_task_command(kind)
     \/ complete_task
     \/ request_human_takeover
     \/ release_human_takeover
     \/ close_session
     \/ admit_operation_completion
     \/ shutdown_callback
  /\ TrackFences

-----------------------------------------------------------------------------
(* Calls on the host's own thread *)

initialize ==
  /\ runtime_state = "Constructed"
  /\ \/ runtime_state' = "Running" /\ executor' = "open"
     \/ runtime_state' = "Failed" /\ UNCHANGED executor
  /\ UNCHANGED <<shutdown_command, shutdown_outcome, recordVars,
                 control_sequence, commandVars, finalizerVars, last, fenced>>

(* Paused and taken-over tasks, and terminal ones, admit no new operation. *)
AdmitsOperations(t) ==
  tasks[t].state \notin TerminalTask
                          \cup {"Absent", "Paused", "SuspendedForTakeover"}

begin_operation(t) ==
  /\ runtime_state = "Running"
  /\ AdmitsOperations(t)
  /\ \E o \in Operations :
       /\ operations[o].state = "Absent"
       /\ operations' = [operations EXCEPT ![o] =
            [state |-> "Submitted", task_id |-> t, task_epoch |-> tasks[t].epoch]]
  /\ UNCHANGED <<runtime_state, executor, shutdown_command, shutdown_outcome,
                 sessions, tasks, applied, control_sequence, commandVars,
                 finalizerVars, last, fenced>>

(***************************************************************************)
(* submit_shutdown_admitted and request_shutdown_admitted, both under the  *)
(* admission lock.  SubmitShutdown either registers the command or, when   *)
(* the executor refuses it, leaves shutdown_command empty.                 *)
(***************************************************************************)
SubmitShutdown ==
  IF Admitted
    THEN /\ issued' = issued + 1
         /\ queue' = Append(queue, [id |-> issued + 1, kind |-> "ShutdownRuntime",
                                    target |-> NoId, arg |-> NoId])
         /\ shutdown_command' = issued + 1
    ELSE UNCHANGED <<issued, queue, shutdown_command>>

ShutdownRefused ==
  \/ shutdown_command # 0
  \/ runtime_state \in {"Stopped", "Quiesced", "Stopping"}
  \/ ~valid_runtime_transition(runtime_state, "Stopping")

RequestShutdownAdmitted ==
  IF ShutdownRefused
    THEN UNCHANGED <<runtime_state, issued, queue, shutdown_command>>
    ELSE /\ runtime_state' = "Stopping"
         /\ IF executor = "none"
              THEN UNCHANGED <<issued, queue, shutdown_command>>
              ELSE SubmitShutdown

ShutdownRequested == shutdown_command' # shutdown_command

request_shutdown ==
  /\ RequestShutdownAdmitted
  /\ UNCHANGED <<executor, shutdown_outcome, recordVars, control_sequence,
                 lost, finalizerVars, last, fenced>>

-----------------------------------------------------------------------------
(* finish_shutdown, step by step *)

FinalizerFrame ==
  UNCHANGED <<recordVars, control_sequence, last, fenced>>

(* First critical section: ask for a shutdown nobody has asked for yet. *)
FinishRequest ==
  /\ finalizer = "idle"
  /\ final_report = "none"
  /\ finalizer' = "consume"
  /\ IF \/ runtime_state \in {"Constructed", "Running"}
        \/ runtime_state = "Failed" /\ shutdown_command = 0
       THEN /\ RequestShutdownAdmitted
            /\ failure' = (executor # "none" /\ ~ShutdownRequested)
       ELSE /\ failure' = FALSE
            /\ UNCHANGED <<runtime_state, issued, queue, shutdown_command>>
  /\ UNCHANGED <<executor, shutdown_outcome, lost, consumed, final_report>>
  /\ FinalizerFrame

(* Mutant: a dropped command's handle is consumed without settling it. *)
ConsumeCommand_LeavesPending ==
  /\ finalizer \in {"consume", "consume_again"}
  /\ consumed < issued
  /\ consumed + 1 \notin QueueIds
  /\ consumed' = consumed + 1
  /\ UNCHANGED <<runtime_state, executor, shutdown_command, shutdown_outcome,
                 commandVars, finalizer, failure, final_report>>
  /\ FinalizerFrame

(***************************************************************************)
(* consume_commands: wait for the next registered command's future; a      *)
(* command that never ran is settled here, on behalf of its callback.      *)
(***************************************************************************)
ConsumeCommand ==
  /\ finalizer \in {"consume", "consume_again"}
  /\ consumed < issued
  /\ consumed + 1 \notin QueueIds
  /\ consumed' = consumed + 1
  /\ lost' = lost \ {consumed + 1}
  /\ shutdown_outcome' = IF consumed + 1 \in lost
                              /\ shutdown_command = consumed + 1
                           THEN "Failed" ELSE shutdown_outcome
  /\ UNCHANGED <<runtime_state, executor, shutdown_command, queue, issued,
                 finalizer, failure, final_report>>
  /\ FinalizerFrame

(* Second critical section: one retry of a shutdown that was refused. *)
FinishRetry ==
  /\ finalizer = "consume"
  /\ consumed = issued
  /\ finalizer' = "consume_again"
  /\ IF /\ executor # "none" /\ shutdown_command = 0
        /\ runtime_state = "Stopping"
       THEN SubmitShutdown /\ failure' = ~ShutdownRequested
       ELSE UNCHANGED <<issued, queue, shutdown_command, failure>>
  /\ UNCHANGED <<runtime_state, executor, shutdown_outcome, lost, consumed,
                 final_report>>
  /\ FinalizerFrame

(* Mutant: the shutdown command's outcome is not read. *)
FinishQuiesce_IgnoresOutcome ==
  /\ finalizer = "consume_again"
  /\ consumed = issued
  /\ finalizer' = "close"
  /\ executor' = IF executor = "open" THEN "closed" ELSE executor
  /\ runtime_state' = IF runtime_state = "Stopping"
                        THEN IF failure THEN "Failed" ELSE "Quiesced"
                        ELSE runtime_state
  /\ UNCHANGED <<shutdown_command, shutdown_outcome, commandVars, consumed,
                 failure, final_report>>
  /\ FinalizerFrame

(* Read the shutdown's outcome, close the control context, leave Stopping. *)
FinishQuiesce ==
  /\ finalizer = "consume_again"
  /\ consumed = issued
  /\ finalizer' = "close"
  /\ failure' = (failure \/ (shutdown_command # 0
                               /\ shutdown_outcome # "Applied"))
  /\ executor' = IF executor = "open" THEN "closed" ELSE executor
  /\ runtime_state' = IF runtime_state = "Stopping"
                        THEN IF failure' THEN "Failed" ELSE "Quiesced"
                        ELSE runtime_state
  /\ UNCHANGED <<shutdown_command, shutdown_outcome, commandVars, consumed,
                 final_report>>
  /\ FinalizerFrame

(***************************************************************************)
(* executor.shutdown(true): completed, or declined because the caller is   *)
(* not an external owner, which stores no report and may be tried again.   *)
(***************************************************************************)
FinishReport ==
  /\ finalizer = "close"
  /\ finalizer' = "idle"
  /\ failure' = FALSE
  /\ \/ UNCHANGED <<runtime_state, executor, final_report>>
     \/ /\ executor' = IF executor = "none" THEN "none" ELSE "down"
        /\ runtime_state' = IF ~failure /\ runtime_state = "Quiesced"
                              THEN "Stopped" ELSE runtime_state
        /\ final_report' = IF ~failure /\ runtime_state' = "Stopped"
                             THEN "clean" ELSE "unclean"
  /\ UNCHANGED <<shutdown_command, shutdown_outcome, commandVars, consumed>>
  /\ FinalizerFrame

FinishStep == FinishRequest \/ ConsumeCommand \/ FinishRetry
                \/ FinishQuiesce \/ FinishReport

-----------------------------------------------------------------------------
Init ==
  /\ runtime_state = "Constructed"
  /\ executor = "none"
  /\ shutdown_command = 0
  /\ shutdown_outcome = "pending"
  /\ final_report = "none"
  /\ sessions = [s \in Sessions |-> NoSession]
  /\ tasks = [t \in Tasks |-> NoTask]
  /\ operations = [o \in Operations |-> NoOperation]
  /\ control_sequence = 0
  /\ queue = <<>>
  /\ lost = {}
  /\ issued = 0
  /\ consumed = 0
  /\ finalizer = "idle"
  /\ failure = FALSE
  /\ last = [kind |-> "none", receipt |-> "none", status |-> "none"]
  /\ applied = {}
  /\ fenced = {}

Next ==
  \/ initialize
  \/ SubmitCommand
  \/ LoseSubmission
  \/ ControlStep
  \/ \E t \in Tasks : begin_operation(t)
  \/ request_shutdown
  \/ FinishStep

Spec == Init /\ [][Next]_vars

(***************************************************************************)
(* The control context's thread keeps running queued callbacks, and the    *)
(* owner eventually finalizes: the destructor itself calls finish_shutdown.*)
(***************************************************************************)
Fairness == WF_vars(ControlStep) /\ WF_vars(FinishStep)

FairSpec == Spec /\ Fairness
-----------------------------------------------------------------------------
(* Type correctness of every record the control plane keeps. *)
SessionRecord == [state : SessionStates \cup {"Absent"}, environment_epoch : Nat]

TaskRecord == [state : TaskStates \cup {"Absent"}, epoch : Nat,
               environment_epoch : Nat, session_id : Sessions \cup {NoId},
               control_sequence : Nat, terminal_outcome : TerminalTask \cup {"none"}]

OperationRecord == [state : {"Absent", "Submitted", "Settled"},
                    task_id : Tasks \cup {NoId}, task_epoch : Nat]

\* Every variable but last, which only reports what a callback told its caller
\* and which nothing reads (the records of impl_).
TypeOK ==
  /\ runtime_state \in RuntimeStates
  /\ executor \in {"none", "open", "closed", "down"}
  /\ shutdown_command \in Nat
  /\ shutdown_outcome \in {"pending", "Applied", "Failed"}
  /\ final_report \in {"none", "clean", "unclean"}
  /\ sessions \in [Sessions -> SessionRecord]
  /\ tasks \in [Tasks -> TaskRecord]
  /\ operations \in [Operations -> OperationRecord]
  /\ control_sequence \in Nat
  /\ queue \in Seq(QueuedCommand)
  /\ lost \in SUBSET Nat
  /\ issued \in Nat
  /\ consumed \in Nat
  /\ finalizer \in {"idle", "consume", "consume_again", "close"}
  /\ failure \in BOOLEAN
  /\ applied \in SUBSET Operations
  /\ fenced \in SUBSET Operations

-----------------------------------------------------------------------------
(***************************************************************************)
(* A settled task stays as it settled: no late completion, command,        *)
(* takeover or shutdown changes any field of its snapshot (complete_task's *)
(* terminal branch, simple_task_command, the loops over live tasks).       *)
(***************************************************************************)
TerminalStable ==
  [][\A t \in Tasks : tasks[t].state \in TerminalTask => tasks'[t] = tasks[t]]_vars

(***************************************************************************)
(* A completion is applied only when its task was never paused, taken      *)
(* over, sent to recovery or settled since the operation began: the epoch  *)
(* comparison of admit_operation_completion fences every withdrawal.       *)
(***************************************************************************)
EpochFence == [][\A o \in applied' \ applied : o \notin fenced]_vars

(***************************************************************************)
(* Why the fence holds: an operation never carries a later epoch than its  *)
(* task, and a strictly earlier one once its task has been withdrawn, so   *)
(* admit_operation_completion's comparison fails from then on.             *)
(***************************************************************************)
FencedIsOlder ==
  /\ \A o \in Operations : operations[o].state # "Absent" =>
       /\ operations[o].task_id \in Tasks
       /\ tasks[operations[o].task_id].state # "Absent"
       /\ operations[o].task_epoch <= tasks[operations[o].task_id].epoch
  /\ \A o \in fenced :
       /\ operations[o].state # "Absent"
       /\ operations[o].task_epoch < tasks[operations[o].task_id].epoch

(***************************************************************************)
(* Once the runtime is Quiesced or Stopped no task is live and every       *)
(* opened session is Closed, whatever was queued when shutdown began.      *)
(***************************************************************************)
QuiescedIsQuiet ==
  runtime_state \in {"Quiesced", "Stopped"} =>
    /\ \A t \in Tasks : ~Live(t)
    /\ \A s \in Sessions : sessions[s].state \in {"Absent", "Closed"}

(***************************************************************************)
(* finish_shutdown stores a report only when every admitted command has    *)
(* been settled, the ones the executor dropped and the shutdown included;  *)
(* and a clean one only when the runtime Stopped and its shutdown command, *)
(* if one was needed, was applied.  Both stay true.                        *)
(***************************************************************************)
ReportTellsTruth ==
  /\ final_report # "none" => \A c \in 1..issued : Settled(c)
  /\ final_report = "clean" =>
       /\ runtime_state = "Stopped"
       /\ executor # "none" => shutdown_outcome = "Applied"

(***************************************************************************)
(* Every command that was admitted is settled in the end and stays so, by  *)
(* its callback or by the finalizer, also when the executor dropped it.    *)
(***************************************************************************)
EveryCommandSettles == <>[](\A c \in 1..issued : Settled(c))

-----------------------------------------------------------------------------
(* What the documentation says and the code does not do. *)

Begins(o) == operations[o].state = "Absent" /\ operations'[o].state # "Absent"

(***************************************************************************)
(* docs/design/core_contracts_and_state_machine.md, section 5.3: a task is *)
(* resumed only while its session is Autonomous, so no operation begins    *)
(* under human control.                                                    *)
(***************************************************************************)
OperationsBeginAutonomous ==
  [][\A o \in Operations :
       Begins(o)
         => sessions[tasks[operations'[o].task_id].session_id].state
              = "Autonomous"]_vars

\* Shutdown tells the truth: no task is active and no command is admitted once the
\* runtime is quiescent, and a report is given only for settled commands and clean
\* only for a runtime that stopped; every variable keeps its type meanwhile
\* (begin_shutdown, finish_shutdown).
ShutdownTellsTruth == TypeOK /\ QuiescedIsQuiet /\ ReportTellsTruth
=============================================================================

---------------------------- MODULE RuntimeProofs ----------------------------
(***************************************************************************)
(* Proofs about the control plane, for every number of sessions, tasks,    *)
(* operations and commands and every queue capacity.                       *)
(***************************************************************************)
EXTENDS Runtime, SequenceTheorems, TLAPS

-----------------------------------------------------------------------------
(* The command queue *)

(* The target and the argument of a queued command fit its kind. *)
LEMMA QueuedFields ==
  ASSUME NEW c \in QueuedCommand
  PROVE  /\ c.kind \in SessionKinds => c.target \in Sessions
         /\ c.kind = "SubmitTask" => c.target \in Tasks /\ c.arg \in Sessions
         /\ c.kind \in DOMAIN TaskTargets => c.target \in Tasks
         /\ c.kind = "CompleteTask" => c.target \in Tasks
         /\ c.kind = "OperationCompletion" => c.target \in Operations
BY DEF QueuedCommand, SessionKinds, TaskTargets

(* Enqueue and submit_shutdown_admitted append commands of the right shape. *)
LEMMA RequestIsQueued ==
  ASSUME NEW r \in CommandRequests, NEW n \in Nat
  PROVE  [id |-> n, kind |-> r.kind, target |-> r.target, arg |-> r.arg]
           \in QueuedCommand
BY DEF QueuedCommand, CommandRequests

\* The shutdown command is a command of the queue.
LEMMA ShutdownIsQueued ==
  ASSUME NEW n \in Nat
  PROVE  [id |-> n, kind |-> "ShutdownRuntime", target |-> NoId, arg |-> NoId]
           \in QueuedCommand
BY DEF QueuedCommand

(* What the callback wrapper does to the queue, whatever the callback is. *)
LEMMA RunningTypes ==
  ASSUME TypeOK, NEW kind, Running(kind)
  PROVE  /\ Command \in QueuedCommand
         /\ Command.kind = kind
         /\ queue' \in Seq(QueuedCommand)
         /\ control_sequence' \in Nat
         /\ control_sequence' = control_sequence + 1
         /\ UNCHANGED <<executor, shutdown_command, lost, issued, consumed,
                        finalizer, failure, final_report>>
BY DEF TypeOK, Running, Command, finalizerVars

(* Dropping a command from the middle leaves a queue. *)
LEMMA DroppedQueue ==
  ASSUME NEW S, NEW q \in Seq(S), NEW i \in 1..Len(q)
  PROVE  [j \in 1..(Len(q) - 1) |-> IF j < i THEN q[j] ELSE q[j + 1]] \in Seq(S)
<1> DEFINE r == [j \in 1..(Len(q) - 1) |-> IF j < i THEN q[j] ELSE q[j + 1]]
<1>1. Len(q) \in Nat /\ Len(q) - 1 \in Nat
  BY LenProperties
<1>2. \A j \in 1..Len(q) : q[j] \in S
  BY ElementOfSeq
<1>3. r \in [1..(Len(q) - 1) -> S]
  BY <1>1, <1>2
<1> QED
  BY <1>1, <1>3, SeqDef

-----------------------------------------------------------------------------
(* Task records *)

\* The transition table is about states of tasks.
LEMMA TablesAreTyped ==
  /\ \A k \in DOMAIN TaskTargets : TaskTargets[k] \in TaskStates
  /\ TerminalTask \subseteq TaskStates
  /\ "Absent" \notin TaskStates
BY DEF TaskTargets, TaskStates, TerminalTask

\* A transition moves the epoch by one or not at all.
LEMMA EpochAdvanceNat ==
  ASSUME NEW previous, NEW target
  PROVE  EpochAdvance(previous, target) \in {0, 1}
BY DEF EpochAdvance

(***************************************************************************)
(* What each callback may do to a task: its record stays typed, its epoch  *)
(* never decreases and grows whenever the task is withdrawn, its record is *)
(* unchanged once terminal, and an existing task is never forgotten.       *)
(***************************************************************************)
TaskStepOK(t) ==
  /\ tasks'[t] \in TaskRecord
  /\ tasks[t].state # "Absent" =>
       tasks'[t].state # "Absent" /\ tasks'[t].epoch >= tasks[t].epoch
  /\ (tasks'[t].state # tasks[t].state /\ tasks'[t].state \in Withdrawn)
       => tasks'[t].epoch > tasks[t].epoch
  /\ tasks[t].state \in TerminalTask => tasks'[t] = tasks[t]

TasksStepOK ==
  /\ tasks' \in [Tasks -> TaskRecord]
  /\ \A t \in Tasks : TaskStepOK(t)

(* A step that leaves the task records alone. *)
LEMMA UnchangedTasksOK ==
  ASSUME TypeOK, UNCHANGED tasks
  PROVE  TasksStepOK
<1>1. \A t \in Tasks : tasks[t] \in TaskRecord
  BY DEF TypeOK
<1>2. \A t \in Tasks : tasks[t].epoch \in Nat
  BY <1>1 DEF TaskRecord
<1> QED
  BY <1>1, <1>2 DEF TasksStepOK, TaskStepOK, TypeOK

(* One task gets a new record; the others keep theirs. *)
LEMMA OneTaskOK ==
  ASSUME TypeOK, NEW t \in Tasks, NEW r \in TaskRecord,
         tasks' = [tasks EXCEPT ![t] = r],
         tasks[t].state # "Absent" =>
           r.state # "Absent" /\ r.epoch >= tasks[t].epoch,
         (r.state # tasks[t].state /\ r.state \in Withdrawn)
           => r.epoch > tasks[t].epoch,
         tasks[t].state \in TerminalTask => r = tasks[t]
  PROVE  TasksStepOK
<1>1. tasks \in [Tasks -> TaskRecord]
  BY DEF TypeOK
<1>2. \A u \in Tasks : tasks'[u] = IF u = t THEN r ELSE tasks[u]
  BY <1>1
<1>3. \A u \in Tasks : tasks[u].epoch \in Nat
  BY <1>1 DEF TaskRecord
<1> QED
  BY <1>1, <1>2, <1>3 DEF TasksStepOK, TaskStepOK

(* The live tasks of a set move to a withdrawn or resumed record. *)
LEMMA SweepOK ==
  ASSUME TypeOK, NEW r, NEW S \in SUBSET Tasks,
         tasks' = [t \in Tasks |-> IF t \in S THEN r[t] ELSE tasks[t]],
         \A t \in S : /\ Live(t)
                       /\ r[t] \in TaskRecord
                       /\ r[t].state # "Absent"
                       /\ r[t].epoch > tasks[t].epoch
  PROVE  TasksStepOK
<1>1. tasks \in [Tasks -> TaskRecord]
  BY DEF TypeOK
<1>2. \A u \in Tasks : tasks[u].epoch \in Nat
  BY <1>1 DEF TaskRecord
<1>3. \A u \in Tasks : tasks'[u] = IF u \in S THEN r[u] ELSE tasks[u]
  OBVIOUS
<1>4. \A u \in S : r[u].epoch \in Nat
  BY DEF TaskRecord
<1> QED
  BY <1>1, <1>2, <1>3, <1>4 DEF TasksStepOK, TaskStepOK, Live

\* A terminal state has no successor but itself.
LEMMA TerminalSuccessors ==
  \A state \in TerminalTask : TaskSuccessors[state] = {state}
BY DEF TerminalTask, TaskSuccessors

(* The record simple_task_command leaves behind. *)
LEMMA MovedRecord ==
  ASSUME TypeOK, NEW t \in Tasks,
         NEW target \in {"Paused", "Observing", "Cancelled", "Recovering"}
  PROVE  /\ Moved(t, target) \in TaskRecord
         /\ Moved(t, target).state = target
         /\ Moved(t, target).epoch >= tasks[t].epoch
         /\ target \in Withdrawn => Moved(t, target).epoch > tasks[t].epoch
<1> DEFINE advance == EpochAdvance(Via(tasks[t].state, target), target)
<1>1. tasks[t] \in TaskRecord /\ control_sequence + 1 \in Nat
  BY DEF TypeOK
<1>2. target \in TaskStates
  BY DEF TaskStates
<1>3. advance \in {0, 1} /\ (target \in Withdrawn => advance = 1)
  BY DEF EpochAdvance, Withdrawn, TerminalTask
<1>4. tasks[t].epoch \in Nat /\ tasks[t].epoch + advance \in Nat
  BY <1>1, <1>3 DEF TaskRecord
<1> HIDE DEF advance
<1>5. Moved(t, target) =
        [tasks[t] EXCEPT !.state = target, !.epoch = tasks[t].epoch + advance,
           !.terminal_outcome = IF target = "Cancelled" THEN "Cancelled"
                                ELSE tasks[t].terminal_outcome,
           !.control_sequence = control_sequence + 1]
  BY <1>1 DEF Moved, advance, TaskRecord
<1>6. (IF target = "Cancelled" THEN "Cancelled" ELSE tasks[t].terminal_outcome)
        \in TerminalTask \cup {"none"}
  BY <1>1 DEF TaskRecord, TerminalTask
<1>7. Moved(t, target) \in TaskRecord
  BY ZenonT(60), <1>1, <1>2, <1>4, <1>5, <1>6 DEF TaskRecord
<1>8. /\ Moved(t, target).state = target
      /\ Moved(t, target).epoch = tasks[t].epoch + advance
  BY <1>1, <1>5 DEF TaskRecord
<1> QED
  BY <1>3, <1>4, <1>7, <1>8

(* Pause, resume, cancel and begin recovery. *)
LEMMA SimpleTaskCommandOK ==
  ASSUME TypeOK, NEW kind \in DOMAIN TaskTargets, simple_task_command(kind)
  PROVE  TasksStepOK
<1> DEFINE t == Command.target
           target == TaskTargets[kind]
<1>1. Running(kind)
  BY DEF simple_task_command
<1>2. t \in Tasks
  BY <1>1, RunningTypes, QueuedFields
<1>3. tasks[t] \in TaskRecord /\ control_sequence + 1 \in Nat
  BY <1>2 DEF TypeOK
<1>4. CASE UNCHANGED tasks
  BY <1>4, UnchangedTasksOK
<1>5. CASE /\ tasks[t].state # "Absent"
           /\ ~(tasks[t].state \in TerminalTask /\ tasks[t].state = target)
           /\ ~(/\ ~valid_task_transition(tasks[t].state, target)
                /\ Via(tasks[t].state, target) = tasks[t].state)
           /\ tasks' = [tasks EXCEPT ![t] = Moved(t, target)]
  <2>1. target \in {"Paused", "Observing", "Cancelled", "Recovering"}
    BY DEF TaskTargets
  <2>2. tasks[t].state \notin TerminalTask
    <3> SUFFICES ASSUME tasks[t].state \in TerminalTask PROVE FALSE
      OBVIOUS
    <3>1. ~valid_task_transition(tasks[t].state, target)
      BY <1>5, TerminalSuccessors DEF valid_task_transition
    <3>2. Via(tasks[t].state, target) = tasks[t].state
      BY TerminalSuccessors DEF Via, valid_task_transition, TerminalTask
    <3> QED
      BY <1>5, <3>1, <3>2
  <2> HIDE DEF t, target
  <2>3. "Absent" \notin {"Paused", "Observing", "Cancelled", "Recovering"}
    OBVIOUS
  <2> QED
    BY ZenonT(60), <1>2, <1>5, <2>1, <2>2, <2>3, MovedRecord, OneTaskOK
<1> QED
  BY <1>4, <1>5 DEF simple_task_command

(* submit_task adds a record under an id that has none. *)
LEMMA SubmitTaskOK ==
  ASSUME TypeOK, submit_task
  PROVE  TasksStepOK
<1> DEFINE t == Command.target
           new == IF tasks[t].state # "Absent" THEN tasks[t]
                  ELSE [NoTask EXCEPT !.state = "Idle",
                          !.session_id = Command.arg,
                          !.control_sequence = control_sequence + 1]
<1>1. Running("SubmitTask")
  BY DEF submit_task
<1>2. t \in Tasks /\ Command.arg \in Sessions
  BY <1>1, RunningTypes, QueuedFields
<1>3. tasks[t] \in TaskRecord /\ control_sequence + 1 \in Nat
  BY <1>2 DEF TypeOK
<1>4. CASE UNCHANGED tasks
  BY <1>4, UnchangedTasksOK
<1>5. CASE tasks' = [tasks EXCEPT ![t] = new]
  <2>1. CASE tasks[t].state # "Absent"
    <3>1. tasks' = tasks
      BY <1>2, <1>5, <2>1 DEF TypeOK
    <3> QED
      BY <3>1, UnchangedTasksOK
  <2>2. CASE tasks[t].state = "Absent"
    <3>1. new \in TaskRecord /\ new.state = "Idle" /\ new.epoch = 0
      BY ZenonT(60), <1>2, <1>3, <2>2 DEF NoTask, TaskRecord, TaskStates
    <3> QED
      <4> HIDE DEF new
      <4>1. tasks[t].state \notin TerminalTask
        BY <2>2 DEF TerminalTask
      <4>2. "Idle" \notin Withdrawn
        BY DEF Withdrawn, TerminalTask
      <4> QED
        BY ZenonT(60), <1>2, <1>5, <2>2, <3>1, <4>1, <4>2, OneTaskOK
  <2> QED
    BY <2>1, <2>2
<1> QED
  BY <1>4, <1>5 DEF submit_task

(* The record complete_task leaves behind. *)
LEMMA SettledRecord ==
  ASSUME TypeOK, NEW t \in Tasks, NEW outcome \in {"Completed", "Failed"}
  PROVE  /\ SettledTask(t, outcome) \in TaskRecord
         /\ SettledTask(t, outcome).state = outcome
         /\ SettledTask(t, outcome).epoch > tasks[t].epoch
         /\ SettledTask(t, outcome).epoch >= tasks[t].epoch
<1>1. tasks[t] \in TaskRecord /\ control_sequence + 1 \in Nat
  BY DEF TypeOK
<1>2. outcome \in TerminalTask /\ outcome \in TaskStates
  BY DEF TerminalTask, TaskStates
<1>3. /\ tasks[t].epoch + 1 \in Nat /\ tasks[t].epoch + 1 > tasks[t].epoch
      /\ tasks[t].epoch + 1 >= tasks[t].epoch
  BY <1>1 DEF TaskRecord
<1> QED
  BY ZenonT(60), <1>1, <1>2, <1>3 DEF TaskRecord, SettledTask

(* complete_task settles a live task in a new epoch. *)
LEMMA CompleteTaskOK ==
  ASSUME TypeOK, complete_task
  PROVE  TasksStepOK
<1>1. Running("CompleteTask")
  BY DEF complete_task
<1>2. Command.target \in Tasks
  BY <1>1, RunningTypes, QueuedFields
<1>3. CASE UNCHANGED tasks
  BY <1>3, UnchangedTasksOK
<1>4. CASE ~UNCHANGED tasks
  <2>1. \E t \in Tasks, outcome \in {"Completed", "Failed"} :
          /\ tasks[t].state \notin TerminalTask
          /\ tasks' = [tasks EXCEPT ![t] = SettledTask(t, outcome)]
    BY <1>2, <1>4 DEF complete_task
  <2>2. PICK t \in Tasks, outcome \in {"Completed", "Failed"} :
          /\ tasks[t].state \notin TerminalTask
          /\ tasks' = [tasks EXCEPT ![t] = SettledTask(t, outcome)]
    BY ZenonT(60), <2>1
  <2>3. outcome # "Absent"
    OBVIOUS
  <2> QED
    BY ZenonT(60), <2>2, <2>3, SettledRecord, OneTaskOK
<1> QED
  BY <1>3, <1>4

(* A suspended, resumed or cancelled record is a later epoch of the task. *)
LEMMA SweptRecords ==
  ASSUME TypeOK, NEW t \in Tasks, NEW e \in Nat
  PROVE  /\ SuspendedTask(t) \in TaskRecord
         /\ SuspendedTask(t).state = "SuspendedForTakeover"
         /\ SuspendedTask(t).epoch = tasks[t].epoch + 1
         /\ ResumedTask(t, e) \in TaskRecord
         /\ ResumedTask(t, e).state = "Observing"
         /\ ResumedTask(t, e).epoch = tasks[t].epoch + 1
         /\ CancelledTask(t) \in TaskRecord
         /\ CancelledTask(t).state = "Cancelled"
         /\ CancelledTask(t).epoch = tasks[t].epoch + 1
         /\ tasks[t].epoch + 1 > tasks[t].epoch
<1>1. tasks[t] \in TaskRecord /\ control_sequence + 1 \in Nat
  BY DEF TypeOK
<1>2. tasks[t].epoch + 1 \in Nat /\ tasks[t].epoch + 1 > tasks[t].epoch
  BY <1>1 DEF TaskRecord
<1>3. /\ "SuspendedForTakeover" \in TaskStates /\ "Observing" \in TaskStates
      /\ "Cancelled" \in TaskStates /\ "Cancelled" \in TerminalTask
  BY DEF TaskStates, TerminalTask
<1> QED
  BY ZenonT(60), <1>1, <1>2, <1>3 DEF TaskRecord, SuspendedTask, ResumedTask, CancelledTask

\* request_human_takeover takes only steps of the task table.
LEMMA TakeoverOK ==
  ASSUME TypeOK, request_human_takeover
  PROVE  TasksStepOK
<1> DEFINE S == {t \in LiveTasksOf(Command.target) :
                   valid_task_transition(tasks[t].state, "TakeoverSettling")}
           r == [t \in Tasks |-> SuspendedTask(t)]
<1>1. CASE UNCHANGED tasks
  BY <1>1, UnchangedTasksOK
<1>2. CASE tasks' = [t \in Tasks |->
                IF /\ t \in LiveTasksOf(Command.target)
                   /\ valid_task_transition(tasks[t].state, "TakeoverSettling")
                  THEN SuspendedTask(t) ELSE tasks[t]]
  <2>1. tasks' = [t \in Tasks |-> IF t \in S THEN r[t] ELSE tasks[t]]
    BY <1>2
  <2>2. S \in SUBSET Tasks /\ \A t \in S : Live(t)
    BY DEF LiveTasksOf
  <2>3. \A t \in S : /\ r[t] \in TaskRecord /\ r[t].state # "Absent"
                     /\ r[t].epoch > tasks[t].epoch
    BY <2>2, SweptRecords
  <2> QED
    <3> HIDE DEF S, r
    <3> QED BY <2>1, <2>2, <2>3, SweepOK
<1> QED
  BY <1>1, <1>2 DEF request_human_takeover

\* release_human_takeover takes only steps of the task table.
LEMMA ReleaseOK ==
  ASSUME TypeOK, release_human_takeover
  PROVE  TasksStepOK
<1> DEFINE s == Command.target
           e == sessions[s].environment_epoch + 1
           S == {t \in Tasks : /\ tasks[t].session_id = s
                               /\ tasks[t].state = "SuspendedForTakeover"}
           r == [t \in Tasks |-> ResumedTask(t, e)]
<1>1. CASE UNCHANGED tasks
  BY <1>1, UnchangedTasksOK
<1>2. CASE tasks' = [t \in Tasks |->
                IF /\ tasks[t].session_id = s
                   /\ tasks[t].state = "SuspendedForTakeover"
                  THEN ResumedTask(t, e) ELSE tasks[t]]
  <2>1. tasks' = [t \in Tasks |-> IF t \in S THEN r[t] ELSE tasks[t]]
    BY <1>2
  <2>2. S \in SUBSET Tasks /\ \A t \in S : Live(t)
    BY DEF Live, TerminalTask
  <2>3. e \in Nat
    <3>1. Running("ReleaseTakeover")
      BY DEF release_human_takeover
    <3>2. s \in Sessions
      BY <3>1, RunningTypes, QueuedFields DEF SessionKinds
    <3> QED BY <3>2 DEF TypeOK, SessionRecord
  <2>4. \A t \in S : /\ r[t] \in TaskRecord /\ r[t].state # "Absent"
                     /\ r[t].epoch > tasks[t].epoch
    <3> HIDE DEF e
    <3> QED BY <2>2, <2>3, SweptRecords
  <2> QED
    <3> HIDE DEF S, r
    <3> QED BY <2>1, <2>2, <2>4, SweepOK
<1> QED
  BY <1>1, <1>2 DEF release_human_takeover

(* close_session and the shutdown callback cancel what is live. *)
LEMMA CancelSweepOK ==
  ASSUME TypeOK, NEW S \in SUBSET Tasks, \A t \in S : Live(t),
         tasks' = [t \in Tasks |-> IF t \in S THEN CancelledTask(t) ELSE tasks[t]]
  PROVE  TasksStepOK
<1> DEFINE r == [t \in Tasks |-> CancelledTask(t)]
<1>1. tasks' = [t \in Tasks |-> IF t \in S THEN r[t] ELSE tasks[t]]
  OBVIOUS
<1>2. \A t \in S : /\ r[t] \in TaskRecord /\ r[t].state # "Absent"
                   /\ r[t].epoch > tasks[t].epoch
  BY SweptRecords
<1> HIDE DEF r
<1> QED
  BY <1>1, <1>2, SweepOK

\* close_session takes only steps of the task table.
LEMMA CloseSessionOK ==
  ASSUME TypeOK, close_session
  PROVE  TasksStepOK
<1>1. LiveTasksOf(Command.target) \in SUBSET Tasks
  BY DEF LiveTasksOf
<1>2. \A t \in LiveTasksOf(Command.target) : Live(t)
  BY DEF LiveTasksOf
<1>3. CASE UNCHANGED tasks
  BY <1>3, UnchangedTasksOK
<1>4. CASE tasks' = [t \in Tasks |-> IF t \in LiveTasksOf(Command.target)
                                      THEN CancelledTask(t) ELSE tasks[t]]
  BY <1>1, <1>2, <1>4, CancelSweepOK
<1> QED
  BY <1>3, <1>4 DEF close_session

\* The shutdown callback takes only steps of the task table.
LEMMA ShutdownCallbackOK ==
  ASSUME TypeOK, shutdown_callback
  PROVE  TasksStepOK
<1> DEFINE S == {t \in Tasks : Live(t)}
<1>1. tasks' = [t \in Tasks |-> IF t \in S THEN CancelledTask(t) ELSE tasks[t]]
  BY DEF shutdown_callback
<1>2. S \in SUBSET Tasks /\ \A t \in S : Live(t)
  OBVIOUS
<1> HIDE DEF S
<1> QED
  BY <1>1, <1>2, CancelSweepOK

(* admit_operation_completion touches at most the task's control_sequence. *)
LEMMA CompletionOK ==
  ASSUME TypeOK, FencedIsOlder, admit_operation_completion
  PROVE  TasksStepOK
<1> DEFINE o == Command.target
           t == operations[o].task_id
           stamped == [tasks[t] EXCEPT !.control_sequence = control_sequence + 1]
<1>1. CASE UNCHANGED tasks
  BY <1>1, UnchangedTasksOK
<1>2. CASE ~UNCHANGED tasks
  <2>1. /\ operations[o].state # "Absent"
        /\ tasks[t].state \notin TerminalTask
        /\ tasks' = [tasks EXCEPT ![t].control_sequence = control_sequence + 1]
    BY <1>2 DEF admit_operation_completion, Current
  <2>2. o \in Operations
    <3>1. Running("OperationCompletion")
      BY DEF admit_operation_completion
    <3> QED BY <3>1, RunningTypes, QueuedFields
  <2>3. t \in Tasks
    BY <2>1, <2>2 DEF FencedIsOlder
  <2>4. tasks[t] \in TaskRecord /\ control_sequence + 1 \in Nat
    BY <2>3 DEF TypeOK
  <2> HIDE DEF t, o
  <2>5. stamped \in TaskRecord /\ stamped.state = tasks[t].state
          /\ stamped.epoch = tasks[t].epoch /\ tasks[t].epoch \in Nat
    BY <2>4 DEF TaskRecord
  <2>6. tasks' = [tasks EXCEPT ![t] = stamped]
    BY <2>1, <2>3 DEF TypeOK
  <2>7. tasks[t].state \notin TerminalTask
    BY <2>1
  <2>8. stamped.epoch >= tasks[t].epoch
    BY SMTT(60), <2>5
  <2> HIDE DEF stamped
  <2> QED
    BY ZenonT(60), <2>3, <2>5, <2>6, <2>7, <2>8, OneTaskOK
<1> QED
  BY <1>1, <1>2

(* What a callback may do to sessions and to begun operations. *)
SessionsTyped == sessions' \in [Sessions -> SessionRecord]

OperationStepOK ==
  /\ operations' \in [Operations -> OperationRecord]
  /\ \A o \in Operations :
       /\ operations'[o].state = "Absent" <=> operations[o].state = "Absent"
       /\ operations'[o].task_id = operations[o].task_id
       /\ operations'[o].task_epoch = operations[o].task_epoch

\* A command leaves sessions typed.
LEMMA SessionsStep ==
  ASSUME TypeOK, ControlStep
  PROVE  SessionsTyped
<1> USE DEF SessionsTyped
<1>0. sessions \in [Sessions -> SessionRecord]
  BY DEF TypeOK
<1>1. CASE UNCHANGED sessions
  BY <1>0, <1>1
<1>2. CASE open_session
  BY <1>0, <1>2 DEF open_session, SessionRecord, SessionStates
<1>3. CASE request_human_takeover
  BY <1>0, <1>3 DEF request_human_takeover, SessionRecord, SessionStates
<1>4. CASE release_human_takeover
  <2>1. Running("ReleaseTakeover")
    BY <1>4 DEF release_human_takeover
  <2>2. Command.target \in Sessions
    BY <2>1, RunningTypes, QueuedFields DEF SessionKinds
  <2>3. sessions[Command.target].environment_epoch + 1 \in Nat
    BY <1>0, <2>2 DEF SessionRecord
  <2> QED
    BY <1>0, <1>4, <2>3 DEF release_human_takeover, SessionRecord, SessionStates
<1>5. CASE close_session
  BY <1>0, <1>5 DEF close_session, SessionRecord, SessionStates
<1>6. CASE shutdown_callback
  <2>1. PICK failing \in SUBSET Sessions :
          sessions' = [s \in Sessions |->
            CASE s \in failing -> [sessions[s] EXCEPT !.state = "Failed"]
              [] sessions[s].state \in TerminalSession \cup {"Absent"} -> sessions[s]
              [] OTHER -> [sessions[s] EXCEPT !.state = "Closed"]]
    BY ZenonT(60), <1>6 DEF shutdown_callback
  <2>2. \A s \in Sessions : \/ sessions'[s] = [sessions[s] EXCEPT !.state = "Failed"]
                            \/ sessions'[s] = [sessions[s] EXCEPT !.state = "Closed"]
                            \/ sessions'[s] = sessions[s]
    BY <2>1
  <2>3. \A s \in Sessions : sessions'[s] \in SessionRecord
    BY ZenonT(60), <1>0, <2>2 DEF SessionRecord, SessionStates
  <2> QED
    BY <2>1, <2>3
<1> QED
  BY <1>1, <1>2, <1>3, <1>4, <1>5, <1>6 DEF ControlStep, submit_task,
     simple_task_command, complete_task, admit_operation_completion

(* Only a completion touches operations and only the shutdown callback the  *)
(* state of the runtime; every callback runs in the wrapper.                *)
LEMMA ControlFrame ==
  ASSUME ControlStep
  PROVE  /\ \E kind : Running(kind)
         /\ admit_operation_completion \/ UNCHANGED <<operations, applied>>
         /\ shutdown_callback \/ UNCHANGED <<runtime_state, shutdown_outcome>>
<1>1. CASE open_session
  BY <1>1 DEF open_session
<1>2. CASE submit_task
  BY <1>2 DEF submit_task
<1>3. CASE \E kind \in DOMAIN TaskTargets : simple_task_command(kind)
  BY <1>3 DEF simple_task_command
<1>4. CASE complete_task
  BY <1>4 DEF complete_task
<1>5. CASE request_human_takeover
  BY <1>5 DEF request_human_takeover
<1>6. CASE release_human_takeover
  BY <1>6 DEF release_human_takeover
<1>7. CASE close_session
  BY <1>7 DEF close_session
<1>8. CASE admit_operation_completion
  BY <1>8 DEF admit_operation_completion
<1>9. CASE shutdown_callback
  BY ZenonT(60), <1>9 DEF shutdown_callback
<1> QED
  BY <1>1, <1>2, <1>3, <1>4, <1>5, <1>6, <1>7, <1>8, <1>9 DEF ControlStep

\* A command leaves operations typed, with the task and epoch they began with.
LEMMA OperationsStep ==
  ASSUME TypeOK, ControlStep
  PROVE  OperationStepOK
<1>0. operations \in [Operations -> OperationRecord]
  BY DEF TypeOK
<1>1. CASE UNCHANGED operations
  BY <1>0, <1>1 DEF OperationStepOK
<1>2. CASE operations' = [operations EXCEPT ![Command.target].state = "Settled"]
           /\ operations[Command.target].state # "Absent"
  BY ZenonT(60), <1>0, <1>2 DEF OperationStepOK, OperationRecord
<1>3. CASE admit_operation_completion
  BY <1>1, <1>2, <1>3 DEF admit_operation_completion
<1> QED
  BY <1>1, <1>3, ControlFrame

(* Every callback keeps the task records as TasksStepOK says. *)
LEMMA ControlTasks ==
  ASSUME TypeOK, FencedIsOlder, ControlStep
  PROVE  TasksStepOK
<1>1. CASE open_session
  BY <1>1, UnchangedTasksOK DEF open_session
<1> QED
  BY <1>1, SubmitTaskOK, SimpleTaskCommandOK, CompleteTaskOK, TakeoverOK,
     ReleaseOK, CloseSessionOK, CompletionOK, ShutdownCallbackOK DEF ControlStep

\* A command keeps the types.
LEMMA ControlTypes ==
  ASSUME TypeOK, FencedIsOlder, ControlStep
  PROVE  TypeOK'
<1>1. PICK kind : Running(kind)
  BY ControlFrame
<1>2. /\ queue' \in Seq(QueuedCommand)
      /\ control_sequence' \in Nat
      /\ UNCHANGED <<executor, shutdown_command, lost, issued, consumed,
                     finalizer, failure, final_report>>
  BY <1>1, RunningTypes
<1>3. /\ tasks' \in [Tasks -> TaskRecord]
      /\ sessions' \in [Sessions -> SessionRecord]
      /\ operations' \in [Operations -> OperationRecord]
  BY ControlTasks, SessionsStep, OperationsStep
     DEF TasksStepOK, SessionsTyped, OperationStepOK
<1>4. /\ runtime_state' \in RuntimeStates
      /\ shutdown_outcome' \in {"pending", "Applied", "Failed"}
  <2>1. CASE UNCHANGED <<runtime_state, shutdown_outcome>>
    BY <2>1 DEF TypeOK
  <2>2. CASE shutdown_callback
    BY <2>2 DEF shutdown_callback, TypeOK, RuntimeStates
  <2> QED
    BY <2>1, <2>2, ControlFrame
<1>5. applied' \in SUBSET Operations
  <2>1. CASE UNCHANGED applied
    BY <2>1 DEF TypeOK
  <2>2. CASE admit_operation_completion
    <3>1. Running("OperationCompletion")
      BY <2>2 DEF admit_operation_completion
    <3>2. Command.target \in Operations
      BY SMTT(60), <3>1, RunningTypes, QueuedFields
    <3> QED
      BY SMTT(60), <2>2, <3>2 DEF admit_operation_completion, TypeOK
  <2> QED
    BY <2>1, <2>2, ControlFrame
<1>6. fenced' \in SUBSET Operations
  BY DEF ControlStep, TrackFences, TypeOK
<1> QED
  BY <1>2, <1>3, <1>4, <1>5, <1>6 DEF TypeOK

\* Queueing the shutdown command keeps the types it touches.
LEMMA SubmitShutdownTypes ==
  ASSUME TypeOK, SubmitShutdown
  PROVE  /\ issued' \in Nat /\ queue' \in Seq(QueuedCommand)
         /\ shutdown_command' \in Nat
<1>1. issued \in Nat /\ issued + 1 \in Nat /\ queue \in Seq(QueuedCommand)
        /\ shutdown_command \in Nat
  BY DEF TypeOK
<1>2. [id |-> issued + 1, kind |-> "ShutdownRuntime", target |-> NoId,
       arg |-> NoId] \in QueuedCommand
  BY <1>1, ShutdownIsQueued
<1> QED
  BY SMTT(60), <1>1, <1>2, AppendProperties DEF SubmitShutdown

\* request_shutdown keeps the types it touches.
LEMMA RequestShutdownTypes ==
  ASSUME TypeOK, RequestShutdownAdmitted
  PROVE  /\ issued' \in Nat /\ queue' \in Seq(QueuedCommand)
         /\ shutdown_command' \in Nat /\ runtime_state' \in RuntimeStates
BY SubmitShutdownTypes DEF RequestShutdownAdmitted, TypeOK, RuntimeStates

(* Every other step leaves the records, their histories, or all but one    *)
(* operation alone.                                                        *)
LEMMA OtherTypes ==
  ASSUME TypeOK,
         \/ initialize \/ SubmitCommand \/ LoseSubmission
         \/ \E t \in Tasks : begin_operation(t)
         \/ request_shutdown \/ FinishStep
  PROVE  TypeOK'
<1> USE DEF recordVars, commandVars, finalizerVars, FinalizerFrame
<1>1. CASE initialize
  BY <1>1 DEF initialize, TypeOK, RuntimeStates
<1>2. CASE SubmitCommand
  <2>1. PICK r \in CommandRequests : Enqueue(r)
    BY <1>2 DEF SubmitCommand
  <2>2. issued + 1 \in Nat
    BY DEF TypeOK
  <2>3. queue' \in Seq(QueuedCommand) /\ issued' \in Nat
    <3> DEFINE c == [id |-> issued + 1, kind |-> r.kind, target |-> r.target,
                     arg |-> r.arg]
    <3>1. c \in QueuedCommand
      BY <2>2, RequestIsQueued
    <3>2. queue' = Append(queue, c) /\ issued' = issued + 1
      BY <2>1 DEF Enqueue
    <3> HIDE DEF c
    <3> QED
      BY <2>2, <3>1, <3>2, AppendProperties DEF TypeOK
  <2>4. lost' = lost
    BY SMTT(60), <2>1 DEF Enqueue
  <2> QED
    BY <1>2, <2>3, <2>4 DEF SubmitCommand, TypeOK
<1>3. CASE LoseSubmission
  <2>1. PICK i \in 1..Len(queue) :
          /\ lost'  = lost \cup {queue[i].id}
          /\ queue' = [j \in 1..(Len(queue) - 1) |->
                         IF j < i THEN queue[j] ELSE queue[j + 1]]
    BY <1>3 DEF LoseSubmission
  <2>2. queue \in Seq(QueuedCommand)
    BY DEF TypeOK
  <2>3. queue' \in Seq(QueuedCommand)
    BY <2>1, <2>2, DroppedQueue
  <2>4. queue[i] \in QueuedCommand
    BY <2>2, ElementOfSeq
  <2>5. queue[i].id \in Nat
    BY <2>4 DEF QueuedCommand
  <2> QED
    BY ZenonT(60), <1>3, <2>1, <2>3, <2>5 DEF LoseSubmission, TypeOK
<1>4. CASE \E t \in Tasks : begin_operation(t)
  <2>1. PICK t \in Tasks : begin_operation(t)
    BY <1>4
  <2>2. [state |-> "Submitted", task_id |-> t, task_epoch |-> tasks[t].epoch]
          \in OperationRecord
    BY DEF TypeOK, TaskRecord, OperationRecord
  <2>3. operations' \in [Operations -> OperationRecord]
    BY <2>1, <2>2 DEF begin_operation, TypeOK
  <2> QED
    BY <2>1, <2>3 DEF begin_operation, TypeOK
<1>5. CASE request_shutdown
  BY SMTT(60), <1>5, RequestShutdownTypes DEF request_shutdown, TypeOK
<1>6. CASE FinishRequest
  BY ZenonT(60), <1>6, RequestShutdownTypes DEF FinishRequest, TypeOK
<1>7. CASE ConsumeCommand
  BY <1>7 DEF ConsumeCommand, TypeOK
<1>8. CASE FinishRetry
  BY ZenonT(60), <1>8, SubmitShutdownTypes DEF FinishRetry, TypeOK
<1>9. CASE FinishQuiesce
  BY <1>9 DEF FinishQuiesce, TypeOK, RuntimeStates
<1>10. CASE FinishReport
  BY ZenonT(60), <1>10 DEF FinishReport, TypeOK, RuntimeStates
<1> QED
  BY SMTT(60), <1>1, <1>2, <1>3, <1>4, <1>5, <1>6, <1>7, <1>8, <1>9, <1>10 DEF FinishStep

-----------------------------------------------------------------------------
(* The fence *)

(***************************************************************************)
(* A callback that respects TasksStepOK and OperationStepOK preserves the  *)
(* fence: epochs only grow, and grow strictly where TrackFences adds one.  *)
(***************************************************************************)
LEMMA ControlFence ==
  ASSUME TypeOK, FencedIsOlder, ControlStep
  PROVE  FencedIsOlder'
<1>1. TasksStepOK /\ OperationStepOK
  BY ControlTasks, OperationsStep
<1>2. ASSUME NEW o \in Operations, operations'[o].state # "Absent"
      PROVE  /\ operations'[o].task_id \in Tasks
             /\ tasks'[operations'[o].task_id].state # "Absent"
             /\ operations'[o].task_epoch <= tasks'[operations'[o].task_id].epoch
  <2>1. operations[o].state # "Absent"
    BY <1>1, <1>2 DEF OperationStepOK
  <2>2. PICK t \in Tasks : t = operations[o].task_id
    BY <2>1 DEF FencedIsOlder
  <2>3. /\ tasks[t].state # "Absent" /\ operations[o].task_epoch <= tasks[t].epoch
    BY <2>1, <2>2 DEF FencedIsOlder
  <2>4. /\ tasks'[t].state # "Absent" /\ tasks'[t].epoch >= tasks[t].epoch
        /\ tasks'[t] \in TaskRecord
    BY <1>1, <2>3 DEF TasksStepOK, TaskStepOK
  <2>5. /\ tasks'[t].epoch \in Nat /\ tasks[t].epoch \in Nat
        /\ operations[o].task_epoch \in Nat
    BY <2>4 DEF TypeOK, TaskRecord, OperationRecord
  <2>6. operations'[o].task_id = t /\ operations'[o].task_epoch = operations[o].task_epoch
    BY <1>1, <2>2 DEF OperationStepOK
  <2> QED
    BY <2>3, <2>4, <2>5, <2>6
<1>3. ASSUME NEW o \in fenced'
      PROVE  /\ operations'[o].state # "Absent"
             /\ operations'[o].task_epoch < tasks'[operations'[o].task_id].epoch
  <2>1. o \in Operations /\ operations[o].state # "Absent"
    BY <1>3 DEF ControlStep, TrackFences, FencedIsOlder, TypeOK
  <2>2. PICK t \in Tasks : t = operations[o].task_id
    BY <2>1 DEF FencedIsOlder
  <2>3. /\ tasks[t].state # "Absent" /\ operations[o].task_epoch <= tasks[t].epoch
    BY <2>1, <2>2 DEF FencedIsOlder
  <2>4. \/ operations[o].task_epoch < tasks[t].epoch
        \/ tasks'[t].state # tasks[t].state /\ tasks'[t].state \in Withdrawn
    BY <1>3, <2>2 DEF ControlStep, TrackFences, FencedIsOlder
  <2>5. /\ tasks'[t].epoch >= tasks[t].epoch /\ tasks'[t] \in TaskRecord
        /\ (tasks'[t].state # tasks[t].state /\ tasks'[t].state \in Withdrawn)
             => tasks'[t].epoch > tasks[t].epoch
    BY SMTT(60), <1>1, <2>3 DEF TasksStepOK, TaskStepOK
  <2>6. /\ tasks'[t].epoch \in Nat /\ tasks[t].epoch \in Nat
        /\ operations[o].task_epoch \in Nat
    BY <2>1, <2>5 DEF TypeOK, TaskRecord, OperationRecord
  <2>7. /\ operations'[o].task_id = t
        /\ operations'[o].task_epoch = operations[o].task_epoch
        /\ operations'[o].state # "Absent"
    BY SMTT(60), <1>1, <2>1, <2>2 DEF OperationStepOK
  <2> QED
    BY SMTT(60), <2>3, <2>4, <2>5, <2>6, <2>7
<1> QED
  BY <1>2, <1>3 DEF FencedIsOlder

(* An operation begins in its task's current epoch and unfenced. *)
LEMMA BeginFence ==
  ASSUME TypeOK, FencedIsOlder, NEW t \in Tasks, begin_operation(t)
  PROVE  FencedIsOlder'
<1>1. PICK o \in Operations :
        /\ operations[o].state = "Absent"
        /\ operations' = [operations EXCEPT ![o] =
             [state |-> "Submitted", task_id |-> t, task_epoch |-> tasks[t].epoch]]
  BY ZenonT(60) DEF begin_operation
<1>2. tasks' = tasks /\ fenced' = fenced
  BY DEF begin_operation
<1>3. tasks[t].state # "Absent" /\ tasks[t].epoch \in Nat
  BY DEF begin_operation, AdmitsOperations, TypeOK, TaskRecord
<1>4. o \notin fenced
  BY <1>1 DEF FencedIsOlder
<1>5. \A p \in Operations : operations'[p] =
        IF p = o THEN [state |-> "Submitted", task_id |-> t,
                       task_epoch |-> tasks[t].epoch]
                 ELSE operations[p]
  BY <1>1 DEF TypeOK
<1>6. fenced \subseteq Operations
  BY SMTT(60) DEF TypeOK
<1> QED
  BY <1>2, <1>3, <1>4, <1>5, <1>6 DEF FencedIsOlder

(* The steps of the host and of the finalizer that touch no record. *)
LEMMA OtherRecords ==
  ASSUME \/ initialize \/ SubmitCommand \/ LoseSubmission
         \/ request_shutdown \/ FinishStep
  PROVE  UNCHANGED <<sessions, tasks, operations, applied, fenced>>
BY DEF initialize, SubmitCommand, LoseSubmission, request_shutdown, FinishStep,
   FinishRequest, ConsumeCommand, FinishRetry, FinishQuiesce, FinishReport,
   FinalizerFrame, recordVars

(* No step outside the control context settles a task or applies a result. *)
LEMMA OutsideControl ==
  ASSUME [Next]_vars, ~ControlStep
  PROVE  UNCHANGED <<tasks, applied>>
<1>1. CASE \E t \in Tasks : begin_operation(t)
  BY <1>1 DEF begin_operation
<1>2. CASE \/ initialize \/ SubmitCommand \/ LoseSubmission
           \/ request_shutdown \/ FinishStep
  BY <1>2, OtherRecords
<1>3. CASE UNCHANGED vars
  BY <1>3 DEF vars
<1> QED
  BY <1>1, <1>2, <1>3 DEF Next

-----------------------------------------------------------------------------
(* Theorems *)

\* Types and fence hold initially.
LEMMA InitInvariant == Init => TypeOK /\ FencedIsOlder
<1> SUFFICES ASSUME Init PROVE TypeOK /\ FencedIsOlder
  OBVIOUS
<1>1. NoTask \in TaskRecord /\ NoSession \in SessionRecord
        /\ NoOperation \in OperationRecord
  BY DEF NoTask, TaskRecord, NoSession, SessionRecord, NoOperation, OperationRecord
<1>2. TypeOK
  BY ZenonT(60), <1>1, EmptySeq DEF Init, TypeOK, RuntimeStates
<1>3. FencedIsOlder
  BY DEF Init, FencedIsOlder, NoOperation
<1> QED
  BY <1>2, <1>3

\* Every step keeps types and fence.
LEMMA NextInvariant == TypeOK /\ FencedIsOlder /\ [Next]_vars => (TypeOK /\ FencedIsOlder)'
<1> SUFFICES ASSUME TypeOK, FencedIsOlder, [Next]_vars
             PROVE  TypeOK' /\ FencedIsOlder'
  OBVIOUS
<1>1. CASE ControlStep
  BY <1>1, ControlTypes, ControlFence
<1>2. CASE \E t \in Tasks : begin_operation(t)
  BY <1>2, OtherTypes, BeginFence
<1>3. CASE \/ initialize \/ SubmitCommand \/ LoseSubmission
           \/ request_shutdown \/ FinishStep
  <2>1. TypeOK'
    BY <1>3, OtherTypes
  <2>2. FencedIsOlder'
    BY SMTT(60), <1>3, OtherRecords DEF FencedIsOlder
  <2> QED
    BY <2>1, <2>2
<1>4. CASE UNCHANGED vars
  BY <1>4 DEF vars, TypeOK, FencedIsOlder
<1> QED
  BY <1>1, <1>2, <1>3, <1>4 DEF Next

(* Every record of the control plane keeps its type. *)
THEOREM TypeCorrect == Spec => []TypeOK
BY InitInvariant, NextInvariant, PTL DEF Spec

(* A withdrawn operation is strictly older than its task, always. *)
THEOREM FencedStaysOlder == Spec => []FencedIsOlder
BY InitInvariant, NextInvariant, PTL DEF Spec

(***************************************************************************)
(* A completion admitted after its task was withdrawn is never applied.    *)
(***************************************************************************)
THEOREM FenceHolds == Spec => EpochFence
<1>1. ASSUME TypeOK, FencedIsOlder, [Next]_vars, NEW o \in applied' \ applied
      PROVE  o \notin fenced
  <2>1. admit_operation_completion
    BY <1>1, ControlFrame, OutsideControl
  <2>2. Running("OperationCompletion")
    BY <2>1 DEF admit_operation_completion
  <2>3. o = Command.target /\ Current(o)
    BY SMTT(60), <1>1, <2>1 DEF admit_operation_completion
  <2>4. o \in Operations
    <3>1. Command \in QueuedCommand /\ Command.kind = "OperationCompletion"
      BY SMTT(60), <1>1, <2>2, RunningTypes
    <3> QED
      BY <2>3, <3>1, QueuedFields
  <2>5. tasks[operations[o].task_id].epoch = operations[o].task_epoch
    BY <2>3 DEF Current
  <2>6. operations[o].task_epoch \in Nat
    BY <1>1, <2>4 DEF TypeOK, OperationRecord
  <2> QED
    BY <1>1, <2>5, <2>6 DEF FencedIsOlder
<1>2. TypeOK /\ FencedIsOlder /\ [Next]_vars
        => [\A o \in applied' \ applied : o \notin fenced]_vars
  BY <1>1
<1> QED
  BY <1>2, TypeCorrect, FencedStaysOlder, PTL DEF Spec, EpochFence

(***************************************************************************)
(* A settled task's record never changes again.                            *)
(***************************************************************************)
THEOREM TerminalNeverChanges == Spec => TerminalStable
<1>1. ASSUME TypeOK, FencedIsOlder, [Next]_vars, NEW t \in Tasks,
             tasks[t].state \in TerminalTask
      PROVE  tasks'[t] = tasks[t]
  <2>1. CASE ControlStep
    BY ZenonT(60), <1>1, <2>1, ControlTasks DEF TasksStepOK, TaskStepOK
  <2>2. CASE ~ControlStep
    BY SMTT(60), <1>1, <2>2, OutsideControl
  <2> QED
    BY SMTT(60), <2>1, <2>2
<1>2. TypeOK /\ FencedIsOlder /\ [Next]_vars
        => [\A t \in Tasks : tasks[t].state \in TerminalTask
                               => tasks'[t] = tasks[t]]_vars
  BY <1>1
<1> QED
  BY <1>2, TypeCorrect, FencedStaysOlder, PTL DEF Spec, TerminalStable

-----------------------------------------------------------------------------
(* Shutdown *)

(***************************************************************************)
(* Why a report tells the truth.  Command ids are handed out in order, and *)
(* the finalizer consumes them in order: what still waits, or was dropped  *)
(* unsettled, lies above consumed.                                         *)
(***************************************************************************)
Numbered ==
  /\ consumed <= issued
  /\ \A i \in 1..Len(queue) :
       consumed < queue[i].id /\ queue[i].id <= issued /\ queue[i].id \notin lost
  /\ \A i, j \in 1..Len(queue) : queue[i].id = queue[j].id => i = j
  /\ \A c \in lost : consumed < c /\ c <= issued

(* Nothing is admitted once the runtime is Stopping, so the shutdown       *)
(* command is the last one in the queue and there is only one.             *)
ShutdownLast ==
  /\ \A i \in 1..Len(queue) : queue[i].kind = "ShutdownRuntime" =>
       /\ i = Len(queue)
       /\ queue[i].id = shutdown_command
       /\ runtime_state = "Stopping"
  /\ shutdown_command # 0 => runtime_state \notin {"Constructed", "Running"}

(* Without an executor nothing was ever admitted or opened; nobody sees    *)
(* initialize half way.                                                    *)
BeforeStart ==
  /\ runtime_state # "Initializing"
  /\ IF executor = "none"
       THEN /\ queue = <<>> /\ issued = 0 /\ shutdown_command = 0
            /\ runtime_state # "Running"
            /\ \A t \in Tasks : tasks[t].state = "Absent"
            /\ \A s \in Sessions : sessions[s].state = "Absent"
       ELSE runtime_state # "Constructed"

(* What finish_shutdown knows in each of its critical sections. *)
Finishing ==
  /\ finalizer # "idle" => runtime_state \notin {"Constructed", "Running"}
  /\ finalizer \in {"consume", "consume_again"} /\ runtime_state = "Failed"
       => shutdown_command # 0
  /\ finalizer = "consume_again" /\ executor # "none"
       /\ runtime_state = "Stopping" /\ shutdown_command = 0 => failure
  /\ finalizer = "close" \/ final_report # "none" =>
       /\ executor # "open"
       /\ consumed = issued
       /\ runtime_state \notin {"Constructed", "Running"}

(* The runtime is Quiesced exactly when its shutdown command was applied;  *)
(* a session fails only in the callback of that command, the last to run.  *)
Outcome ==
  /\ shutdown_outcome = "Applied" =>
       runtime_state \in {"Quiesced", "Stopped"} /\ shutdown_command \notin lost
  /\ runtime_state \in {"Quiesced", "Stopped"} =>
       queue = <<>> /\ (executor # "none" => shutdown_outcome = "Applied")
  /\ \A s \in Sessions : sessions[s].state = "Failed" =>
       queue = <<>> /\ shutdown_command # 0
  /\ final_report = "clean" => runtime_state = "Stopped"
  /\ QuiescedIsQuiet

ShutInv == Numbered /\ ShutdownLast /\ BeforeStart /\ Finishing /\ Outcome

(* The queue behind its first command. *)
LEMMA TailAt ==
  ASSUME NEW S, NEW q \in Seq(S), q # <<>>
  PROVE  /\ Len(q) \in Nat /\ 1 \in 1..Len(q) /\ Head(q) = q[1]
         /\ Len(Tail(q)) = Len(q) - 1
         /\ \A i \in 1..(Len(q) - 1) : i + 1 \in 1..Len(q) /\ Tail(q)[i] = q[i + 1]
OBVIOUS

(* The queue with a command at its end. *)
LEMMA AppendAt ==
  ASSUME NEW S, NEW q \in Seq(S), NEW c \in S
  PROVE  /\ Len(q) \in Nat /\ Len(Append(q, c)) = Len(q) + 1
         /\ \A i \in 1..Len(q) : Append(q, c)[i] = q[i]
         /\ Append(q, c)[Len(q) + 1] = c
BY AppendProperties

(* The callback wrapper leaves the rest of a numbered queue numbered. *)
LEMMA RunningNumbered ==
  ASSUME TypeOK, Numbered, NEW kind, Running(kind)
  PROVE  Numbered'
<1>1. /\ queue \in Seq(QueuedCommand) /\ queue # <<>> /\ queue' = Tail(queue)
      /\ UNCHANGED <<lost, issued, consumed>>
  BY DEF TypeOK, Running, finalizerVars
<1>2. /\ Len(queue) \in Nat /\ Len(queue') = Len(queue) - 1
      /\ \A i \in 1..Len(queue') : i + 1 \in 1..Len(queue) /\ queue'[i] = queue[i + 1]
  BY <1>1, TailAt
<1> QED
  BY <1>1, <1>2 DEF Numbered

(* A callback other than the shutdown: the runtime is not quiescent while  *)
(* commands wait, so only the queue and the records have changed.          *)
LEMMA CallbackKeeps ==
  ASSUME TypeOK, ShutInv, NEW kind, kind # "ShutdownRuntime", Running(kind),
         UNCHANGED <<runtime_state, shutdown_outcome>>,
         \A s \in Sessions : sessions'[s].state = "Failed" => sessions[s].state = "Failed"
  PROVE  ShutInv'
<1>1. /\ queue \in Seq(QueuedCommand) /\ queue # <<>> /\ queue' = Tail(queue)
      /\ UNCHANGED <<executor, shutdown_command, lost, issued, consumed,
                     finalizer, failure, final_report>>
  BY DEF TypeOK, Running, finalizerVars
<1>2. /\ Len(queue) \in Nat /\ Len(queue') = Len(queue) - 1
      /\ \A i \in 1..Len(queue') : i + 1 \in 1..Len(queue) /\ queue'[i] = queue[i + 1]
  BY <1>1, TailAt
<1>3. Numbered'
  BY RunningNumbered DEF ShutInv
<1>4. ShutdownLast'
  <2>1. ASSUME NEW i \in 1..Len(queue'), queue'[i].kind = "ShutdownRuntime"
        PROVE  /\ i = Len(queue') /\ queue'[i].id = shutdown_command
               /\ runtime_state = "Stopping"
    <3>1. /\ i + 1 \in 1..Len(queue) /\ queue[i + 1].kind = "ShutdownRuntime"
          /\ queue'[i] = queue[i + 1]
      BY <1>2, <2>1
    <3>2. /\ i + 1 = Len(queue) /\ queue[i + 1].id = shutdown_command
          /\ runtime_state = "Stopping"
      BY <3>1 DEF ShutInv, ShutdownLast
    <3> QED
      BY SMTT(60), <1>2, <3>1, <3>2
  <2> QED
    BY <1>1, <2>1 DEF ShutInv, ShutdownLast
<1>5. BeforeStart'
  BY <1>1 DEF ShutInv, BeforeStart
<1>6. Finishing'
  BY <1>1 DEF ShutInv, Finishing
<1>7. Outcome'
  BY <1>1 DEF ShutInv, Outcome, QuiescedIsQuiet
<1> QED
  BY <1>3, <1>4, <1>5, <1>6, <1>7 DEF ShutInv

(* Only the shutdown callback fails a session, and it is the only callback *)
(* of its kind.                                                            *)
LEMMA OrdinaryCallback ==
  ASSUME TypeOK, ControlStep, ~shutdown_callback
  PROVE  /\ \E kind : kind # "ShutdownRuntime" /\ Running(kind)
         /\ \A s \in Sessions : sessions'[s].state = "Failed" => sessions[s].state = "Failed"
<1> DEFINE Kept == \A s \in Sessions :
                     sessions'[s].state = "Failed" => sessions[s].state = "Failed"
<1>0. sessions \in [Sessions -> SessionRecord]
  BY DEF TypeOK
<1>1. CASE open_session
  BY <1>0, <1>1 DEF open_session
<1>2. CASE submit_task
  BY <1>2 DEF submit_task
<1>3. CASE \E kind \in DOMAIN TaskTargets : simple_task_command(kind)
  <2>1. PICK kind \in DOMAIN TaskTargets : simple_task_command(kind)
    BY <1>3
  <2>2. Running(kind) /\ UNCHANGED sessions
    BY <2>1 DEF simple_task_command
  <2>3. kind # "ShutdownRuntime"
    BY SMTT(60) DEF TaskTargets
  <2> QED
    BY <2>2, <2>3
<1>4. CASE complete_task
  BY <1>4 DEF complete_task
<1>5. CASE request_human_takeover
  <2>1. Kept
    BY <1>0, <1>5 DEF request_human_takeover, SessionRecord
  <2> QED
    BY <1>5, <2>1 DEF request_human_takeover
<1>6. CASE release_human_takeover
  <2>1. Kept
    BY <1>0, <1>6 DEF release_human_takeover, SessionRecord
  <2> QED
    BY <1>6, <2>1 DEF release_human_takeover
<1>7. CASE close_session
  <2>1. Kept
    BY <1>0, <1>7 DEF close_session, SessionRecord
  <2> QED
    BY <1>7, <2>1 DEF close_session
<1>8. CASE admit_operation_completion
  BY <1>8 DEF admit_operation_completion
<1> QED
  BY <1>1, <1>2, <1>3, <1>4, <1>5, <1>6, <1>7, <1>8 DEF ControlStep

(***************************************************************************)
(* The shutdown callback is the last command: after it nothing waits, no   *)
(* task is live, and the runtime is Quiesced only if every environment was *)
(* released.                                                               *)
(***************************************************************************)
LEMMA ShutdownCallbackKeeps ==
  ASSUME TypeOK, ShutInv, shutdown_callback
  PROVE  ShutInv'
<1>1. /\ queue \in Seq(QueuedCommand) /\ queue # <<>> /\ queue' = Tail(queue)
      /\ Command = Head(queue) /\ Command.kind = "ShutdownRuntime"
      /\ UNCHANGED <<executor, shutdown_command, lost, issued, consumed,
                     finalizer, failure, final_report>>
  BY DEF TypeOK, shutdown_callback, Running, Command, finalizerVars
<1>2. /\ Len(queue) \in Nat /\ 1 \in 1..Len(queue) /\ queue[1] = Command
  BY <1>1, TailAt
<1>3. /\ Len(queue) = 1 /\ Command.id = shutdown_command
      /\ runtime_state = "Stopping" /\ Command.id \notin lost
      /\ consumed < shutdown_command
  BY ZenonT(60), <1>1, <1>2 DEF ShutInv, ShutdownLast, Numbered
<1>4. queue' = <<>> /\ Len(queue') = 0
  <2>1. queue' \in Seq(QueuedCommand) /\ Len(queue') = 0
    BY <1>1, <1>3, TailAt
  <2> QED
    BY <2>1
<1>5. shutdown_command # 0
  BY <1>3 DEF TypeOK
<1>6. PICK failing \in SUBSET {s \in Sessions :
               sessions[s].state \notin TerminalSession \cup {"Absent"}} :
        /\ sessions' = [s \in Sessions |->
             CASE s \in failing -> [sessions[s] EXCEPT !.state = "Failed"]
               [] sessions[s].state \in TerminalSession \cup {"Absent"} -> sessions[s]
               [] OTHER -> [sessions[s] EXCEPT !.state = "Closed"]]
        /\ runtime_state' = IF failing = {} THEN "Quiesced" ELSE "Failed"
        /\ shutdown_outcome' = IF failing = {} THEN "Applied" ELSE "Failed"
  BY SMTT(60), <1>3 DEF shutdown_callback, valid_runtime_transition, RuntimeSuccessors
<1>7. Numbered'
  BY RunningNumbered DEF ShutInv, shutdown_callback
<1>8. ShutdownLast'
  BY <1>4, <1>6 DEF ShutdownLast
<1>9. executor # "none" /\ BeforeStart'
  BY <1>1, <1>6 DEF ShutInv, BeforeStart
<1>10. Finishing'
  BY <1>1, <1>3, <1>5, <1>6 DEF ShutInv, Finishing
<1>11. ASSUME failing = {}
       PROVE  QuiescedIsQuiet'
  <2>1. \A t \in Tasks : ~Live(t)'
    <3>1. tasks' = [t \in Tasks |-> IF Live(t) THEN CancelledTask(t) ELSE tasks[t]]
      BY DEF shutdown_callback
    <3>2. \A t \in Tasks : tasks[t] \in TaskRecord
      BY DEF TypeOK
    <3>3. \A t \in Tasks : CancelledTask(t).state = "Cancelled"
      BY <3>2 DEF CancelledTask, TaskRecord
    <3> QED
      BY <3>1, <3>3 DEF Live, TerminalTask
  <2>2. \A s \in Sessions : sessions[s].state # "Failed"
    BY <1>1 DEF ShutInv, Outcome
  <2>3. \A s \in Sessions : sessions[s] \in SessionRecord
    BY DEF TypeOK
  <2>4. \A s \in Sessions : sessions'[s].state \in {"Absent", "Closed"}
    BY <1>6, <1>11, <2>2, <2>3 DEF SessionRecord, TerminalSession
  <2> QED
    BY <2>1, <2>4 DEF QuiescedIsQuiet
<1>12. QuiescedIsQuiet'
  BY <1>6, <1>11 DEF QuiescedIsQuiet
<1>13. final_report # "clean"
  BY <1>3 DEF ShutInv, Outcome
<1>14. Outcome'
  BY SMTT(60), <1>1, <1>3, <1>4, <1>5, <1>6, <1>12, <1>13 DEF Outcome
<1> QED
  BY <1>7, <1>8, <1>9, <1>10, <1>14 DEF ShutInv

(* Appending the next command keeps the queue numbered. *)
LEMMA AppendNumbered ==
  ASSUME TypeOK, Numbered, NEW c \in QueuedCommand, c.id = issued + 1,
         queue' = Append(queue, c), issued' = issued + 1, UNCHANGED <<lost, consumed>>
  PROVE  Numbered'
<1>1. /\ Len(queue) \in Nat /\ Len(queue') = Len(queue) + 1
      /\ \A i \in 1..Len(queue) : queue'[i] = queue[i]
      /\ queue'[Len(queue) + 1] = c
  BY AppendAt DEF TypeOK
<1>2. issued \in Nat /\ consumed \in Nat /\ lost \in SUBSET Nat
  BY DEF TypeOK
<1>3. \A i \in 1..Len(queue') : i \in 1..Len(queue) \/ i = Len(queue) + 1
  BY SMTT(60), <1>1
<1>4. \A i \in 1..Len(queue) : queue[i].id <= issued /\ queue[i].id \in Nat
  <2>1. \A i \in 1..Len(queue) : queue[i] \in QueuedCommand
    BY ElementOfSeq DEF TypeOK
  <2> QED
    BY <2>1 DEF Numbered, QueuedCommand
<1>5. \A i \in 1..Len(queue') :
         consumed < queue'[i].id /\ queue'[i].id <= issued' /\ queue'[i].id \notin lost
  BY <1>1, <1>2, <1>3, <1>4 DEF Numbered
<1>6. \A i, j \in 1..Len(queue') : queue'[i].id = queue'[j].id => i = j
  BY <1>1, <1>2, <1>3, <1>4 DEF Numbered
<1>7. consumed <= issued' /\ \A d \in lost : consumed < d /\ d <= issued'
  BY <1>2 DEF Numbered
<1> QED
  BY <1>5, <1>6, <1>7 DEF Numbered

(* enqueue admits a command only while the runtime is Running. *)
LEMMA SubmitKeeps ==
  ASSUME TypeOK, ShutInv, SubmitCommand
  PROVE  ShutInv'
<1>1. PICK r \in CommandRequests : Enqueue(r)
  BY DEF SubmitCommand
<1> DEFINE c == [id |-> issued + 1, kind |-> r.kind, target |-> r.target, arg |-> r.arg]
<1>2. /\ runtime_state = "Running" /\ executor = "open"
      /\ queue' = Append(queue, c) /\ issued' = issued + 1 /\ lost' = lost
      /\ UNCHANGED <<runtime_state, executor, shutdown_command, shutdown_outcome,
                     sessions, tasks, consumed, finalizer, failure, final_report>>
  BY <1>1 DEF SubmitCommand, Enqueue, Admitted, recordVars, finalizerVars
<1>3. issued + 1 \in Nat
  BY DEF TypeOK
<1>4. c \in QueuedCommand
  BY SMTT(60), <1>3, RequestIsQueued
<1>5. c.id = issued + 1 /\ c.kind # "ShutdownRuntime"
  BY DEF CommandRequests, SessionKinds, TaskTargets
<1> HIDE DEF c
<1>6. Numbered'
  BY SMTT(60), <1>2, <1>4, <1>5, AppendNumbered DEF ShutInv
<1>7. shutdown_command = 0
  BY <1>2 DEF ShutInv, ShutdownLast
<1>8. ShutdownLast'
  <2>1. /\ Len(queue) \in Nat /\ Len(queue') = Len(queue) + 1
        /\ \A i \in 1..Len(queue) : queue'[i] = queue[i]
        /\ queue'[Len(queue) + 1] = c
    BY <1>2, <1>4, AppendAt DEF TypeOK
  <2>2. \A i \in 1..Len(queue) : queue[i].kind # "ShutdownRuntime"
    BY <1>2 DEF ShutInv, ShutdownLast
  <2>3. \A i \in 1..Len(queue') : queue'[i].kind # "ShutdownRuntime"
    BY <1>5, <2>1, <2>2
  <2> QED
    BY SMTT(60), <1>2, <1>7, <2>3 DEF ShutdownLast
<1>9. BeforeStart'
  BY <1>2 DEF BeforeStart
<1>10. Finishing'
  BY <1>2 DEF ShutInv, Finishing
<1>11. Outcome'
  BY <1>2, <1>7 DEF ShutInv, Outcome, QuiescedIsQuiet
<1> QED
  BY <1>6, <1>8, <1>9, <1>10, <1>11 DEF ShutInv

(* A command the executor drops stays unsettled above consumed. *)
LEMMA LoseKeeps ==
  ASSUME TypeOK, ShutInv, LoseSubmission
  PROVE  ShutInv'
<1>1. PICK k \in 1..Len(queue) :
        /\ lost'  = lost \cup {queue[k].id}
        /\ queue' = [j \in 1..(Len(queue) - 1) |->
                       IF j < k THEN queue[j] ELSE queue[j + 1]]
  BY DEF LoseSubmission
<1>2. UNCHANGED <<runtime_state, executor, shutdown_command, shutdown_outcome,
                  sessions, tasks, issued, consumed, finalizer, failure, final_report>>
  BY DEF LoseSubmission, recordVars, finalizerVars
<1>3. queue \in Seq(QueuedCommand) /\ Len(queue) \in Nat /\ Len(queue) - 1 \in Nat
  BY <1>1, LenProperties DEF TypeOK
<1>4. Len(queue') = Len(queue) - 1
  BY <1>1, <1>3
<1> DEFINE From(j) == IF j < k THEN j ELSE j + 1
<1>5. \A j \in 1..Len(queue') : /\ From(j) \in 1..Len(queue) /\ From(j) # k
                                /\ queue'[j] = queue[From(j)]
  BY <1>1, <1>3, <1>4
<1>6. \A i, j \in 1..Len(queue') : From(i) = From(j) => i = j
  BY <1>4
<1>7. \A j \in 1..Len(queue') : From(j) = Len(queue) => j = Len(queue')
  BY <1>3, <1>4
<1> HIDE DEF From
<1>8. queue # <<>>
  BY SMTT(60), <1>1, <1>3
<1>9. Numbered'
  BY SMTT(60), <1>1, <1>2, <1>5, <1>6 DEF ShutInv, Numbered
<1>10. ShutdownLast'
  BY SMTT(60), <1>2, <1>5, <1>7 DEF ShutInv, ShutdownLast
<1>11. BeforeStart'
  BY SMTT(60), <1>2, <1>8 DEF ShutInv, BeforeStart
<1>12. Finishing'
  BY <1>2 DEF ShutInv, Finishing
<1>13. Outcome'
  BY <1>2, <1>8 DEF ShutInv, Outcome, QuiescedIsQuiet
<1> QED
  BY <1>9, <1>10, <1>11, <1>12, <1>13 DEF ShutInv

(* initialize and begin_operation touch neither queue nor session. *)
LEMMA HostKeeps ==
  ASSUME TypeOK, ShutInv, initialize \/ \E t \in Tasks : begin_operation(t)
  PROVE  ShutInv'
<1>1. CASE initialize
  <2>1. /\ runtime_state = "Constructed"
        /\ \/ runtime_state' = "Running" /\ executor' = "open"
           \/ runtime_state' = "Failed" /\ UNCHANGED executor
        /\ UNCHANGED <<shutdown_command, shutdown_outcome, sessions, tasks, queue, lost,
                       issued, consumed, finalizer, failure, final_report>>
    BY SMTT(60), <1>1 DEF initialize, recordVars, commandVars, finalizerVars
  <2>2. executor = "none" /\ queue = <<>> /\ shutdown_command = 0
          /\ finalizer = "idle" /\ final_report = "none"
    BY <2>1 DEF ShutInv, BeforeStart, Finishing
  <2>3. Numbered'
    BY <2>1 DEF ShutInv, Numbered
  <2>4. ShutdownLast' /\ BeforeStart'
    BY SMTT(60), <2>1, <2>2 DEF ShutInv, ShutdownLast, BeforeStart
  <2>5. Finishing' /\ Outcome'
    BY SMTT(60), <2>1, <2>2 DEF ShutInv, Finishing, Outcome, QuiescedIsQuiet
  <2> QED
    BY <2>3, <2>4, <2>5 DEF ShutInv
<1>2. CASE \E t \in Tasks : begin_operation(t)
  <2>1. UNCHANGED <<runtime_state, executor, shutdown_command, shutdown_outcome, sessions,
                    tasks, queue, lost, issued, consumed, finalizer, failure, final_report>>
    BY SMTT(60), <1>2 DEF begin_operation, commandVars, finalizerVars
  <2> QED
    BY SMTT(60), <2>1 DEF ShutInv, Numbered, ShutdownLast, BeforeStart, Finishing, Outcome,
       QuiescedIsQuiet, Live
<1> QED
  BY <1>1, <1>2

(* submit_shutdown_admitted: at most one shutdown command ever waits, last. *)
LEMMA SubmitShutdownKeeps ==
  ASSUME TypeOK, Numbered, ShutdownLast, shutdown_command = 0, SubmitShutdown,
         runtime_state' = "Stopping", UNCHANGED <<lost, consumed>>
  PROVE  /\ Numbered' /\ ShutdownLast'
         /\ \/ executor = "open" /\ shutdown_command' # 0
            \/ UNCHANGED <<issued, queue, shutdown_command>>
<1>1. issued \in Nat /\ consumed \in Nat /\ issued + 1 \in Nat
  BY SMTT(60) DEF TypeOK
<1>2. \A i \in 1..Len(queue) : queue[i].kind # "ShutdownRuntime"
  BY <1>1 DEF Numbered, ShutdownLast
<1>3. CASE UNCHANGED <<issued, queue, shutdown_command>>
  <2>1. Numbered'
    BY <1>3 DEF Numbered
  <2>2. ShutdownLast'
    BY <1>2, <1>3 DEF ShutdownLast
  <2> QED
    BY <1>3, <2>1, <2>2
<1>4. CASE Admitted
  <2> DEFINE c == [id |-> issued + 1, kind |-> "ShutdownRuntime", target |-> NoId,
                   arg |-> NoId]
  <2>1. /\ queue' = Append(queue, c) /\ issued' = issued + 1
        /\ shutdown_command' = issued + 1 /\ executor = "open"
    BY <1>4 DEF SubmitShutdown, Admitted
  <2>2. c \in QueuedCommand
    BY <1>1, ShutdownIsQueued
  <2>3. c.id = issued + 1
    OBVIOUS
  <2> HIDE DEF c
  <2>4. Numbered'
    BY SMTT(60), <2>1, <2>2, <2>3, AppendNumbered
  <2>5. /\ Len(queue) \in Nat /\ Len(queue') = Len(queue) + 1
        /\ \A i \in 1..Len(queue) : queue'[i] = queue[i]
        /\ queue'[Len(queue) + 1] = c
    BY <2>1, <2>2, AppendAt DEF TypeOK
  <2>6. \A i \in 1..Len(queue') : queue'[i].kind = "ShutdownRuntime" =>
          i = Len(queue') /\ queue'[i].id = shutdown_command'
    BY <1>2, <2>1, <2>3, <2>5
  <2>7. ShutdownLast'
    BY <2>6 DEF ShutdownLast
  <2> QED
    BY <1>1, <2>1, <2>4, <2>7
<1> QED
  BY <1>3, <1>4 DEF SubmitShutdown

(***************************************************************************)
(* request_shutdown_admitted leaves the runtime as it is or, once, moves a *)
(* runtime without a shutdown command from a state before shutdown to      *)
(* Stopping.                                                               *)
(***************************************************************************)
LEMMA RequestKeeps ==
  ASSUME TypeOK, ShutInv, RequestShutdownAdmitted, UNCHANGED <<lost, consumed>>
  PROVE  /\ Numbered' /\ ShutdownLast'
         /\ \/ ShutdownRefused /\ UNCHANGED <<runtime_state, issued, queue, shutdown_command>>
            \/ /\ ~ShutdownRefused /\ shutdown_command = 0
               /\ runtime_state \in {"Constructed", "Running", "Failed"}
               /\ runtime_state' = "Stopping"
               /\ \/ executor = "open" /\ shutdown_command' # 0
                  \/ UNCHANGED <<issued, queue, shutdown_command>>
<1>1. CASE ShutdownRefused
  <2>1. UNCHANGED <<runtime_state, issued, queue, shutdown_command>>
    BY <1>1 DEF RequestShutdownAdmitted
  <2> QED
    BY <1>1, <2>1 DEF ShutInv, Numbered, ShutdownLast
<1>2. CASE ~ShutdownRefused
  <2>1. /\ shutdown_command = 0 /\ runtime_state' = "Stopping"
        /\ runtime_state \in {"Constructed", "Running", "Failed"}
    BY <1>2 DEF RequestShutdownAdmitted, ShutdownRefused, TypeOK, RuntimeStates,
       ShutInv, BeforeStart
  <2>2. CASE executor = "none"
    <3>1. UNCHANGED <<issued, queue, shutdown_command>>
      BY SMTT(60), <1>2, <2>2 DEF RequestShutdownAdmitted
    <3>2. Numbered' /\ ShutdownLast'
      BY <2>1, <2>2, <3>1 DEF ShutInv, Numbered, ShutdownLast, BeforeStart
    <3> QED
      BY <1>2, <2>1, <3>1, <3>2
  <2>3. CASE executor # "none"
    <3>1. SubmitShutdown
      BY <1>2, <2>3 DEF RequestShutdownAdmitted
    <3> QED
      BY <1>2, <2>1, <3>1, SubmitShutdownKeeps DEF ShutInv
  <2> QED
    BY <2>2, <2>3
<1> QED
  BY SMTT(60), <1>1, <1>2

\* request_shutdown keeps the shutdown invariant.
LEMMA RequestShutdownKeeps ==
  ASSUME TypeOK, ShutInv, request_shutdown
  PROVE  ShutInv'
<1>1. /\ RequestShutdownAdmitted
      /\ UNCHANGED <<executor, shutdown_outcome, sessions, tasks, lost, consumed,
                     finalizer, failure, final_report>>
  BY DEF request_shutdown, recordVars, finalizerVars
<1>2. Numbered' /\ ShutdownLast'
  BY <1>1, RequestKeeps
<1>3. CASE UNCHANGED <<runtime_state, issued, queue, shutdown_command>>
  <2>1. BeforeStart' /\ Finishing'
    BY SMTT(60), <1>1, <1>3 DEF ShutInv, BeforeStart, Finishing
  <2>2. Outcome'
    BY <1>1, <1>3 DEF ShutInv, Outcome, QuiescedIsQuiet, Live
  <2> QED
    BY <1>2, <2>1, <2>2 DEF ShutInv
<1>4. CASE /\ shutdown_command = 0 /\ runtime_state \in {"Constructed", "Running", "Failed"}
           /\ runtime_state' = "Stopping"
           /\ \/ executor = "open" /\ shutdown_command' # 0
              \/ UNCHANGED <<issued, queue, shutdown_command>>
  <2>1. BeforeStart'
    BY <1>1, <1>4 DEF ShutInv, BeforeStart
  <2>2. Finishing'
    BY SMTT(60), <1>1, <1>4 DEF ShutInv, Finishing
  <2>3. Outcome'
    BY <1>1, <1>4 DEF ShutInv, Outcome, QuiescedIsQuiet
  <2> QED
    BY <1>2, <2>1, <2>2, <2>3 DEF ShutInv
<1> QED
  BY <1>1, <1>3, <1>4, RequestKeeps

-----------------------------------------------------------------------------
(* finish_shutdown *)

(* The first critical section leaves no runtime that could still admit. *)
LEMMA FinishRequestKeeps ==
  ASSUME TypeOK, ShutInv, FinishRequest
  PROVE  ShutInv'
<1>1. /\ finalizer = "idle" /\ final_report = "none" /\ finalizer' = "consume"
      /\ UNCHANGED <<executor, shutdown_outcome, sessions, tasks, lost, consumed, final_report>>
  BY DEF FinishRequest, FinalizerFrame, recordVars
<1>2. CASE UNCHANGED <<runtime_state, issued, queue, shutdown_command>>
  <2>1. Numbered' /\ ShutdownLast' /\ BeforeStart'
    BY <1>1, <1>2 DEF ShutInv, Numbered, ShutdownLast, BeforeStart
  <2>2. /\ runtime_state \notin {"Constructed", "Running"}
        /\ runtime_state = "Failed" => shutdown_command # 0
    <3>1. CASE \/ runtime_state \in {"Constructed", "Running"}
               \/ runtime_state = "Failed" /\ shutdown_command = 0
      <4>1. RequestShutdownAdmitted /\ shutdown_command = 0
        BY SMTT(60), <3>1 DEF FinishRequest, ShutInv, ShutdownLast
      <4>2. ~ShutdownRefused
        BY <3>1, <4>1 DEF ShutdownRefused, valid_runtime_transition, RuntimeSuccessors
      <4> QED
        BY <1>2, <3>1, <4>1, <4>2 DEF RequestShutdownAdmitted
    <3> QED
      BY <3>1
  <2>3. Finishing'
    BY SMTT(60), <1>1, <1>2, <2>2 DEF Finishing
  <2>4. Outcome'
    BY <1>1, <1>2 DEF ShutInv, Outcome, QuiescedIsQuiet, Live
  <2> QED
    BY SMTT(60), <2>1, <2>3, <2>4 DEF ShutInv
<1>3. CASE RequestShutdownAdmitted /\ ~ShutdownRefused
  <2>1. /\ Numbered' /\ ShutdownLast' /\ shutdown_command = 0
        /\ runtime_state \in {"Constructed", "Running", "Failed"}
        /\ runtime_state' = "Stopping"
        /\ \/ executor = "open" /\ shutdown_command' # 0
           \/ UNCHANGED <<issued, queue, shutdown_command>>
    BY <1>1, <1>3, RequestKeeps
  <2>2. BeforeStart'
    BY <1>1, <2>1 DEF ShutInv, BeforeStart
  <2>3. Finishing'
    BY SMTT(60), <1>1, <2>1 DEF Finishing
  <2>4. Outcome'
    BY <1>1, <2>1 DEF ShutInv, Outcome, QuiescedIsQuiet
  <2> QED
    BY <2>1, <2>2, <2>3, <2>4 DEF ShutInv
<1> QED
  BY <1>2, <1>3 DEF FinishRequest, RequestShutdownAdmitted

(* consume_commands settles, in order, what no longer waits. *)
LEMMA ConsumeKeeps ==
  ASSUME TypeOK, ShutInv, ConsumeCommand
  PROVE  ShutInv'
<1>1. /\ finalizer \in {"consume", "consume_again"} /\ consumed < issued
      /\ consumed + 1 \notin QueueIds /\ consumed' = consumed + 1
      /\ lost' = lost \ {consumed + 1}
      /\ shutdown_outcome' = IF consumed + 1 \in lost /\ shutdown_command = consumed + 1
                               THEN "Failed" ELSE shutdown_outcome
      /\ UNCHANGED <<runtime_state, executor, shutdown_command, sessions, tasks, queue,
                     issued, finalizer, failure, final_report>>
  BY DEF ConsumeCommand, FinalizerFrame, recordVars
<1>2. issued \in Nat /\ consumed \in Nat /\ lost \in SUBSET Nat
  BY SMTT(60) DEF TypeOK
<1>3. \A i \in 1..Len(queue) : queue[i].id \in Nat /\ queue[i].id # consumed + 1
  <2>1. \A i \in 1..Len(queue) : queue[i] \in QueuedCommand
    BY SMTT(60), ElementOfSeq DEF TypeOK
  <2> QED
    BY <1>1, <2>1 DEF QueueIds, QueuedCommand
<1>4. Numbered'
  <2>1. Numbered
    BY DEF ShutInv
  <2>2. consumed' <= issued'
    BY <1>1, <1>2
  <2>3. \A i \in 1..Len(queue) : consumed + 1 < queue[i].id
    BY SMTT(60), <1>2, <1>3, <2>1 DEF Numbered
  <2>4. \A c \in lost' : consumed' < c /\ c <= issued'
    BY SMTT(60), <1>1, <1>2, <2>1 DEF Numbered
  <2> QED
    BY <1>1, <2>1, <2>2, <2>3, <2>4 DEF Numbered
<1>5. ShutdownLast' /\ BeforeStart'
  BY <1>1 DEF ShutInv, ShutdownLast, BeforeStart
<1>6. Finishing'
  BY <1>1, <1>2 DEF ShutInv, Finishing
<1>7. Outcome'
  <2>1. QuiescedIsQuiet'
    BY <1>1 DEF ShutInv, Outcome, QuiescedIsQuiet, Live
  <2>2. shutdown_outcome = "Applied" => shutdown_outcome' = "Applied"
    BY <1>1 DEF ShutInv, Outcome
  <2>3. shutdown_outcome' = "Applied" => shutdown_outcome = "Applied"
    BY <1>1
  <2> QED
    BY <1>1, <2>1, <2>2, <2>3 DEF ShutInv, Outcome
<1> QED
  BY <1>4, <1>5, <1>6, <1>7 DEF ShutInv

(* The retry: a runtime without a shutdown command by now has failed. *)
LEMMA FinishRetryKeeps ==
  ASSUME TypeOK, ShutInv, FinishRetry
  PROVE  ShutInv'
<1>1. /\ finalizer = "consume" /\ finalizer' = "consume_again" /\ consumed = issued
      /\ UNCHANGED <<runtime_state, executor, shutdown_outcome, sessions, tasks, lost,
                     consumed, final_report>>
  BY DEF FinishRetry, FinalizerFrame, recordVars
<1>2. CASE executor # "none" /\ shutdown_command = 0 /\ runtime_state = "Stopping"
  <2>1. SubmitShutdown /\ failure' = ~ShutdownRequested
    BY <1>2 DEF FinishRetry
  <2>2. /\ Numbered' /\ ShutdownLast'
        /\ \/ executor = "open" /\ shutdown_command' # 0
           \/ UNCHANGED <<issued, queue, shutdown_command>>
    BY SMTT(60), <1>1, <1>2, <2>1, SubmitShutdownKeeps DEF ShutInv
  <2>3. BeforeStart'
    BY <1>1, <1>2 DEF ShutInv, BeforeStart
  <2>4. Finishing'
    BY ZenonT(60), <1>1, <1>2, <2>1, <2>2 DEF ShutInv, Finishing, ShutdownRequested
  <2>5. Outcome'
    BY <1>1, <1>2 DEF ShutInv, Outcome, QuiescedIsQuiet
  <2> QED
    BY <2>2, <2>3, <2>4, <2>5 DEF ShutInv
<1>3. CASE ~(executor # "none" /\ shutdown_command = 0 /\ runtime_state = "Stopping")
  <2>1. UNCHANGED <<issued, queue, shutdown_command, failure>>
    BY <1>3 DEF FinishRetry
  <2>2. Numbered' /\ ShutdownLast' /\ BeforeStart'
    BY <1>1, <2>1 DEF ShutInv, Numbered, ShutdownLast, BeforeStart
  <2>3. Finishing'
    BY SMTT(60), <1>1, <1>3, <2>1 DEF ShutInv, Finishing
  <2>4. Outcome'
    BY <1>1, <2>1 DEF ShutInv, Outcome, QuiescedIsQuiet, Live
  <2> QED
    BY <2>2, <2>3, <2>4 DEF ShutInv
<1> QED
  BY <1>2, <1>3

(* Everything is consumed, so nothing waits: Stopping is left for Quiesced *)
(* only when there never was anything to stop.                             *)
LEMMA FinishQuiesceKeeps ==
  ASSUME TypeOK, ShutInv, FinishQuiesce
  PROVE  ShutInv'
<1>1. /\ finalizer = "consume_again" /\ consumed = issued /\ finalizer' = "close"
      /\ failure' = (failure \/ (shutdown_command # 0 /\ shutdown_outcome # "Applied"))
      /\ executor' = IF executor = "open" THEN "closed" ELSE executor
      /\ runtime_state' = IF runtime_state = "Stopping"
                            THEN IF failure' THEN "Failed" ELSE "Quiesced"
                            ELSE runtime_state
      /\ UNCHANGED <<shutdown_command, shutdown_outcome, sessions, tasks, queue, lost,
                     issued, consumed, final_report>>
  BY DEF FinishQuiesce, FinalizerFrame, recordVars, commandVars
<1>2. queue = <<>>
  <2>1. queue \in Seq(QueuedCommand) /\ issued \in Nat
    BY DEF TypeOK
  <2>2. ASSUME queue # <<>> PROVE FALSE
    <3>1. 1 \in 1..Len(queue) /\ queue[1] \in QueuedCommand
      BY SMTT(60), <2>1, <2>2, TailAt, ElementOfSeq
    <3>2. queue[1].id \in Nat
      BY <3>1 DEF QueuedCommand
    <3> QED
      BY <1>1, <2>1, <3>1, <3>2 DEF ShutInv, Numbered
  <2> QED
    BY <2>2
<1>3. runtime_state \notin {"Constructed", "Running"}
  BY <1>1 DEF ShutInv, Finishing
<1>4. runtime_state = "Stopping" /\ ~failure' => executor = "none"
  BY ZenonT(60), <1>1 DEF ShutInv, Finishing, Outcome, TypeOK
<1>5. Numbered'
  BY <1>1 DEF ShutInv, Numbered
<1>6. ShutdownLast'
  BY SMTT(60), <1>1, <1>2, <1>3 DEF ShutdownLast
<1>7. BeforeStart'
  BY <1>1, <1>3 DEF ShutInv, BeforeStart
<1>8. Finishing'
  BY SMTT(60), <1>1, <1>3 DEF Finishing
<1>9. QuiescedIsQuiet'
  BY SMTT(60), <1>1, <1>4 DEF ShutInv, BeforeStart, Outcome, QuiescedIsQuiet, Live
<1>10. Outcome'
  BY SMTT(60), <1>1, <1>2, <1>4, <1>9 DEF ShutInv, Outcome
<1> QED
  BY <1>5, <1>6, <1>7, <1>8, <1>10 DEF ShutInv

(* The report is stored after everything was consumed and the context shut. *)
LEMMA FinishReportKeeps ==
  ASSUME TypeOK, ShutInv, FinishReport
  PROVE  ShutInv'
<1>1. /\ finalizer = "close" /\ finalizer' = "idle"
      /\ \/ UNCHANGED <<runtime_state, executor, final_report>>
         \/ /\ executor' = IF executor = "none" THEN "none" ELSE "down"
            /\ runtime_state' = IF ~failure /\ runtime_state = "Quiesced"
                                  THEN "Stopped" ELSE runtime_state
            /\ final_report' = IF ~failure /\ runtime_state' = "Stopped"
                                 THEN "clean" ELSE "unclean"
      /\ UNCHANGED <<shutdown_command, shutdown_outcome, sessions, tasks, queue, lost,
                     issued, consumed>>
  BY DEF FinishReport, FinalizerFrame, recordVars, commandVars
<1>2. /\ executor # "open" /\ consumed = issued
      /\ runtime_state \notin {"Constructed", "Running"}
  BY SMTT(60), <1>1 DEF ShutInv, Finishing
<1>3. Numbered'
  BY SMTT(60), <1>1 DEF ShutInv, Numbered
<1>4. ShutdownLast'
  BY SMTT(60), <1>1, <1>2 DEF ShutInv, ShutdownLast, Outcome
<1>5. BeforeStart'
  BY <1>1, <1>2 DEF ShutInv, BeforeStart
<1>6. Finishing'
  BY <1>1, <1>2 DEF Finishing
<1>7. QuiescedIsQuiet'
  BY <1>1 DEF ShutInv, Outcome, QuiescedIsQuiet, Live
<1>8. Outcome'
  BY SMTT(60), <1>1, <1>7 DEF ShutInv, Outcome
<1> QED
  BY <1>3, <1>4, <1>5, <1>6, <1>8 DEF ShutInv

\* The shutdown invariant holds initially.
LEMMA ShutInvInit ==
  ASSUME Init
  PROVE  ShutInv
<1>1. /\ runtime_state = "Constructed" /\ executor = "none" /\ shutdown_command = 0
      /\ shutdown_outcome = "pending" /\ final_report = "none" /\ queue = <<>>
      /\ lost = {} /\ issued = 0 /\ consumed = 0 /\ finalizer = "idle"
  BY DEF Init
<1>2. /\ \A s \in Sessions : sessions[s].state = "Absent"
      /\ \A t \in Tasks : tasks[t].state = "Absent"
  BY DEF Init, NoSession, NoTask
<1>3. Numbered /\ ShutdownLast
  BY <1>1 DEF Numbered, ShutdownLast
<1>4. BeforeStart /\ Finishing
  BY <1>1, <1>2 DEF BeforeStart, Finishing
<1>5. Outcome
  BY <1>1, <1>2 DEF Outcome, QuiescedIsQuiet
<1> QED
  BY <1>3, <1>4, <1>5 DEF ShutInv

\* Every step keeps the shutdown invariant.
LEMMA ShutInvNext ==
  ASSUME TypeOK, ShutInv, [Next]_vars
  PROVE  ShutInv'
<1>1. CASE ControlStep
  <2>1. CASE ~shutdown_callback
    <3>1. PICK kind : kind # "ShutdownRuntime" /\ Running(kind)
      BY <1>1, <2>1, OrdinaryCallback
    <3>2. UNCHANGED <<runtime_state, shutdown_outcome>>
      BY SMTT(60), <1>1, <2>1, ControlFrame
    <3> QED
      BY <1>1, <2>1, <3>1, <3>2, OrdinaryCallback, CallbackKeeps
  <2> QED
    BY <2>1, ShutdownCallbackKeeps
<1>2. CASE UNCHANGED vars
  BY <1>2 DEF vars, ShutInv, Numbered, ShutdownLast, BeforeStart, Finishing, Outcome,
     QuiescedIsQuiet, Live
<1> QED
  BY <1>1, <1>2, SubmitKeeps, LoseKeeps, HostKeeps, RequestShutdownKeeps,
     FinishRequestKeeps, ConsumeKeeps, FinishRetryKeeps, FinishQuiesceKeeps,
     FinishReportKeeps DEF Next, FinishStep

(* Where nothing waits above consumed and everything is consumed, every    *)
(* command is settled.                                                     *)
LEMMA ReportsAreTrue ==
  ASSUME TypeOK, ShutInv
  PROVE  ReportTellsTruth
<1>1. ASSUME final_report # "none", NEW c \in 1..issued
      PROVE  Settled(c)
  <2>1. consumed = issued /\ issued \in Nat
    BY <1>1 DEF ShutInv, Finishing, TypeOK
  <2>2. \A i \in 1..Len(queue) : queue[i].id \in Nat
    <3>1. \A i \in 1..Len(queue) : queue[i] \in QueuedCommand
      BY ElementOfSeq DEF TypeOK
    <3> QED
      BY <3>1 DEF QueuedCommand
  <2>3. c \notin QueueIds
    BY <2>1, <2>2 DEF ShutInv, Numbered, QueueIds
  <2>4. c \notin lost
    BY <2>1 DEF ShutInv, Numbered, TypeOK
  <2> QED
    BY <2>3, <2>4 DEF Settled, Pending
<1>2. final_report = "clean" =>
        runtime_state = "Stopped" /\ (executor # "none" => shutdown_outcome = "Applied")
  BY DEF ShutInv, Outcome
<1> QED
  BY <1>1, <1>2 DEF ReportTellsTruth

(***************************************************************************)
(* Shutdown tells the truth for any number of sessions, tasks, commands    *)
(* and dropped submissions: once Quiesced or Stopped no task is live and   *)
(* no session open, and finish_shutdown's report is given only when every  *)
(* admitted command is settled, clean only when the shutdown was applied.  *)
(***************************************************************************)
THEOREM ShutdownIsTruthful == Spec => []ShutdownTellsTruth
<1>1. Init => ShutInv
  BY ShutInvInit
<1>2. TypeOK /\ ShutInv /\ [Next]_vars => ShutInv'
  BY ShutInvNext
<1>3. TypeOK /\ ShutInv => ShutdownTellsTruth
  BY ReportsAreTrue DEF ShutdownTellsTruth, ShutInv, Outcome
<1> QED
  BY <1>1, <1>2, <1>3, TypeCorrect, PTL DEF Spec
=============================================================================

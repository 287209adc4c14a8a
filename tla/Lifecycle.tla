------------------------------ MODULE Lifecycle ------------------------------
(***************************************************************************)
(* The frozen state machines of Mira's public contract                     *)
(* (include/mira/core_contracts.hpp): runtime, session and task states,    *)
(* which of them are terminal, and which transitions are legal.  The       *)
(* tables are data; the operations that consult them are in Runtime.       *)
(***************************************************************************)
EXTENDS Naturals

RuntimeStates == {"Constructed", "Initializing", "Running", "Stopping",
                  "Quiesced", "Stopped", "Failed"}

SessionStates == {"Opening", "Autonomous", "TakeoverPending",
                  "HumanControlled", "Resuming", "Closing", "Closed", "Failed"}

TaskStates == {"Idle", "Observing", "Reasoning", "Planning", "Acting",
               "Verifying", "Recovering", "Pausing", "Paused",
               "TakeoverSettling", "SuspendedForTakeover", "Cancelling",
               "Completed", "Failed", "Cancelled"}

TerminalTask    == {"Completed", "Failed", "Cancelled"}
TerminalSession == {"Closed", "Failed"}

(***************************************************************************)
(* Successors of a state.  Interruptible lists what every working phase    *)
(* admits besides its own successors.                                      *)
(***************************************************************************)
Interruptions == {"Pausing", "Cancelling", "TakeoverSettling"}

TaskSuccessors ==
  [ Idle                 |-> {"Observing"} \cup Interruptions,
    Observing            |-> {"Reasoning", "Recovering"} \cup Interruptions,
    Reasoning            |-> {"Planning", "Recovering"} \cup Interruptions,
    Planning             |-> {"Acting", "Observing", "Recovering"}
                                \cup Interruptions,
    Acting               |-> {"Verifying", "Recovering"} \cup Interruptions,
    Verifying            |-> {"Observing", "Completed", "Recovering"}
                                \cup Interruptions,
    Recovering           |-> {"Observing", "Failed"} \cup Interruptions,
    Pausing              |-> {"Paused", "Cancelling"},
    Paused               |-> {"Observing", "TakeoverSettling", "Cancelling"},
    TakeoverSettling     |-> {"SuspendedForTakeover", "Cancelling"},
    SuspendedForTakeover |-> {"Observing", "Cancelling"},
    Cancelling           |-> {"Cancelled"},
    Completed            |-> {"Completed"},
    Failed               |-> {"Failed"},
    Cancelled            |-> {"Cancelled"} ]

valid_task_transition(from, to) == to \in TaskSuccessors[from]

SessionSuccessors ==
  [ Opening         |-> {"Autonomous", "Failed", "Closing"},
    Autonomous      |-> {"Autonomous", "TakeoverPending", "Closing", "Failed"},
    TakeoverPending |-> {"HumanControlled", "Closing", "Failed"},
    HumanControlled |-> {"HumanControlled", "Resuming", "Closing", "Failed"},
    Resuming        |-> {"Autonomous", "Failed", "Closing"},
    Closing         |-> {"Closing", "Closed", "Failed"},
    Closed          |-> {"Closed"},
    Failed          |-> {"Failed"} ]

valid_session_transition(from, to) == to \in SessionSuccessors[from]

RuntimeSuccessors ==
  [ Constructed  |-> {"Constructed", "Initializing", "Stopping"},
    Initializing |-> {"Running", "Failed", "Stopping"},
    Running      |-> {"Stopping", "Failed"},
    Stopping     |-> {"Stopping", "Quiesced", "Failed"},
    Quiesced     |-> {"Quiesced", "Stopped"},
    Failed       |-> {"Failed", "Stopping"},
    Stopped      |-> {"Stopped"} ]

valid_runtime_transition(from, to) == to \in RuntimeSuccessors[from]

(***************************************************************************)
(* task_state_path_exists explores the task table from a state; every      *)
(* state is visited at most once, so as many rounds as there are states    *)
(* reach the fixed point.                                                  *)
(***************************************************************************)
PathWithin[n \in Nat] ==
  IF n = 0
    THEN [s \in TaskStates |-> {s}]
    ELSE LET shorter == PathWithin[n - 1]
         IN  [s \in TaskStates |->
                shorter[s] \cup UNION {TaskSuccessors[t] : t \in shorter[s]}]

TaskPaths == PathWithin[15]

task_state_path_exists(from, to) == to \in TaskPaths[from]
=============================================================================

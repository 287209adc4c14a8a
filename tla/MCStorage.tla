----------------------------- MODULE MCStorage -----------------------------
(* The event store, or the projection of one task, on small instances. The  *)
(* two share no state: a behaviour moves one part and leaves the other as   *)
(* it began, so the state space is their sum.                               *)
EXTENDS Projection

CONSTANTS c1, c2
VARIABLES part, file, store, pc, pos, acked, reader, overlooked

---------------------------------------------------------------------------
(* The store: one caller appends two events of session 1; the other an event *)
(* of session 2, and another body under an id of the first. It opens on no   *)
(* file, or on a one-record file of the older format, ended or not, and then *)
(* the capacity is one event short.                                          *)

E(id, session, body) == [id |-> id, session |-> session, body |-> body]
MCBatch == (c1 :> <<E(1, 1, "a"), E(2, 1, "b")>>) @@ (c2 :> <<E(3, 2, "c"), E(1, 1, "x")>>)
Legacy(ended) ==
    <<[kind |-> "legacy", event |-> E(9, 1, "old"), seq |-> 1, ended |-> ended]>>

Store == INSTANCE EventStore WITH
    Clients <- {c1, c2}, Batch <- MCBatch, Capacity <- 3, Session <- 1, PageLimit <- 2,
    LegacyLogs <- {<<>>, Legacy(TRUE), Legacy(FALSE)}

storeVars == <<file, store, pc, pos, acked, reader, overlooked>>

---------------------------------------------------------------------------
(* The projection: one task in a session that also holds a foreign event,   *)
(* over four parts of the event vocabulary.                                 *)

Fact(key, value, from, until) == [key |-> key, value |-> value, from |-> from, until |-> until]
MCLimits == [constraints |-> 1, verified_facts |-> 2, completed_steps |-> 2,
             pending_objectives |-> 2, unresolved_issues |-> 2, uncertain_side_effects |-> 1,
             recent_actions |-> 2]

\* An action's life in epoch 1, a loop of that epoch and one of the epoch before
\* that both settle, and the host's own verdict; two callers.
ActionLoad ==
    [events |->
        {Event("t1", "ActionDispatchStarted", 1, 1, 1),
         Event("t1", "ActionExecutionUncertain", 1, 1, 1),
         Event("t1", "LoopSettled", 1, 0, "Completed"),
         Event("t1", "LoopSettled", 0, 0, "MaxSteps"),
         Event("t1", "TaskStateChanged", 0, 0, "Cancelled")},
     callers |-> [x |-> {"checkpoint", "repair"}, y |-> {"checkpoint", "plan"}],
     triggers |-> {"Pause"}, kept |-> 2, log |-> 3,
     clock |-> 0, builder |-> Defaults]

\* Facts that expire or are not valid yet, replace each other, fill the list and
\* are fenced.
FactLoad ==
    [events |->
        {Event("t1", "TaskFactVerified", 0, 0, Fact("a", 1, 0, 1)),
         Event("t1", "TaskFactVerified", None, 0, Fact("a", 2, 0, 9)),
         Event("t1", "TaskFactVerified", 1, 1, Fact("b", 1, 1, 9)),
         Event("t1", "TaskFactVerified", 0, 1, Fact("c", 1, 0, 9)),
         Event("t1", "TaskEpochAdvanced", 0, 0, 1)},
     callers |-> [x |-> {"checkpoint", "repair", "plan"}],
     triggers |-> {"Pause"}, kept |-> 1, log |-> 4,
     clock |-> 1, builder |-> Defaults]

\* Keyed and bounded lists, in a coordinator whose lists are shorter than the
\* planner's; more constraints than a checkpoint may hold.
ListLoad ==
    [events |->
        {Event("t1", "TaskConstraintAdded", 0, 0, [key |-> "k", requirement |-> 1]),
         Event("t1", "TaskConstraintAdded", 0, 0, [key |-> "l", requirement |-> 1]),
         Event("t1", "TaskConstraintRemoved", 0, 0, "k"),
         Event("t1", "TaskStepCompleted", 0, 0, [key |-> "s"]),
         Event("t1", "TaskObjectiveAdded", 0, 0, [key |-> "o"]),
         Event("t1", "TaskObjectiveCompleted", 0, 0, "o"),
         Event("t1", "TaskIssueRaised", 0, 0, [key |-> "i"]),
         Event("t1", "TaskIssueResolved", 0, 0, "i"), Event("t1", "TaskGoalSet", 0, 0, "g")},
     callers |-> [x |-> {"checkpoint", "repair", "plan"}],
     triggers |-> {"Watermark", "Pause"}, kept |-> 1, log |-> 3,
     clock |-> 0, builder |-> [facts |-> 1, listed |-> 1, recent |-> 1]]

\* The rest of the vocabulary, events of another task and of no meaning included;
\* more uncertain actions than a checkpoint may hold; a rebuild after the end.
StateLoad ==
    [ListLoad EXCEPT !.events =
        {Event("t1", "EnvironmentEpochChanged", 0, 0, 2), Event("t1", "ObservationRecorded", 0, 0, 5),
         Event("t1", "ActionDispatched", None, 0, None),
         Event("t1", "ActionPrepared", 1, 1, 1), Event("t1", "ActionReceipt", 1, 1, 1),
         Event("t1", "ActionExecutionUncertain", 0, 0, 1),
         Event("t1", "ActionExecutionUncertain", 0, 0, 2),
         Event("t1", "VerificationResult", 0, 0, None),
         Event("t1", "TaskStateChanged", 0, 0, "Failed"),
         Event("t1", "Other", 0, 0, None), Event("t2", "LoopSettled", 1, 0, "Failed")},
     !.triggers = {"Pause", "PeriodicRebuild"}]

MCWorkloads == {ActionLoad, FactLoad, ListLoad, StateLoad}

---------------------------------------------------------------------------
StorageInit ==
    /\ part \in {"store", "projection"} /\ Init /\ Store!Init
    /\ part = "store" => load = ActionLoad
    /\ part = "projection" => file = <<>>

StorageNext ==
    \/ part = "projection" /\ Next /\ UNCHANGED <<part, storeVars>>
    \/ part = "store" /\ Store!Next /\ UNCHANGED <<part, vars>>

StorageSpec == StorageInit /\ [][StorageNext]_<<part, vars, storeVars>>

(* The store's properties, as EventStore states them. *)

\* Every variable of the store, of the checkpoint stores and of their callers
\* keeps its type; lists and the index stay within their bounds.
StorageTypeOK == TypeOK /\ Store!TypeOK

\* Between calls the in-memory index is what recovery would read from the file.
IndexMirrorsFile == Store!IndexMirrorsFile

\* No death during a write makes recovery reject the file.
CrashNeverCondemnsLog == Store!CrashNeverCondemnsLog

\* The events of a retried batch are in the log once and in order.
BatchOrder == Store!BatchOrder

\* The pages of read, put together, are a prefix of the session's events.
ReaderSeesPrefix == Store!ReaderSeesPrefix

\* FileEventStore implements an append-only log whose receipts hold.
ImplementsDurableLog == Store!ImplementsDurableLog

\* The index is the file, whatever was cut short: a death during a write never
\* makes recovery reject the log, and the index between calls is what recovery
\* would read (FileEventStore::append, recover).
StorageSound ==
    /\ StorageTypeOK
    /\ part = "store" => IndexMirrorsFile /\ CrashNeverCondemnsLog

\* Retried batches are in the log once and in order, and pages read across appends
\* and restarts make a prefix of the session (append_batch, read).
StoreKeepsOrder == part = "store" => BatchOrder /\ ReaderSeesPrefix

\* Checkpoints tell the truth: a stored one is the projection of a prefix of the
\* log, with the latest facts and every fact that stayed valid; no outcome in it
\* comes from a superseded loop; and a plan built on one follows the log
\* (CheckpointCoordinator::checkpoint, CheckpointBuilder::build, plan).
CheckpointsTellTruth ==
    /\ StoredIsProjection /\ StoredFactsAreLatest /\ ValidFactsStay
    /\ OutcomeIsCurrent /\ PlanFollowsLog

\* The newest checkpoint stands: it never covers less than an earlier one did, and
\* a terminal outcome it holds is never replaced (put, apply_state_event).
NewestStands == LatestNeverGoesBack /\ TerminalNeverRevived
=============================================================================

---------------------------- MODULE Projection ----------------------------
(* CheckpointCoordinator, the checkpoint stores and RecoveryPlanner run     *)
(* concurrently over one session log (src/storage/checkpoint_store.cpp,     *)
(* sqlite_checkpoint_store.cpp, src/runtime/task_recovery.cpp).             *)
(*                                                                          *)
(* A call reads the events, then reads the store, then may write it: each   *)
(* is one step, and everything else may happen in between. Checkpoints of   *)
(* equal sequence are kept in any order: std::sort is not stable, and the   *)
(* SQLite store orders them by a wall clock. Ids are fresh, so a put never  *)
(* meets its own id.                                                        *)
EXTENDS Checkpoint

CONSTANTS Tasks,          \* the tasks checkpointed; the session may hold others
          Workloads,      \* what producers append and callers ask for
          MinIncrement,   \* CheckpointSchedulePolicy::min_event_increment
          Limits          \* TaskCheckpoint::validate's bound on each list

ASSUME ProjectionAssumption ==
    /\ \A w \in Workloads : w.kept \in Nat \ {0}
    /\ MinIncrement \in Nat

VARIABLES log,          \* the session's events
          clock,          \* the wall clock
          entries,        \* each task's checkpoints, by ascending sequence
          call,           \* each caller's progress
          load            \* the workload: the events producers append, the threads
                          \* that call and what each calls, the triggers, the coordinator's
                          \* CheckpointSchedulePolicy::builder, the store's
                          \* max_checkpoints_per_task, and bounds on the length of
                          \* the log and on the clock

vars == <<log, clock, entries, call, load>>

Idle == [pc |-> "idle", op |-> "none", task |-> "none", trigger |-> "none",
         seen |-> 0, now |-> 0, result |-> <<>>]

---------------------------------------------------------------------------
(* The checkpoint stores.                                                   *)

latest(task) == IF entries[task] = <<>> THEN <<>> ELSE <<Last(entries[task])>>

latest_at_or_before(task, max) ==
    LET older == SelectSeq(entries[task], LAMBDA c : c.through <= max)
    IN  IF older = <<>> THEN <<>> ELSE <<Last(older)>>

\* Mutant: a new checkpoint goes to the end, whatever its sequence.
Placed_Last(list, c) == {Append(list, c)}

\* Where a checkpoint may stand after the sort by sequence.
Placed(list, c) ==
    {InsertAt(list, i, c) : i \in {k \in 1..Len(list) + 1 :
        /\ \A j \in 1..k - 1 : list[j].through <= c.through
        /\ \A j \in k..Len(list) : c.through <= list[j].through}}

\* put: insert in sequence order, then drop the oldest beyond the bound.
put(task, c) ==
    \E placed \in Placed(entries[task], c) :
        entries' = [entries EXCEPT ![task] =
                        IF Len(placed) > load.kept THEN Tail(placed) ELSE placed]

validate(c) == \A list \in DOMAIN Limits : Len(c[list]) <= Limits[list]

---------------------------------------------------------------------------
(* CheckpointCoordinator and RecoveryPlanner.                               *)

EventsRead(c) == SubSeq(log, 1, call[c].seen)

Return(c) == call' = [call EXCEPT ![c] = Idle]

\* read_task_events of a call for this task: the log as its last page saw it.
read_task_events(c, op, task, trigger) ==
    /\ call[c].pc = "idle"
    /\ call' = [call EXCEPT ![c] = [Idle EXCEPT !.pc = "read", !.op = op, !.task = task,
                    !.trigger = trigger, !.seen = Len(log), !.now = clock]]
    /\ UNCHANGED <<log, clock, entries>>

\* What checkpoint does once it knows its base: nothing, or a projection to store.
Admitted(trigger, base, events, task) ==
    LET through == IF base = <<>> THEN 0 ELSE base[1].through
    IN  /\ TaskEvents(events, task) # {}
        /\ trigger \in {"Watermark", "PeriodicRebuild"} =>
                Cardinality({i \in TaskEvents(events, task) : i > through}) >= MinIncrement
        /\ base # <<>> /\ base[1].terminal_state # Open => trigger = "PeriodicRebuild"

Stamped(c, now) == c @@ [created_at |-> now]
Projected(c) == [f \in DOMAIN c \ {"created_at"} |-> c[f]]
BaseOf(base, task) == IF base = <<>> THEN EmptyCheckpoint(task) ELSE Projected(base[1])

\* checkpoint, from reading the base to deciding what to store.
checkpoint_base(c) ==
    LET me == call[c]
        base == latest(me.task)
        built == build(load.builder, BaseOf(base, me.task), EventsRead(c), me.now)
    IN  /\ me.pc = "read" /\ me.op = "checkpoint"
        /\ IF Admitted(me.trigger, base, EventsRead(c), me.task) /\ validate(built)
           THEN call' = [call EXCEPT ![c].pc = "put", ![c].result = <<built>>]
           ELSE Return(c)
        /\ UNCHANGED <<log, clock, entries>>

\* rebuild with repair, from comparing with the stored projection to deciding
\* to replace it; without repair it only reports.
rebuild(c) ==
    LET me == call[c]
        built == FullBuild(load.builder, me.task, EventsRead(c), me.now)
        stored == latest(me.task)
    IN  /\ me.pc = "read" /\ me.op = "repair"
        /\ IF validate(built) /\ TaskEvents(EventsRead(c), me.task) # {}
              /\ (stored # <<>> => Projected(stored[1]) # built)
           THEN call' = [call EXCEPT ![c].pc = "put", ![c].result = <<built>>]
           ELSE Return(c)
        /\ UNCHANGED <<log, clock, entries>>

checkpoint_put(c) ==
    /\ call[c].pc = "put"
    /\ put(call[c].task, Stamped(call[c].result[1], call[c].now))
    /\ Return(c)
    /\ UNCHANGED <<log, clock>>

\* RecoveryPlanner::plan: the base is the newest checkpoint the events cover,
\* built with the coordinator's bounds; the planner goes on with the default ones.
plan_task(c) ==
    LET me == call[c]
        own == TaskEvents(EventsRead(c), me.task)
        durable_sequence == IF own = {} THEN 0 ELSE Max(own)
        base == latest_at_or_before(me.task, durable_sequence)
    IN  /\ me.pc = "read" /\ me.op = "plan"
        /\ call' = [call EXCEPT ![c].pc = "planned", ![c].result =
                <<plan(IF base = <<>> THEN base ELSE <<Projected(base[1])>>,
                       EventsRead(c), me.task, me.now)>>]
        /\ UNCHANGED <<log, clock, entries>>

erase_task(task) ==
    /\ entries[task] # <<>>
    /\ entries' = [entries EXCEPT ![task] = <<>>]
    /\ UNCHANGED <<log, clock, call>>

---------------------------------------------------------------------------
(* The world: producers append, time passes, a host uses its plan.          *)

UsePlan(c) ==
    /\ call[c].pc = "planned"
    /\ Return(c)
    /\ UNCHANGED <<log, clock, entries>>

append(e) ==
    /\ Len(log) < load.log
    /\ log' = Append(log, e)
    /\ UNCHANGED <<clock, entries, call>>

Tick ==
    /\ clock < load.clock
    /\ clock' = clock + 1
    /\ UNCHANGED <<log, entries, call>>

Init ==
    /\ load \in Workloads
    /\ log = <<>> /\ clock = 0
    /\ entries = [t \in Tasks |-> <<>>]
    /\ call = [c \in DOMAIN load.callers |-> Idle]

Step ==
    \/ \E e \in load.events : append(e)
    \/ Tick
    \/ \E t \in Tasks : erase_task(t)
    \/ \E c \in DOMAIN load.callers :
        \/ \E t \in Tasks, op \in load.callers[c] :
              \E g \in (IF op = "checkpoint" THEN load.triggers ELSE {"none"}) :
                read_task_events(c, op, t, g)
        \/ checkpoint_base(c) \/ rebuild(c) \/ checkpoint_put(c) \/ plan_task(c) \/ UsePlan(c)

Next == Step /\ UNCHANGED load

Spec == Init /\ [][Next]_vars

---------------------------------------------------------------------------
(* Properties.                                                              *)

TypeOK ==
    /\ Len(log) <= load.log /\ clock \in 0..load.clock
    /\ \A t \in Tasks : /\ Len(entries[t]) <= load.kept
                       /\ \A i \in 1..Len(entries[t]) : entries[t][i].task = t
    /\ \A c \in DOMAIN load.callers : /\ call[c].pc \in {"idle", "read", "put", "planned"}
                         /\ call[c].seen \in 0..Len(log)

WithoutFacts(c) == [Projected(c) EXCEPT !.verified_facts = <<>>]
PrefixBuild(config, task, n) == WithoutFacts(FullBuild(config, task, SubSeq(log, 1, n), 0))

\* Every stored checkpoint is what the reducer makes of the log up to its
\* watermark, whatever calls raced to build it and from whichever base
\* (CheckpointCoordinator::checkpoint, CheckpointBuilder::build); verified
\* facts, which depend on the clock, are the next properties.
StoredIsProjection ==
    \A t \in Tasks : \A i \in 1..Len(entries[t]) :
        WithoutFacts(entries[t][i]) = PrefixBuild(load.builder, t, entries[t][i].through)

\* The fact events that were accepted: flat, or not fenced when the reducer met
\* them.
AcceptedFacts(task) ==
    {i \in TaskEvents(log, task) :
        /\ log[i].type = "TaskFactVerified"
        /\ log[i].epoch # None =>
            LET before == PrefixBuild(load.builder, task, i - 1)
            IN  /\ before.terminal_state = Open
                /\ log[i].epoch >= before.task_epoch /\ log[i].env >= before.environment_epoch}

\* Of the facts accepted under a key up to a watermark, the last one holds.
NewestFact(accepted, through, key) ==
    log[Max({j \in accepted : j <= through /\ log[j].arg.key = key})].arg
FactKeys(accepted, through) == {log[j].arg.key : j \in accepted \cap 1..through}

\* No stored checkpoint holds a fact that a later accepted one had replaced
\* by its watermark, two facts of one key, or a fact expired when it was
\* built (apply_json_event's TaskFactVerified and CheckpointBuilder::build).
StoredFactsAreLatest ==
    \A t \in Tasks : LET accepted == AcceptedFacts(t) IN
        \A i \in 1..Len(entries[t]) :
            LET c == entries[t][i]
            IN  \A k \in 1..Len(c.verified_facts) :
                  LET fact == c.verified_facts[k]
                  IN  /\ fact.key \in FactKeys(accepted, c.through)
                      /\ fact = NewestFact(accepted, c.through, fact.key)
                      /\ valid_at(fact, c.created_at)
                      /\ \A m \in 1..Len(c.verified_facts) :
                            c.verified_facts[m].key = fact.key => m = k

\* A fact that was valid at every moment so far is never lost: expiry, and the
\* checkpoints it was folded through, cost a task only facts that were expired or
\* not yet valid when one of them was built (build's erase_if), or that more keys
\* than the list holds have driven out.
ValidFactsStay ==
    \A t \in Tasks : LET accepted == AcceptedFacts(t) IN
        \A i \in 1..Len(entries[t]) :
            LET c == entries[t][i]
                keys == FactKeys(accepted, c.through)
                newest(key) == NewestFact(accepted, c.through, key)
            IN  Cardinality(keys) <= load.builder.facts =>
                    \A key \in keys :
                        (\A now \in 0..clock : valid_at(newest(key), now)) =>
                            newest(key) \in ToSet(c.verified_facts)

\* The task epoch an event proves to have begun, 0 if it proves none.
EpochShown(e) ==
    IF e.type = "TaskEpochAdvanced" THEN e.arg
    ELSE IF e.type \in JournalTypes \cup EnvelopeTypes /\ e.epoch # None THEN e.epoch ELSE 0

\* The outcome a checkpoint reports was written by the host, or by a loop that no
\* earlier event of the task had superseded: a loop that outlived its epoch
\* settles nothing (apply_event's envelope check).
OutcomeIsCurrent ==
    \A t \in Tasks : \A i \in 1..Len(entries[t]) :
        LET c == entries[t][i]
        IN  c.terminal_state # Open =>
              \E k \in TaskEvents(log, t) \cap 1..c.through :
                \/ log[k].type = "TaskStateChanged" /\ log[k].arg = c.terminal_state
                \/ /\ log[k].type = "LoopSettled" /\ SettledAs(log[k].arg) = c.terminal_state
                   /\ log[k].epoch # None =>
                        \A j \in TaskEvents(log, t) \cap 1..(k - 1) :
                            EpochShown(log[j]) <= log[k].epoch

\* A configuration that drops nothing from a log this long, and the lists a
\* configuration bounds.
Unbounded == [facts |-> load.log, listed |-> load.log, recent |-> load.log]
BoundedLists == {"completed_steps", "pending_objectives", "unresolved_issues", "recent_actions"}

\* A plan is the log's own verdict on the events the planner read: the base
\* it found, however old, new or concurrently replaced, never shows through
\* (RecoveryPlanner::plan with latest_at_or_before). A coordinator configured
\* with other bounds than the planner's has dropped other items for good: then
\* the bounded lists of the plan hold some of the items nothing has removed.
PlanFollowsLog ==
    \A c \in DOMAIN load.callers : call[c].pc = "planned" =>
        LET own == TaskEvents(EventsRead(c), call[c].task)
            truth == PrefixBuild(Defaults, call[c].task, call[c].seen)
            whole == PrefixBuild(Unbounded, call[c].task, call[c].seen)
            outcome == call[c].result[1]
            planned == WithoutFacts(outcome.checkpoint[1])
        IN  IF outcome.action = "NoState" THEN own = {}
            ELSE /\ outcome.action = planned_action(truth)
                 /\ \A field \in DOMAIN truth \ BoundedLists : planned[field] = truth[field]
                 /\ \A list \in BoundedLists :
                        \/ planned[list] = truth[list]
                        \/ /\ load.builder # Defaults
                           /\ ToSet(planned[list]) \subseteq ToSet(whole[list])

LatestSequence(task) == IF entries[task] = <<>> THEN 0 ELSE Last(entries[task]).through

\* Short of an erasure, the newest stored projection never goes back: a call
\* that read the log long ago cannot hide a newer checkpoint, at the bound
\* of the store included (put's sort and prune).
LatestNeverGoesBack ==
    [][\A t \in Tasks : entries[t]' # <<>> => LatestSequence(t)' >= LatestSequence(t)]_vars

LatestTerminal(task) == IF entries[task] = <<>> THEN Open ELSE Last(entries[task]).terminal_state

\* A task whose newest projection is terminal keeps that very outcome,
\* whatever a late loop appends after it (apply_json_event).
TerminalNeverRevived ==
    [][\A t \in Tasks : LatestTerminal(t) # Open /\ entries[t]' # <<>> =>
            LatestTerminal(t)' = LatestTerminal(t)]_vars
============================================================================

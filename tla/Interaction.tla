---------------------------- MODULE Interaction ----------------------------
(* InteractionCoordinator (src/interaction/interaction_coordinator.cpp) and *)
(* the routing decision (interaction_routing.cpp) over the input ledger,    *)
(* EventStoreInputLedger (input_ledger.cpp): the index of admitted inputs,  *)
(* the events each transition appends, and the replay that rebuilds it.     *)
(*                                                                          *)
(* submit_input holds submit_mutex from its admission to its return, as do  *)
(* register_sink and the second half of shutdown; principal_state, the      *)
(* record_ calls, unregister_sink and the tasks themselves run beside it.   *)
(* The runtime, the executor, the sinks and the host are external. A task   *)
(* is live or terminal; ids are positions in runtime.tasks. Texts, the      *)
(* context block and session ids other than their number are left out;      *)
(* SupplementTask acts as ContinueCurrent does.                             *)
EXTENDS Integers, Sequences, FiniteSets, Functions

CONSTANTS Inputs,                  \* input ids
          Window,                  \* InputLedgerOptions::idempotency_window
          Principals, PrincipalOf, \* the principal of each input
          ReplyTo,                 \* InputEnvelope::reply_to, or "none"
          MaxSessions,             \* max_sessions_per_principal
          MaxConstraints,          \* kMaxConstraintsPerTask
          MaxSubmits,              \* calls of submit_input, a bound of the instance
          Workloads                \* what callers, the host and the world do

\* A workload names the limits max_entries, max_tasks_per_principal (tasks),
\* max_sinks and max_pending_deliveries (room), the inputs submitted and the stages
\* the host reports; the other numbers bound the calls, the clock, refused appends
\* and restarts.
ASSUME InteractionAssumption ==
    /\ {Window, MaxSessions, MaxConstraints, MaxSubmits} \subseteq Nat
    /\ PrincipalOf \in [Inputs -> Principals]
    /\ ReplyTo \in [Inputs -> Inputs \cup {"none"}] /\ "none" \notin Inputs
    /\ \A w \in Workloads :
        /\ w.inputs \subseteq Inputs /\ w.submits <= MaxSubmits
        /\ w.records \subseteq {"Answered", "TaskSettled", "Rejected"}
        /\ {w.entries, w.tasks, w.sinks, w.room, w.submits, w.reports, w.reads, w.time, w.faults,
            w.crashes} \subseteq Nat

---------------------------------------------------------------------------
(* The ledger. An index maps recorded input ids to entries; task 0 stands   *)
(* for an empty task_id, and the session follows it. The note and the error *)
(* are left out: rebuild restores a note only of Routed and Answered, and   *)
(* gives every rejection the code InvalidState.                             *)

NoTask == 0
Stages == {"Accepted", "Routed", "Answered", "TaskSettled", "Rejected"}

stage_rank(stage) ==
    CASE stage = "Accepted" -> 0 [] stage = "Routed" -> 1 [] stage = "Answered" -> 2
      [] stage = "TaskSettled" -> 3 [] stage = "Rejected" -> 4

EmptyIndex == [i \in {} |-> NoTask]

---------------------------------------------------------------------------
(* admit                                                                    *)

Expired(entry, now) == now > entry.expires

Live(index, now) == Restrict(index, {i \in DOMAIN index : ~Expired(index[i], now)})

\* What admit finds for input i.
admission(index, i, now, max_entries) ==
    IF i \in DOMAIN index
    THEN IF Expired(index[i], now) THEN "expired" ELSE "duplicate"
    ELSE IF Cardinality(DOMAIN index) < max_entries THEN "new"
    ELSE IF Cardinality(DOMAIN Live(index, now)) < max_entries THEN "new" ELSE "full"

\* The index admit works on: a full one loses its expired entries first.
Reclaimed(index, i, now, max_entries) ==
    IF i \notin DOMAIN index /\ Cardinality(DOMAIN index) >= max_entries
    THEN Live(index, now) ELSE index

NewEntry(expires) ==
    [stage |-> "Accepted", task |-> NoTask, clarified |-> FALSE, expires |-> expires]

AcceptedEvent(i, now) ==
    [type |-> "InputAccepted", input |-> i, task |-> NoTask, expires |-> now + Window]

With(index, i, entry) == [k \in DOMAIN index \cup {i} |-> IF k = i THEN entry ELSE index[k]]

---------------------------------------------------------------------------
(* advance, for a transition [stage, task, clarify]                         *)

Transition(stage, task) == [stage |-> stage, task |-> task, clarify |-> FALSE]
Clarification == [stage |-> "Accepted", task |-> NoTask, clarify |-> TRUE]

\* Mutant: a late report of an earlier stage rewinds the record.
Ignored_Rewinds(entry, t) == entry.stage = "Rejected" /\ t.stage = "Rejected"

\* Transitions that leave the record alone: an earlier stage, a second
\* rejection. A clarification is not compared.
Ignored(entry, t) ==
    \/ ~t.clarify /\ t.stage # "Rejected" /\ stage_rank(t.stage) < stage_rank(entry.stage)
    \/ entry.stage = "Rejected" /\ t.stage = "Rejected"

Advanced(entry, t) ==
    [stage |-> IF t.stage # "Accepted" \/ t.clarify THEN t.stage ELSE entry.stage,
     task |-> IF t.task # NoTask THEN t.task ELSE entry.task,
     clarified |-> entry.clarified \/ t.clarify, expires |-> entry.expires]

TransitionEvent(i, t) ==
    [type |-> CASE t.stage = "Rejected" -> "InputRejected" [] t.stage = "Routed" -> "InputRouted"
                [] t.stage = "Answered" -> "InputAnswered"
                [] t.stage = "TaskSettled" -> "InputTaskSettled"
                [] OTHER -> "InputClarified",
     input |-> i, task |-> t.task, expires |-> 0]

---------------------------------------------------------------------------
(* rebuild                                                                  *)

ReplayedEntry(entry, e) ==
    [stage |-> CASE e.type = "InputRouted" -> "Routed" [] e.type = "InputRejected" -> "Rejected"
                 [] e.type = "InputAnswered" -> "Answered"
                 [] e.type = "InputTaskSettled" -> "TaskSettled" [] OTHER -> entry.stage,
     task |-> IF e.type \in {"InputRouted", "InputTaskSettled"} /\ e.task # NoTask
              THEN e.task ELSE entry.task,
     clarified |-> entry.clarified \/ e.type = "InputClarified", expires |-> entry.expires]

\* One event of the stream; a transition of an unknown input is skipped.
Replayed(index, e) ==
    IF e.type = "InputAccepted" THEN With(index, e.input, NewEntry(e.expires))
    ELSE IF e.input \notin DOMAIN index THEN index
    ELSE [index EXCEPT ![e.input] = ReplayedEntry(@, e)]

rebuild(log) ==
    LET after[i \in 0..Len(log)] ==
            IF i = 0 THEN EmptyIndex ELSE Replayed(after[i - 1], log[i])
    IN  after[Len(log)]

---------------------------------------------------------------------------
(* The coordinator.                                                         *)

VARIABLES index, log,   \* the ledger
          now,          \* the wall clock
          registry,     \* per principal: number of sessions, tasks
          runtime,      \* MiraRuntime's tasks: the input that began each, its state
          sinks,        \* tasks with a bound loop
          pending,      \* inputs waiting for the loop of a task
          life,         \* running, stopping, stopped
          queued,       \* callers of submit_input waiting for submit_mutex
          call,         \* the caller that holds it
          reader,       \* a principal_state call between its two locks
          host,         \* inputs refused to a caller, what loops were given
          load,         \* the workload
          budget        \* what is left of it

ledger == <<index, log>>
vars == <<index, log, now, registry, runtime, sinks, pending, life, queued, call, reader, host,
          load, budget>>

Ids == 1..MaxSubmits
States == {"live", "terminal", "absent"} \* absent: the runtime knows no such task
Idle == [pc |-> "idle", input |-> "none", ids |-> {}, states |-> [t \in {} |-> "absent"],
         intent |-> "none", task |-> NoTask, dead |-> {}]
NoReader == [busy |-> FALSE, ids |-> {}, states |-> [t \in {} |-> "absent"]]

At(pc) == call.pc = pc
Principal == PrincipalOf[call.input]
Terminal == {t \in 1..Len(runtime) : runtime[t].state = "terminal"}

---------------------------------------------------------------------------
(* The ledger's writes. An append that reports failure may have written.    *)

Write(e, ok) ==
    \/ ok /\ log' = Append(log, e) /\ UNCHANGED budget
    \/ /\ ~ok /\ budget.faults > 0
       /\ budget' = [budget EXCEPT !.faults = @ - 1]
       /\ log' \in {log, Append(log, e)}

\* The index is changed before the record is written, and stays changed.
advance(i, t, ok) ==
    \/ i \notin DOMAIN index /\ ~ok /\ UNCHANGED <<index, log, budget>>
    \/ i \in DOMAIN index /\ Ignored(index[i], t) /\ ok /\ UNCHANGED <<index, log, budget>>
    \/ /\ i \in DOMAIN index /\ ~Ignored(index[i], t)
       /\ index' = [index EXCEPT ![i] = Advanced(@, t)]
       /\ Write(TransitionEvent(i, t), ok)

---------------------------------------------------------------------------
(* Leaving submit_input.                                                    *)

Told(i, stage) == [host EXCEPT !.refused = IF stage = "Rejected" THEN @ \cup {i} ELSE @]
Return(stage) == call' = Idle /\ host' = Told(call.input, stage)

\* Every refusal after the admission: recorded if the ledger can, told anyway.
RejectCall ==
    /\ \E ok \in BOOLEAN : advance(call.input, Transition("Rejected", NoTask), ok)
    /\ Return("Rejected")

---------------------------------------------------------------------------
(* The routing decision over a principal's tasks.                           *)

Contains(s, i) == \E k \in 1..Len(s) : s[k] = i

\* Positions of a principal's tasks: of one id, of those that hold an input, of
\* the live ones. The code takes the first.
find_task(view, t) == {k \in DOMAIN view : view[k].id = t}
task_of_input(view, i) == {k \in DOMAIN view : Contains(view[k].inputs, i)}
LiveTasks(view) == {k \in DOMAIN view : view[k].live}
First(view, found) == view[CHOOSE k \in found : \A j \in found : k <= j]
Decision(intent, task) == [intent |-> intent, task |-> task]

Suggestions ==
    {Decision(intent, t) : intent \in {"ContinueCurrent", "PauseTask", "CancelTask", "ResumeTask"},
                           t \in Ids}
        \cup {Decision(intent, NoTask) : intent \in {"none", "NewTask", "Clarify", "Reject"}}

structural_route(view, i) ==
    LET replied == task_of_input(view, ReplyTo[i])
        live == LiveTasks(view)
        task == First(view, replied)
    IN  IF replied # {}
        THEN Decision(IF task.live THEN "ContinueCurrent" ELSE "ResumeTask", task.id)
        ELSE IF live = {} THEN Decision("NewTask", NoTask)
        ELSE IF \A j, k \in live : j = k THEN Decision("ContinueCurrent", First(view, live).id)
        ELSE Decision("Clarify", NoTask)

\* Mutant: a suggestion is adopted without a look at its target's state.
decide_route_Trusts(view, i, s) ==
    IF s.intent \in {"NewTask", "Clarify", "Reject"} \/ find_task(view, s.task) # {}
    THEN s ELSE structural_route(view, i)

\* A suggestion counts when its target is the principal's and in the right
\* state; a settled target is resumed, never continued.
decide_route(view, i, s) ==
    LET found == find_task(view, s.task)
        live == First(view, found).live
    IN  IF s.intent \in {"NewTask", "Clarify", "Reject"} THEN s
        ELSE IF s.intent \in {"ContinueCurrent", "PauseTask", "CancelTask"} /\ found # {} /\ live
        THEN s
        ELSE IF s.intent \in {"ContinueCurrent", "ResumeTask"} /\ found # {} /\ ~live
        THEN Decision("ResumeTask", s.task)
        ELSE structural_route(view, i)

---------------------------------------------------------------------------
(* refresh_task_states: the ids are copied, the runtime is read without the *)
(* lock, one task at a time, and what was read is then written into         *)
(* whatever the registry has become.                                        *)

TrackedIds == {registry[p].tasks[k].id : <<p, k>> \in
                    {<<p, k>> \in Principals \X Ids : k \in DOMAIN registry[p].tasks}}
NoStates == [t \in {} |-> "absent"]

\* r is a refresh in progress: the ids still to be read, what the others read.
Reads(r, t) == [r EXCEPT !.ids = @ \ {t},
                         !.states = [u \in DOMAIN @ \cup {t} |-> IF u = t THEN runtime[t].state
                                                                ELSE @[u]]]

RefreshedTask(e, states) ==
    IF e.id \in DOMAIN states /\ states[e.id] # "absent"
    THEN [e EXCEPT !.live = states[e.id] = "live"] ELSE e

Refreshed(states) ==
    [p \in Principals |->
        [registry[p] EXCEPT !.tasks = [k \in DOMAIN @ |-> RefreshedTask(@[k], states)]]]

---------------------------------------------------------------------------
(* submit_input                                                             *)

\* The checks before the mutex: shutting down, initialized.
Submit(i) ==
    /\ life = "running" /\ i \in load.inputs \ queued /\ budget.submits > 0
    /\ queued' = queued \cup {i}
    /\ budget' = [budget EXCEPT !.submits = @ - 1]
    /\ UNCHANGED <<ledger, now, registry, runtime, sinks, pending, life, call, reader, host>>

\* Mutant: a repeated id is dispatched again.
Admit_Twice(i) ==
    /\ At("idle") /\ i \in queued
    /\ queued' = queued \ {i}
    /\ index' = With(Reclaimed(index, i, now, load.entries), i, NewEntry(now + Window))
    /\ Write(AcceptedEvent(i, now), TRUE)
    /\ call' = [Idle EXCEPT !.pc = "check", !.input = i, !.dead = Terminal]
    /\ UNCHANGED <<now, registry, runtime, sinks, pending, life, reader, host>>

\* The mutex is taken and the input admitted. A refusal and a repeat return.
Admit(i) ==
    /\ At("idle") /\ i \in queued
    /\ queued' = queued \ {i}
    /\ LET found == admission(index, i, now, load.entries)
       IN  \/ /\ found = "new"
              /\ \E ok \in BOOLEAN :
                    /\ Write(AcceptedEvent(i, now), ok)
                    /\ index' = IF ok THEN With(Reclaimed(index, i, now, load.entries), i, NewEntry(now + Window))
                                ELSE Reclaimed(index, i, now, load.entries)
                    /\ call' = IF ok THEN [Idle EXCEPT !.pc = "check", !.input = i,
                                                       !.dead = Terminal]
                               ELSE Idle
                    /\ host' = IF ok THEN host ELSE Told(i, "Rejected")
           \/ /\ found # "new"
              /\ host' = Told(i, IF found = "duplicate" THEN index[i].stage ELSE "Rejected")
              /\ index' = Reclaimed(index, i, now, load.entries)
              /\ UNCHANGED <<log, call, budget>>
    /\ UNCHANGED <<now, registry, runtime, sinks, pending, life, reader>>

\* permitted() and the first half of the refresh.
Check ==
    /\ At("check")
    /\ \/ RejectCall
       \/ /\ call' = [call EXCEPT !.pc = "refresh", !.ids = TrackedIds]
          /\ UNCHANGED <<ledger, host, budget>>
    /\ UNCHANGED <<now, registry, runtime, sinks, pending, life, queued, reader>>

ReadTask(t) ==
    /\ At("refresh") /\ t \in call.ids
    /\ call' = Reads(call, t)
    /\ UNCHANGED <<ledger, now, registry, runtime, sinks, pending, life, queued, reader, host, budget>>

Refresh ==
    /\ At("refresh") /\ call.ids = {}
    /\ registry' = Refreshed(call.states)
    /\ call' = [call EXCEPT !.pc = "route", !.states = NoStates]
    /\ UNCHANGED <<ledger, now, runtime, sinks, pending, life, queued, reader, host, budget>>

\* The snapshot, the host's suggestion, the decision.
Route ==
    /\ At("route")
    /\ \E s \in Suggestions :
        LET d == decide_route(registry[Principal].tasks, call.input, s)
        IN  call' = [call EXCEPT !.pc = d.intent, !.intent = d.intent, !.task = d.task]
    /\ UNCHANGED <<ledger, now, registry, runtime, sinks, pending, life, queued, reader, host,
                   budget>>

Reject ==
    /\ At("Reject")
    /\ RejectCall
    /\ UNCHANGED <<now, registry, runtime, sinks, pending, life, queued, reader>>

Clarify ==
    /\ At("Clarify")
    /\ \E ok \in BOOLEAN :
        /\ advance(call.input, Clarification, ok)
        /\ Return(IF ok THEN "Accepted" ELSE "Rejected")
    /\ UNCHANGED <<now, registry, runtime, sinks, pending, life, queued, reader>>

Ended(t) == [runtime EXCEPT ![t].state = "terminal"]

\* PauseTask and CancelTask: the command is refused, is late (and may still
\* take effect), or settles. How it settled is not looked at.
Control ==
    /\ At("PauseTask") \/ At("CancelTask")
    /\ runtime' \in IF At("CancelTask") /\ runtime[call.task].state = "live"
                    THEN {runtime, Ended(call.task)} ELSE {runtime}
    /\ \/ RejectCall
       \/ \E ok \in BOOLEAN :
            /\ advance(call.input, Transition("Routed", call.task), ok)
            /\ Return(IF ok THEN "Routed" ELSE "Rejected")
    /\ UNCHANGED <<now, registry, sinks, pending, life, queued, reader>>

NewTask(t, from, constraints) ==
    [id |-> t, live |-> TRUE, from |-> from, inputs |-> <<>>, constraints |-> constraints]

\* The input's own task takes it, and as a constraint when it continues work.
Bounded(s) == IF Len(s) > MaxConstraints THEN Tail(s) ELSE s
Bound(tasks, t, constrains) ==
    [k \in DOMAIN tasks |->
        IF tasks[k].id # t THEN tasks[k]
        ELSE [tasks[k] EXCEPT !.inputs = Append(@, call.input),
                              !.constraints = IF constrains THEN Bounded(Append(@, call.input))
                                              ELSE @]]

Continue ==
    /\ At("ContinueCurrent")
    /\ registry' = [registry EXCEPT ![Principal].tasks = Bound(@, call.task, TRUE)]
    /\ call' = [call EXCEPT !.pc = "prepare"]
    /\ UNCHANGED <<ledger, now, runtime, sinks, pending, life, queued, reader, host, budget>>

Opens == call.intent = "NewTask"
SessionLimit == Opens /\ registry[Principal].sessions >= MaxSessions
WithSession ==
    IF Opens THEN [registry EXCEPT ![Principal].sessions = @ + 1] ELSE registry

\* Constraints a resumed task hands on.
Inherited ==
    LET previous == find_task(registry[Principal].tasks, call.task)
    IN  IF call.intent = "ResumeTask" /\ previous # {}
        THEN First(registry[Principal].tasks, previous).constraints ELSE <<>>

Started(state) == Append(runtime, [input |-> call.input, state |-> state])

\* No session: the limit, no environment, the command refused or late.
OpenFails ==
    /\ At("NewTask")
    /\ RejectCall
    /\ UNCHANGED <<now, registry, runtime, sinks, pending, life, queued, reader>>

\* submit_task is refused, or late and the task starts unseen.
StartFails ==
    /\ At("NewTask") \/ At("ResumeTask")
    /\ ~SessionLimit
    /\ registry' = WithSession
    /\ runtime' \in {runtime, Started("live")}
    /\ RejectCall
    /\ UNCHANGED <<now, sinks, pending, life, queued, reader>>

\* The command settled, as a task that runs or as one the runtime turned down.
\* Only then is the number of tracked tasks looked at.
Start ==
    /\ At("NewTask") \/ At("ResumeTask")
    /\ ~SessionLimit
    /\ \E state \in {"live", "absent"} : runtime' = Started(state)
    /\ LET t == Len(runtime')
           tasks == registry[Principal].tasks
       IN  \/ /\ Len(tasks) >= load.tasks
              /\ registry' = WithSession
              /\ RejectCall
           \/ /\ Len(tasks) < load.tasks
              /\ registry' = [WithSession EXCEPT ![Principal].tasks =
                                Bound(Append(@, NewTask(t, call.task, Inherited)), t, FALSE)]
              /\ call' = [call EXCEPT !.pc = "prepare", !.task = t]
              /\ UNCHANGED <<ledger, host, budget>>
    /\ UNCHANGED <<now, sinks, pending, life, queued, reader>>

\* The executor refuses the context preparation, or does not finish it in time.
Prepare ==
    /\ At("prepare")
    /\ \/ RejectCall
       \/ /\ life = "running"
          /\ call' = [call EXCEPT !.pc = "deliver"]
          /\ UNCHANGED <<ledger, host, budget>>
    /\ UNCHANGED <<now, registry, runtime, sinks, pending, life, queued, reader>>

Handed(h) == [h EXCEPT !.handed = @ \cup {call.input}]
GivenTo(h, i, t) == [h EXCEPT !.given = Append(@, [input |-> i, task |-> t])]

\* To the loop, which may refuse, or to the inputs that wait for one.
Deliver ==
    /\ At("deliver")
    /\ \/ /\ call.task \in sinks \/ Len(pending[call.task]) >= load.room
          /\ RejectCall /\ UNCHANGED pending
       \/ /\ call.task \in sinks
          /\ host' = Handed(GivenTo(host, call.input, call.task))
          /\ call' = [call EXCEPT !.pc = "commit"]
          /\ UNCHANGED <<ledger, budget, pending>>
       \/ /\ call.task \notin sinks /\ Len(pending[call.task]) < load.room
          /\ pending' = [pending EXCEPT ![call.task] = Append(@, call.input)]
          /\ host' = Handed(host)
          /\ call' = [call EXCEPT !.pc = "commit"]
          /\ UNCHANGED <<ledger, budget>>
    /\ UNCHANGED <<now, registry, runtime, sinks, life, queued, reader>>

\* Mutant: the caller is never answered.
Commit_Hangs ==
    /\ At("commit") /\ \E ok \in BOOLEAN : advance(call.input, Transition("Routed", call.task), ok)
    /\ UNCHANGED <<now, registry, runtime, sinks, pending, life, queued, reader, call, host>>

Commit ==
    /\ At("commit")
    /\ \E ok \in BOOLEAN :
        /\ advance(call.input, Transition("Routed", call.task), ok)
        /\ Return(IF ok THEN "Routed" ELSE "Rejected")
    /\ UNCHANGED <<now, registry, runtime, sinks, pending, life, queued, reader>>

CallStep ==
    \/ \E i \in Inputs : Admit(i)
    \/ \E t \in Ids : ReadTask(t)
    \/ Check \/ Refresh \/ Route \/ Reject \/ Clarify \/ Control \/ Continue
    \/ OpenFails \/ StartFails \/ Start \/ Prepare \/ Deliver \/ Commit

---------------------------------------------------------------------------
(* Calls beside submit_input.                                               *)

NothingPending == [t \in Ids |-> <<>>]

\* The waiting inputs go to the new loop in order. When it refuses one, that
\* one waits again, and the loop stays bound.
register_sink(t) ==
    /\ At("idle") /\ t \in 1..Len(runtime)
    /\ t \in sinks \/ Cardinality(sinks) < load.sinks
    /\ sinks' = sinks \cup {t}
    /\ LET waiting == pending[t]
       IN  \E k \in 0..Len(waiting) :
            /\ host' = [host EXCEPT !.given = @ \o [j \in 1..k |-> [input |-> waiting[j], task |-> t]]]
            /\ pending' = [pending EXCEPT ![t] = IF k = Len(waiting) THEN <<>>
                                                 ELSE <<waiting[k + 1]>>]
    /\ UNCHANGED <<ledger, now, registry, runtime, life, queued, call, reader, budget>>

unregister_sink(t) ==
    /\ t \in sinks
    /\ sinks' = sinks \ {t}
    /\ UNCHANGED <<ledger, now, registry, runtime, pending, life, queued, call, reader, host, budget>>

\* record_answer, record_settlement and record_rejection, at any time: also while
\* submit_input works on the input.
record(i, stage) ==
    /\ life # "stopped" /\ i \in DOMAIN index /\ host.reports < load.reports
    /\ host' = [host EXCEPT !.reports = @ + 1]
    /\ \E ok \in BOOLEAN : advance(i, Transition(stage, NoTask), ok)
    /\ UNCHANGED <<now, registry, runtime, sinks, pending, life, queued, call, reader>>

ReadBegin ==
    /\ ~reader.busy /\ budget.reads > 0
    /\ reader' = [NoReader EXCEPT !.busy = TRUE, !.ids = TrackedIds]
    /\ budget' = [budget EXCEPT !.reads = @ - 1]
    /\ UNCHANGED <<ledger, now, registry, runtime, sinks, pending, life, queued, call, host>>

ReaderReads(t) ==
    /\ reader.busy /\ t \in reader.ids
    /\ reader' = Reads(reader, t)
    /\ UNCHANGED <<ledger, now, registry, runtime, sinks, pending, life, queued, call, host, budget>>

\* What was read is written, however old it is. A submission between its own
\* refresh and its snapshot then takes a task that ended since for a live one,
\* and call.dead forgets it.
Revived == IF At("route") THEN {t \in DOMAIN reader.states : reader.states[t] = "live"} ELSE {}
ReadEnd ==
    /\ reader.busy /\ reader.ids = {}
    /\ registry' = Refreshed(reader.states)
    /\ reader' = NoReader
    /\ call' = [call EXCEPT !.dead = @ \ Revived]
    /\ UNCHANGED <<ledger, now, runtime, sinks, pending, life, queued, host, budget>>

ShutdownBegin ==
    /\ life = "running"
    /\ life' = "stopping"
    /\ UNCHANGED <<ledger, now, registry, runtime, sinks, pending, queued, call, reader, host, budget>>

ShutdownEnd ==
    /\ life = "stopping" /\ At("idle")
    /\ life' = "stopped" /\ sinks' = {} /\ pending' = NothingPending
    /\ UNCHANGED <<ledger, now, registry, runtime, queued, call, reader, host, budget>>

reclaim_expired ==
    /\ index' = Live(index, now) /\ index' # index
    /\ UNCHANGED <<log, now, registry, runtime, sinks, pending, life, queued, call, reader, host,
                   budget>>

---------------------------------------------------------------------------
(* The world outside.                                                       *)

TaskEnds(t) ==
    /\ t \in 1..Len(runtime) /\ runtime[t].state = "live"
    /\ runtime' = Ended(t)
    /\ UNCHANGED <<ledger, now, registry, sinks, pending, life, queued, call, reader, host, budget>>

Tick ==
    /\ now < load.time
    /\ now' = now + 1
    /\ UNCHANGED <<ledger, registry, runtime, sinks, pending, life, queued, call, reader, host, budget>>

NewRegistry == [p \in Principals |-> [sessions |-> 0, tasks |-> <<>>]]

\* The process dies; another starts on the same log and calls initialize().
\* The ledger is rebuilt; the runtime and the registry start empty.
Restart ==
    /\ budget.crashes > 0
    /\ budget' = [budget EXCEPT !.crashes = @ - 1]
    /\ index' = rebuild(log)
    /\ registry' = NewRegistry /\ sinks' = {} /\ pending' = NothingPending
    /\ runtime' = [t \in DOMAIN runtime |-> [runtime[t] EXCEPT !.state = "absent"]]
    /\ life' = "running" /\ queued' = {} /\ call' = Idle /\ reader' = NoReader
    /\ host' = [host EXCEPT !.handed = {}]
    /\ UNCHANGED <<log, now>>

Init ==
    /\ index = EmptyIndex /\ log = <<>> /\ now = 0
    /\ registry = NewRegistry /\ runtime = <<>> /\ sinks = {} /\ pending = NothingPending
    /\ life = "running" /\ queued = {} /\ call = Idle /\ reader = NoReader
    /\ host = [refused |-> {}, given |-> <<>>, handed |-> {}, reports |-> 0]
    /\ load \in Workloads
    /\ budget = [submits |-> load.submits, reads |-> load.reads, faults |-> load.faults,
                 crashes |-> load.crashes]

Beside ==
    \/ \E t \in Ids : register_sink(t) \/ unregister_sink(t) \/ TaskEnds(t) \/ ReaderReads(t)
    \/ \E i \in Inputs, stage \in load.records : record(i, stage)
    \/ ReadBegin \/ ReadEnd \/ ShutdownBegin \/ ShutdownEnd \/ reclaim_expired \/ Tick \/ Restart

Next ==
    /\ (\E i \in Inputs : Submit(i)) \/ CallStep \/ Beside
    /\ UNCHANGED load

Spec == Init /\ [][Next]_vars

\* Every wait inside submit_input has a timeout and shutdown runs on.
FairSpec ==
    Spec /\ WF_vars(CallStep /\ UNCHANGED load) /\ WF_vars(ShutdownEnd /\ UNCHANGED load)

---------------------------------------------------------------------------
(* Properties.                                                              *)

Entry(e) ==
    /\ e.stage \in Stages /\ e.task \in Ids \cup {NoTask}
    /\ e.clarified \in BOOLEAN /\ e.expires \in Nat

\* The state is well formed and what the configuration bounds stays bounded:
\* sessions, tasks and constraints of a principal, bound loops, waiting inputs.
TypeOK ==
    /\ DOMAIN index \subseteq Inputs /\ \A i \in DOMAIN index : Entry(index[i])
    /\ \A p \in Principals : /\ registry[p].sessions \in 0..MaxSessions
                             /\ Len(registry[p].tasks) <= load.tasks
                             /\ \A k \in DOMAIN registry[p].tasks :
                                    Len(registry[p].tasks[k].constraints) <= MaxConstraints
    /\ \A t \in DOMAIN runtime : runtime[t].input \in Inputs /\ runtime[t].state \in States
    /\ sinks \subseteq Ids /\ Cardinality(sinks) <= load.sinks
    /\ \A t \in Ids : Len(pending[t]) <= load.room
    /\ life \in {"running", "stopping", "stopped"} /\ queued \subseteq Inputs
    /\ call.input \in Inputs \cup {"none"} /\ call.task \in Ids \cup {NoTask}

Given(i) == {k \in DOMAIN host.given : host.given[k].input = i}
Waiting(i) == {t \in Ids : Contains(pending[t], i)}
Begun(i) == {t \in DOMAIN runtime : runtime[t].input = i}
Tracked(t) == \E p \in Principals : find_task(registry[p].tasks, t) # {}

\* The admissions of an input that the stream records, and their windows.
Admissions(i) == {k \in DOMAIN log : log[k].type = "InputAccepted" /\ log[k].input = i}
Windows(i) == {log[k].expires : k \in Admissions(i)}

\* An input id takes effect once in its idempotency window: however often it is
\* submitted, by callers racing each other and across restarts, it begins at most
\* one task and reaches at most one loop for each window, and unless the store
\* refused a record the next window opens only when the last has ended.
EffectOnce ==
    \A i \in Inputs :
        /\ Cardinality(Begun(i)) <= Cardinality(Windows(i))
        /\ Cardinality(Given(i)) + Cardinality(Waiting(i)) <= Cardinality(Windows(i))
        /\ budget.faults = load.faults =>
            \A j, k \in Admissions(i) : j < k => log[k].expires - Window > log[j].expires

\* An input that was handed on, to a loop or to the queue of its task, is not
\* dropped while the coordinator runs: it was given to a loop or it waits.
HandedNeverLost ==
    life = "running" => \A i \in host.handed : Given(i) # {} \/ Waiting(i) # {}

\* The stage of a record never goes back, whatever order the routing, the
\* answers and the settlements come in, but for one case: a clarification of the
\* input that submit_input holds, after a report on it. Nor does a restart set it
\* back, unless the store had refused a record.
StageNeverRegresses ==
    [][budget'.crashes = budget.crashes \/ budget.faults = load.faults =>
        \A i \in DOMAIN index \cap DOMAIN index' :
            \/ stage_rank(index'[i].stage) >= stage_rank(index[i].stage)
            \/ At("Clarify") /\ call.input = i /\ call' = Idle]_vars

\* Clarified after a report: the index says Accepted, the stream what was reported.
SetBack(entry) == entry.clarified /\ entry.stage = "Accepted"

\* A restart resumes with what callers were told: the replay of the stream knows
\* every record of the index, never claims a later stage than the index has, and
\* is the index while the store takes every record. The exception to both is a
\* record that a clarification set back.
ReplayIsIndex ==
    \A i \in DOMAIN index :
        /\ i \in DOMAIN rebuild(log)
        /\ LET replay == rebuild(log)[i]
           IN  /\ \/ stage_rank(replay.stage) <= stage_rank(index[i].stage)
                  \/ SetBack(index[i])
               /\ budget.faults = load.faults =>
                    \/ replay = index[i]
                    \/ SetBack(index[i]) /\ [replay EXCEPT !.stage = "Accepted"] = index[i]

\* A task of the runtime that the registry does not know was begun by an input
\* whose caller was told that it was rejected (or is about to be told).
UntrackedWasRejected ==
    \A t \in DOMAIN runtime :
        runtime[t].state # "absent" =>
            Tracked(t) \/ runtime[t].input \in host.refused

\* The positions of the tasks that task k continues, itself included.
Line(tasks) ==
    LET line[k \in DOMAIN tasks] ==
            {k} \cup UNION {line[j] : j \in {j \in 1..(k - 1) : tasks[j].id = tasks[k].from}}
    IN  line

\* An input goes only to tasks of its own principal and belongs to one of them,
\* the one whose loop it waits for; a task's constraints are inputs of its own
\* or of the tasks it resumes.
InputsStayHome ==
    \A p \in Principals : \A k \in DOMAIN registry[p].tasks :
        LET tasks == registry[p].tasks
            e == tasks[k]
        IN  /\ \A i \in Range(e.inputs) \cup Range(pending[e.id]) : PrincipalOf[i] = p
            /\ \A i \in Range(pending[e.id]) : Contains(e.inputs, i)
            /\ \A i \in Range(e.constraints) :
                    \E j \in Line(tasks)[k] : Contains(tasks[j].inputs, i)
            /\ \A j \in DOMAIN tasks : \A i \in Range(e.inputs) \cap Range(tasks[j].inputs) :
                    j = k \/ Cardinality(Windows(i)) > 1

\* A task that was terminal when an input was admitted is not continued, paused
\* or cancelled by it; at most a new task resumes it. The exception is a task
\* that a principal_state call read while it lived and wrote back between the
\* refresh of the submission and its snapshot.
TerminalNotRouted ==
    call.intent \in {"ContinueCurrent", "PauseTask", "CancelTask"} => call.task \notin call.dead

\* Inputs go where they belong: to tasks of their own principal that are not known
\* to have ended, within the bounds of the queues, and a task that nobody tracks is
\* one whose input was rejected (decide_route, submit_input).
RoutingSound == TypeOK /\ UntrackedWasRejected /\ InputsStayHome /\ TerminalNotRouted

\* Within its window an input has its effect at most once, through repetition and
\* restarts, and the stream replays to the index (InputLedger::admit, record,
\* replay).
LedgerSound == EffectOnce /\ ReplayIsIndex

\* Once no more inputs come, every caller has been answered and a shutdown
\* that began has ended: no step of submit_input waits for ever, and neither
\* a caller that passed the shutdown check nor a full queue holds it up.
CallsReturn == <>[](queued = {} /\ At("idle") /\ life # "stopping")
=============================================================================

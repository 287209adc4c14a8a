-------------------------- MODULE ContextSupervisor --------------------------
(***************************************************************************)
(* The supervisor of context and memory work (context_memory_supervisor):  *)
(* operations are admitted under a bound, run on the executor, settled     *)
(* into counters and lifecycle events, and resolved to their callers;      *)
(* begin_shutdown stops admission, cancels what is deferrable, and drains. *)
(*                                                                         *)
(* Every section under mutex_ is one step. Between two sections anything   *)
(* may happen: a dispatcher that has submitted its thunk and not yet kept  *)
(* the future, a thunk that has settled and not yet left.                  *)
(***************************************************************************)
EXTENDS Naturals, FiniteSets

CONSTANTS
  Operations,       \* the operations a run may schedule
  LabelOf,          \* their labels
  ClassOf,          \* Critical, Interactive or Deferrable
  MutationTypeOf,   \* the type a "mutation" applies
  max_in_flight,    \* SupervisorConfig
  Shutters,         \* callers of begin_shutdown (the destructor is one)
  MaxFaults         \* bound: appends the event sink refuses, and submissions the executor does

VARIABLES
  supervisor, \* the members of Impl
  ops,        \* where each operation is, and what its caller was told
  shutters    \* where each begin_shutdown is

supervisorVars == << supervisor, ops, shutters >>

-----------------------------------------------------------------------------
(* The event names. *)

started_event_for(label) ==
  CASE label = "checkpoint"   -> "ContextCheckpointRequested"
    [] label = "memory_query" -> "MemoryQueryStarted"
    [] label = "mutation"     -> "MemoryMutationProposed"
    [] label = "erasure"      -> "MemoryErasureRequested"
    [] OTHER                  -> "ContextMemoryOperationStarted"

\* A supersede and a tombstone report the transition they caused.
memory_mutation_transition_event(applied) ==
  CASE applied = "Supersede" -> "MemorySuperseded"
    [] applied = "Tombstone" -> "MemoryTombstoned"
    [] OTHER                 -> "MemoryMutationApplied"

\* A failure outranks a cancellation, which outranks the transition's name.
finished_event_for(o, outcome) ==
  LET label == LabelOf[o]
  IN  CASE outcome = "failed" ->
             (CASE label = "checkpoint"   -> "ContextCheckpointFailed"
                [] label = "memory_query" -> "MemoryQueryDegraded"
                [] label = "mutation"     -> "MemoryMutationRejected"
                [] OTHER                  -> "ContextMemoryOperationFailed")
        [] outcome = "cancelled" -> "ContextMemoryOperationCancelled"
        [] outcome = "degraded" /\ label = "memory_query" -> "MemoryQueryDegraded"
        [] OTHER ->
             (CASE label = "mutation"     -> memory_mutation_transition_event(MutationTypeOf[o])
                [] label = "memory_query" -> "MemoryQueryFinished"
                [] label = "checkpoint"   -> "ContextCheckpointStored"
                [] label = "erasure"      -> "MemoryErased"
                [] OTHER                  -> "ContextMemoryOperationFinished")

-----------------------------------------------------------------------------

\* `call` follows the dispatching caller: new, admitted, submitted, returned.
\* `work` follows the thunk: none, queued, running, cancelling, settled, done.
SupervisorInit ==
  /\ supervisor = [closing |-> FALSE, deferrable_stop |-> FALSE, in_flight |-> 0, futures |-> {},
                   admitted |-> 0, completed |-> 0, failed |-> 0, cancelled |-> 0,
                   emitted |-> 0, sink_failures |-> 0, refusals |-> 0]
  /\ ops = [o \in Operations |-> [call |-> "new", work |-> "none", answer |-> "none",
                                  event |-> "none", late |-> FALSE]]
  /\ shutters = [s \in Shutters |-> [pc |-> "idle", pending |-> {}, report |-> "none"]]

Settled == {"settled", "done"}
Ready(o) == ops[o].work = "done"

\* emit_locked: a refused append is counted and otherwise ignored.
emit_locked(s, o, op, event, answer) ==
  \/ /\ supervisor' = [s EXCEPT !.emitted = @ + 1]
     /\ ops' = [ops EXCEPT ![o] = [op EXCEPT !.answer = answer, !.event = event]]
  \/ /\ s.sink_failures + s.refusals < MaxFaults
     /\ supervisor' = [s EXCEPT !.sink_failures = @ + 1]
     /\ ops' = [ops EXCEPT ![o] = [op EXCEPT !.answer = answer]]

\* dispatch, first section.
Admit(o) ==
  /\ ops[o].call = "new"
  /\ \/ /\ supervisor.closing \/ supervisor.in_flight >= max_in_flight
        /\ ops' = [ops EXCEPT ![o].call = "returned", ![o].answer = "rejected"]
        /\ UNCHANGED supervisor
     \/ /\ ~supervisor.closing /\ supervisor.in_flight < max_in_flight
        /\ emit_locked([supervisor EXCEPT !.in_flight = @ + 1, !.admitted = @ + 1], o,
                       [ops[o] EXCEPT !.call = "admitted"], started_event_for(LabelOf[o]), "none")
  /\ UNCHANGED shutters

\* submit_auto: the executor takes the thunk, or throws and the slot is given
\* back.
SubmitAuto(o) ==
  /\ ops[o].call = "admitted"
  /\ \/ /\ ops' = [ops EXCEPT ![o].call = "submitted", ![o].work = "queued"]
        /\ UNCHANGED supervisor
     \/ /\ supervisor.sink_failures + supervisor.refusals < MaxFaults
        /\ ops' = [ops EXCEPT ![o].call = "returned", ![o].answer = "rejected"]
        /\ supervisor' = [supervisor EXCEPT !.in_flight = @ - 1, !.failed = @ + 1,
                                            !.refusals = @ + 1]
  /\ UNCHANGED shutters

\* The caller keeps the executor's future and prunes the ready ones.
Retain(o) ==
  /\ ops[o].call = "submitted"
  /\ ops' = [ops EXCEPT ![o].call = "returned"]
  /\ supervisor' = [supervisor EXCEPT !.futures = {f \in @ \cup {o} : ~Ready(f)}]
  /\ UNCHANGED shutters

\* The thunk looks at its token: only a deferrable one can be stopped.
Begin(o) ==
  /\ ops[o].work = "queued"
  /\ LET stopped == ClassOf[o] = "Deferrable" /\ supervisor.deferrable_stop
     IN  ops' = [ops EXCEPT ![o].work = IF stopped THEN "cancelling" ELSE "running",
                            ![o].late = supervisor.deferrable_stop /\ ~stopped]
  /\ UNCHANGED << supervisor, shutters >>

\* What an operation that was not stopped may come to. A Cancelled error of the
\* operation itself is a failure to the accounting.
Outcomes(o) ==
  IF ops[o].work = "cancelling" THEN {"cancelled"}
  ELSE {"completed", "failed"} \cup (IF LabelOf[o] = "memory_query" THEN {"degraded"} ELSE {})

Count(s, outcome) ==
  CASE outcome = "cancelled" -> [s EXCEPT !.cancelled = @ + 1]
    [] outcome = "failed"    -> [s EXCEPT !.failed = @ + 1]
    [] OTHER                 -> [s EXCEPT !.completed = @ + 1]

\* The operation returns or throws and is settled, counters and event, before
\* its promise is set.
Settle(o) ==
  /\ ops[o].work \in {"running", "cancelling"}
  /\ \E outcome \in Outcomes(o) :
       emit_locked(Count(supervisor, outcome), o, [ops[o] EXCEPT !.work = "settled"],
                   finished_event_for(o, outcome), outcome)
  /\ UNCHANGED shutters

\* The promise is set, the slot is given back, and the future becomes ready.
Leave(o) ==
  /\ ops[o].work = "settled"
  /\ ops' = [ops EXCEPT ![o].work = "done"]
  /\ supervisor' = [supervisor EXCEPT !.in_flight = @ - 1]
  /\ UNCHANGED shutters

-----------------------------------------------------------------------------
(* begin_shutdown. *)

At(s, pc) == shutters[s].pc = pc
Go(s, pc) == shutters' = [shutters EXCEPT ![s].pc = pc]

CloseAdmission(s) ==
  /\ At(s, "idle") /\ Go(s, "closed")
  /\ supervisor' = [supervisor EXCEPT !.closing = TRUE]
  /\ UNCHANGED ops

StopDeferrable(s) ==
  /\ At(s, "closed") /\ Go(s, "drain")
  /\ supervisor' = [supervisor EXCEPT !.deferrable_stop = TRUE]
  /\ UNCHANGED ops

\* The poll loop ends when nothing is in flight or when the drain timeout
\* passes; either way the retained futures are taken to be waited for.
Drain(s) ==
  /\ At(s, "drain")
  /\ \/ /\ supervisor.in_flight = 0
        /\ supervisor' = [supervisor EXCEPT !.futures = {f \in @ : ~Ready(f)}]
        /\ Go(s, "take")
     \/ Go(s, "take") /\ UNCHANGED supervisor
  /\ UNCHANGED ops

TakeFutures(s) ==
  /\ At(s, "take")
  /\ shutters' = [shutters EXCEPT ![s].pc = "wait", ![s].pending = supervisor.futures]
  /\ supervisor' = [supervisor EXCEPT !.futures = {}]
  /\ UNCHANGED ops

\* Mutant: the report is made without waiting for what was taken, and says the
\* drain is over when no future is retained.
Report_Unwaited(s) ==
  /\ At(s, "wait")
  /\ shutters' = [shutters EXCEPT ![s].pc = "reported",
       ![s].report = IF supervisor.futures = {} THEN "complete" ELSE "incomplete"]
  /\ UNCHANGED << supervisor, ops >>

Report(s) ==
  /\ At(s, "wait")
  /\ \A f \in shutters[s].pending : Ready(f)
  /\ shutters' = [shutters EXCEPT ![s].pc = "reported",
       ![s].report = IF supervisor.in_flight = 0 THEN "complete" ELSE "incomplete"]
  /\ UNCHANGED << supervisor, ops >>

Dispatching(o) == Admit(o) \/ SubmitAuto(o) \/ Retain(o)
Thunk(o) == Begin(o) \/ Settle(o) \/ Leave(o)
begin_shutdown(s) ==
  CloseAdmission(s) \/ StopDeferrable(s) \/ Drain(s) \/ TakeFutures(s) \/ Report(s)

SupervisorNext ==
  \/ \E o \in Operations : Dispatching(o) \/ Thunk(o)
  \/ \E s \in Shutters : begin_shutdown(s)

-----------------------------------------------------------------------------
(* Properties *)

Admitted == {o \in Operations : \/ ops[o].call \in {"admitted", "submitted"}
                                \/ ops[o].work # "none"}
Unfinished == {o \in Admitted : ops[o].work # "done"}

\* Every scheduled operation is answered and every shutdown returns.
SupervisorQuiet ==
  /\ \A o \in Operations : ops[o].call = "returned" /\ ops[o].answer # "none"
  /\ Unfinished = {}
  /\ \A s \in Shutters : shutters[s].pc = "reported"

\* What the supervisor accounts for is what happened: the slots in use are the
\* admitted operations that have not left and never exceed the bound, every
\* admitted operation is counted under exactly one outcome once it has settled
\* (so a resolved future implies settled accounting), a report that calls the
\* drain complete leaves nothing behind that could still run, and a report that
\* does not was overtaken by a caller inside dispatch or by another shutdown.
\* Nobody waits for ever: every step takes some caller, thunk or shutdown further,
\* and there is one until all are through (dispatch, settle, begin_shutdown).
SupervisorHonest ==
  /\ SupervisorQuiet \/ ENABLED SupervisorNext
  /\ supervisor.in_flight = Cardinality(Unfinished)
  /\ supervisor.in_flight <= max_in_flight
  /\ supervisor.completed + supervisor.failed + supervisor.cancelled
       = Cardinality({o \in Operations : ops[o].work \in Settled}) + supervisor.refusals
  /\ supervisor.admitted = Cardinality(Admitted) + supervisor.refusals
  /\ \A o \in Operations : ops[o].late => ClassOf[o] # "Deferrable"
  /\ \A o \in Operations : ops[o].event = "MemorySuperseded" => ops[o].answer = "completed"
  /\ \A s \in Shutters : shutters[s].report = "complete" => Unfinished = {}
  /\ (\A s \in Shutters : shutters[s].pc = "reported") /\ Unfinished # {} =>
       \A o \in Unfinished : o \notin UNION {shutters[s].pending : s \in Shutters}
=============================================================================

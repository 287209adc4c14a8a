--------------------------- MODULE ContextRefresh ---------------------------
(***************************************************************************)
(* Keeping the working context fresh: the ring of committed snapshots      *)
(* (InMemoryWorkingContextStore), the commit of a candidate                *)
(* (commit_working_context), and the coordinator that decides when to      *)
(* curate (context_working_context_auto.cpp), over the supervised          *)
(* refreshes that run meanwhile.                                           *)
(*                                                                         *)
(* A snapshot is its identity (task epoch and environment epoch), its      *)
(* watermark and a text, which stands for the digest of the rest. The      *)
(* coordinator has no lock: one host thread calls it, and that thread      *)
(* waits inside flush. A refresh takes the live state it was given when    *)
(* it was scheduled. The curator and the supervisor's admission are        *)
(* external: a curation yields a text or fails, an admission may be        *)
(* refused.                                                                *)
(***************************************************************************)
EXTENDS Naturals, Sequences, FiniteSets

CONSTANTS
  Sessions, Refreshes, Texts,
  watermark_interval, event_count_interval, max_tracked_sessions,
  max_snapshots_per_session,
  MaxWatermark, MaxEpoch, MaxCalls  \* bounds: messages, epoch bumps, host calls

VARIABLES
  world,   \* the session's watermark, the task's epoch, whether it is terminal
  rings,   \* the store, and (for the properties) all that was ever put
  chains,  \* the coordinator's ChainState of each session, untracked at first
  jobs,    \* the supervised refreshes
  host     \* the host thread: calls made, a flush it waits in, the last answer

refreshVars == << world, rings, chains, jobs, host >>

NoJob == [session |-> 0, epoch |-> 0, through |-> 0, live |-> [epoch |-> 0, terminal |-> FALSE],
          state |-> "free", text |-> 0, outcome |-> "none"]
ChainState == [tracked |-> FALSE, in_flight |-> 0, last_attempt |-> 0, settled |-> 0,
               settled_epoch |-> 0, has_settled |-> FALSE, events |-> 0, failures |-> 0]
NoCall == [session |-> 0, epoch |-> 0, through |-> 0, live |-> NoJob.live]

RefreshInit ==
  /\ world = [through |-> 1, epoch |-> 1, terminal |-> FALSE]
  /\ rings = [s \in Sessions |-> [ring |-> << >>, landed |-> {}]]
  /\ chains = [s \in Sessions |-> ChainState]
  /\ jobs = [j \in Refreshes |-> NoJob]
  /\ host = [calls |-> 0, waits |-> NoCall, answer |-> "none", asked |-> NoCall]

-----------------------------------------------------------------------------
(* The store. *)

Snapshot(epoch, through, text) == [epoch |-> epoch, through |-> through, text |-> text]
latest(s) == IF rings[s].ring = << >> THEN {} ELSE {rings[s].ring[Len(rings[s].ring)]}

\* Within one identity a watermark never goes back behind the latest one's.
Regresses(s, snapshot) ==
  \E old \in latest(s) : old.epoch = snapshot.epoch /\ snapshot.through < old.through

put(s, snapshot) ==
  LET ring == Append(rings[s].ring, snapshot)
  IN  [ring   |-> IF Len(ring) > max_snapshots_per_session THEN Tail(ring) ELSE ring,
       landed |-> rings[s].landed \cup {snapshot}]

\* What commit_working_context finds before it puts: "put" when it will.
CommitCheck(j) ==
  LET job == jobs[j]
  IN  CASE job.live.terminal -> "DiscardedTerminal"
        [] job.live.epoch # job.epoch -> "DiscardedStale"
        [] \E old \in latest(job.session) : old.epoch = job.epoch /\ job.through < old.through ->
             "DiscardedStale"
        [] \E old \in latest(job.session) : /\ old.epoch = job.epoch /\ job.through = old.through
                                            /\ job.text = old.text -> "IdempotentNoOp"
        [] \E old \in latest(job.session) : old.epoch = job.epoch /\ job.through = old.through ->
             "DiscardedStale"
        [] OTHER -> "put"

-----------------------------------------------------------------------------
(* A refresh. *)

\* The curator answers with a candidate for the checkpoint, or with an error (a
\* cancellation among them).
Curate(j) ==
  /\ jobs[j].state = "curating"
  /\ \/ \E text \in Texts : jobs' = [jobs EXCEPT ![j].text = text, ![j].state = "candidate"]
     \/ jobs' = [jobs EXCEPT ![j].state = "done", ![j].outcome = "error"]
  /\ UNCHANGED << world, rings, chains, host >>

\* The validation reads the latest snapshot; the put comes after, under the
\* store's own lock again.
Validate(j) ==
  /\ jobs[j].state = "candidate"
  /\ jobs' = [jobs EXCEPT ![j].state = IF CommitCheck(j) = "put" THEN "put" ELSE "done",
                          ![j].outcome = IF CommitCheck(j) = "put" THEN "none" ELSE CommitCheck(j)]
  /\ UNCHANGED << world, rings, chains, host >>

Put(j) ==
  LET job == jobs[j]
      snapshot == Snapshot(job.epoch, job.through, job.text)
  IN  /\ job.state = "put"
      /\ \/ /\ Regresses(job.session, snapshot)
            /\ jobs' = [jobs EXCEPT ![j].state = "done", ![j].outcome = "DiscardedStale"]
            /\ UNCHANGED rings
         \/ /\ ~Regresses(job.session, snapshot)
            /\ jobs' = [jobs EXCEPT ![j].state = "done", ![j].outcome = "Committed"]
            /\ rings' = [rings EXCEPT ![job.session] = put(job.session, snapshot)]
      /\ UNCHANGED << world, chains, host >>

-----------------------------------------------------------------------------
(* The coordinator. *)

settle(chain, through, epoch) ==
  IF chain.has_settled /\ through <= chain.settled THEN chain
  ELSE [chain EXCEPT !.settled = through, !.settled_epoch = epoch, !.has_settled = TRUE]

\* Mutant: a discarded refresh counts as covering its checkpoint.
record_outcome_Optimistic(chain, job) ==
  CASE job.outcome = "error" -> [chain EXCEPT !.failures = @ + 1]
    [] OTHER -> settle([chain EXCEPT !.failures = 0], job.through, job.epoch)

record_outcome(chain, job) ==
  CASE job.outcome = "error" -> [chain EXCEPT !.failures = @ + 1]
    [] job.outcome \in {"Committed", "IdempotentNoOp"} ->
         settle([chain EXCEPT !.failures = 0], job.through, job.epoch)
    [] OTHER -> chain

drain_chain(chain) ==
  IF chain.in_flight = 0 THEN chain
  ELSE IF jobs[chain.in_flight].state # "done" THEN chain
  ELSE [record_outcome(chain, jobs[chain.in_flight]) EXCEPT !.in_flight = 0]

reset_settled_on_chain_change(chain, epoch) ==
  IF chain.has_settled /\ chain.settled_epoch # epoch
    THEN [chain EXCEPT !.settled = 0, !.has_settled = FALSE] ELSE chain

\* Watermark distance first, then the count of events; a watermark behind the
\* last attempt is no distance.
evaluate_working_context_trigger(last_attempt, events, through) ==
  CASE through >= last_attempt /\ through - last_attempt >= watermark_interval -> "Watermark"
    [] events >= event_count_interval -> "EventCount"
    [] OTHER -> "None"

TrackingFull(s) ==
  /\ ~chains[s].tracked
  /\ Cardinality({t \in Sessions : chains[t].tracked}) >= max_tracked_sessions

Free == {j \in Refreshes : jobs[j].state = "free"}
Free1 == CHOOSE j \in Free : \A k \in Free : j <= k

\* issue: the refresh is scheduled (the supervisor may refuse it, which resolves
\* it at once) and the thresholds are re-armed.
issue(call, chain) ==
  /\ Free # {}
  /\ \E refused \in BOOLEAN :
       jobs' = [jobs EXCEPT ![Free1] =
                  [NoJob EXCEPT !.session = call.session, !.epoch = call.epoch,
                     !.through = call.through, !.live = call.live,
                     !.state = IF refused THEN "done" ELSE "curating",
                     !.outcome = IF refused THEN "error" ELSE "none"]]
  /\ chains' = [chains EXCEPT ![call.session] =
                  [chain EXCEPT !.last_attempt = call.through, !.events = 0, !.in_flight = Free1]]

Call(s) == [session |-> s, epoch |-> world.epoch, through |-> world.through,
            live |-> [epoch |-> world.epoch, terminal |-> world.terminal]]
CanCall == host.calls < MaxCalls /\ host.waits = NoCall
Answered(answer, call) ==
  host' = [calls |-> host.calls + 1, waits |-> NoCall, answer |-> answer, asked |-> call]

\* on_signal: events accrue, the settled mark of another identity is dropped, a
\* finished refresh is recorded; then the signal is absorbed by the refresh in
\* flight, finds nothing to do, or starts one.
on_signal(s, reported) ==
  LET call  == Call(s)
      chain == drain_chain(reset_settled_on_chain_change(
                 [chains[s] EXCEPT !.tracked = TRUE, !.events = @ + reported], call.epoch))
      kind  == evaluate_working_context_trigger(chain.last_attempt, chain.events, call.through)
      keep  == chains' = [chains EXCEPT ![s] = chain] /\ UNCHANGED jobs
  IN  /\ CanCall
      /\ \/ TrackingFull(s) /\ UNCHANGED << chains, jobs >> /\ Answered("exhausted", call)
         \/ ~TrackingFull(s) /\ chain.in_flight # 0 /\ keep /\ Answered("absorbed", call)
         \/ /\ ~TrackingFull(s) /\ chain.in_flight = 0
            /\ kind = "None" \/ call.through <= chain.settled
            /\ keep /\ Answered("nothing", call)
         \/ /\ ~TrackingFull(s) /\ chain.in_flight = 0
            /\ kind # "None" /\ call.through > chain.settled
            /\ issue(call, chain) /\ Answered("refresh", call)
      /\ UNCHANGED << world, rings >>

\* flush, up to its wait for the refresh in flight.
FlushBegin(s) ==
  /\ CanCall /\ Free # {} /\ ~TrackingFull(s)
  /\ chains' = [chains EXCEPT ![s] =
       reset_settled_on_chain_change([@ EXCEPT !.tracked = TRUE], world.epoch)]
  /\ host' = [host EXCEPT !.waits = Call(s)]
  /\ UNCHANGED << world, rings, jobs >>

\* The wait is over, by the refresh or by its deadline: what has finished is
\* recorded, and the boundary is covered already or a refresh is forced, beside
\* one that is still running if need be.
FlushEnd ==
  LET call  == host.waits
      chain == drain_chain(chains[call.session])
  IN  /\ call # NoCall
      /\ \/ /\ call.through > chain.settled
            /\ issue(call, chain) /\ Answered("forced", call)
         \/ /\ call.through <= chain.settled
            /\ chains' = [chains EXCEPT ![call.session] = chain]
            /\ Answered("current", call) /\ UNCHANGED jobs
      /\ UNCHANGED << world, rings >>

\* drain: the host records what has finished.
drain(s) ==
  /\ CanCall /\ chains[s].in_flight # 0
  /\ jobs[chains[s].in_flight].state = "done"
  /\ chains' = [chains EXCEPT ![s] = drain_chain(@)]
  /\ UNCHANGED << world, rings, jobs, host >>

\* schedule_working_context_commit: a projection of the checkpoint, text 0, goes
\* through the same commit without the coordinator.
CommitProjection(s) ==
  /\ CanCall /\ Free # {}
  /\ jobs' = [jobs EXCEPT ![Free1] =
                [NoJob EXCEPT !.session = s, !.epoch = world.epoch, !.through = world.through,
                              !.live = Call(s).live, !.state = "candidate"]]
  /\ Answered("committing", Call(s)) /\ UNCHANGED << world, rings, chains >>

erase_session(s) ==
  /\ CanCall /\ rings[s].ring # << >>
  /\ rings' = [rings EXCEPT ![s].ring = << >>]
  /\ Answered("erased", Call(s)) /\ UNCHANGED << world, chains, jobs >>

\* The session and its task go on by themselves.
Converse ==
  /\ world.through < MaxWatermark
  /\ world' = [world EXCEPT !.through = @ + 1]
  /\ UNCHANGED << rings, chains, jobs, host >>
Advance ==
  /\ ~world.terminal
  /\ \/ world.epoch < MaxEpoch /\ world' = [world EXCEPT !.epoch = @ + 1]
     \/ world' = [world EXCEPT !.terminal = TRUE]
  /\ UNCHANGED << rings, chains, jobs, host >>

Refreshing(j) == Curate(j) \/ Validate(j) \/ Put(j)
RefreshNext ==
  \/ \E j \in Refreshes : Refreshing(j)
  \/ \E s \in Sessions : \/ \E reported \in 0 .. 1 : on_signal(s, reported)
                         \/ FlushBegin(s) \/ drain(s) \/ CommitProjection(s) \/ erase_session(s)
  \/ FlushEnd \/ Converse \/ Advance

-----------------------------------------------------------------------------
(* Properties *)

\* Neighbours in the ring that belong to one identity are in the order of their
\* watermarks, whatever refreshes raced; the ring is bounded; what a refresh says
\* it committed is what was put, a no-op was already there, and nothing was put
\* for an identity the control plane had left when the refresh was scheduled; and
\* the coordinator calls a checkpoint settled only when a snapshot of that
\* identity and watermark was put (put, commit_working_context, record_outcome).
RefreshHonest ==
  /\ \A s \in Sessions :
       LET ring == rings[s].ring
       IN  /\ Len(ring) <= max_snapshots_per_session
           /\ \A k \in 1 .. (Len(ring) - 1) :
                ring[k].epoch = ring[k + 1].epoch => ring[k].through <= ring[k + 1].through
           /\ chains[s].has_settled =>
                \E p \in rings[s].landed : /\ p.epoch = chains[s].settled_epoch
                                           /\ p.through = chains[s].settled
  /\ \A j \in Refreshes :
       LET job == jobs[j]
       IN  job.outcome \in {"Committed", "IdempotentNoOp"} =>
             /\ Snapshot(job.epoch, job.through, job.text) \in rings[job.session].landed
             /\ ~job.live.terminal /\ job.live.epoch = job.epoch

\* "Reset to zero when the input identity opens a new chain (epoch bump), so a new
\* chain is never misread as already covered by the old chain's watermark": a
\* flush that is told the boundary is covered asked about an identity for which a
\* snapshot that far was put.
FlushCoversItsChain ==
  host.answer = "current" =>
    \E p \in rings[host.asked.session].landed :
      p.epoch = host.asked.epoch /\ p.through >= host.asked.through
=============================================================================

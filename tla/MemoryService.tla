--------------------------- MODULE MemoryService ---------------------------
(***************************************************************************)
(* The memory store in use: callers, the bounded channel to the store's    *)
(* one worker (StoreChannel, LoopWorker), and the artifact store behind    *)
(* it. A caller runs jobs: it consolidates a candidate (a query, then a    *)
(* mutation planned from the answer), applies a mutation it holds (an      *)
(* approved one, a human's correction), repairs the vectors of a scope (a  *)
(* query, then record by record), or erases, compacts, sweeps. Between two *)
(* calls of a job the worker serves others.                                *)
(*                                                                         *)
(* A caller that times out leaves its work in the queue, and keeps the     *)
(* request alive until the worker is done with it. The process may restart *)
(* at any time: the committed tables and the artifact files stay.          *)
(***************************************************************************)
EXTENDS MemoryStore, MemoryConsolidation

CONSTANTS
  Callers,
  Loads,            \* [records, artifacts, jobs, clock]: where a behaviour starts, what the
                    \* callers do, and the bounds on what happens around them
  MaxPending,
  Queries,          \* the questions the properties ask of the store
  ClockStep         \* how far the time goes at once

VARIABLES db, channel, callers, clock, fate
\* clock: the time, and how many ticks, timeouts, restarts, failed erasures of an
\* artifact and maintenance stops may still happen. fate: of each mutation, how often it took effect and what its caller was told.
serviceVars == <<db, channel, callers, clock, fate, files, live>>

Nothing == [op |-> "none"]
Call(op, arg) == [op |-> op, arg |-> arg]
Resting(jobs) == [todo |-> jobs, request |-> Nothing, waiting |-> FALSE, found |-> << >>]
OpenChannel == [queue |-> << >>, accepting |-> TRUE, closing |-> FALSE, done |-> FALSE, paused |-> FALSE]
NoFate == [m \in MutationIds |-> [effects |-> 0, told |-> "nothing"]]

\* The tables that hold some records, with an empty ledger, and the directory that
\* holds some artifacts.
TablesOf(records) ==
  LET add(r) == [id |-> CHOOSE m \in MutationIds : TRUE, type |-> "Add", scope |-> r.scope, target |-> 0,
                 expected |-> 0, proposed |-> r, evidence |-> <<1>>, reason |-> "HumanCorrection"]
      after[k \in 0 .. Len(records)] ==
        IF k = 0 THEN EmptyTables
        ELSE [apply(after[k - 1], add(records[k]), 1).db EXCEPT !.ledger = EmptyTables.ledger]
  IN  after[Len(records)]
FilesOf(artifacts) ==
  [EmptyFiles EXCEPT !.object = [c \in Contents |-> IF c \in artifacts THEN "full" ELSE "none"],
                     !.manifest = SetToSeq(artifacts)]

StartWith(load) ==
  /\ db = TablesOf(load.records) /\ channel = OpenChannel /\ fate = NoFate
  /\ callers = [c \in Callers |-> Resting(load.jobs[c])]
  /\ clock = load.clock
ServiceInit ==
  \E load \in Loads :
    StartWith(load) /\ files = FilesOf(load.artifacts) /\ live = NotLoaded

-----------------------------------------------------------------------------
(* The jobs. *)

FirstCall(job, now) ==
  CASE job.kind = "consolidate" ->
         IF Screen(job.candidate, job.scope, now) # "" THEN Nothing
         ELSE Call("query", conflict_query(Normalised(job.candidate, job.scope, now)))
    [] job.kind = "repair" -> Call("query", repair_query(job.arg, 512))
    [] OTHER -> Call(job.kind, job.arg)

\* The caller after an answer: the next call of the job, or the end of it.
Finished(caller) == [caller EXCEPT !.request = Nothing, !.waiting = FALSE, !.todo = Tail(@), !.found = << >>]
Calling(caller, request) == [caller EXCEPT !.request = request, !.waiting = FALSE]
NextRecord(caller) ==
  IF caller.found = << >> THEN Finished(caller)
  ELSE Calling(caller, Call("has", [id |-> caller.found[1].id]))
Continue(caller, job, answer, now) ==
  LET op == caller.request.op
      plan == Plan(job.candidate, job.scope, now, answer.records, job.mutation, job.fresh)
  IN  CASE job.kind = "consolidate" /\ op = "query" ->
             IF ~answer.ok THEN Finished(caller)
             ELSE IF plan.disposition = "apply" THEN Calling(caller, Call("apply", plan.mutation))
             ELSE Finished(caller)
        [] job.kind = "repair" /\ op = "query" ->
             IF ~answer.ok THEN Finished(caller)
             ELSE NextRecord([caller EXCEPT !.found = Repairable(answer.records)])
        [] job.kind = "repair" /\ op = "has" ->
             IF answer.ok THEN NextRecord([caller EXCEPT !.found = Tail(@)])
             ELSE Calling(caller, Call("index", [id |-> caller.found[1].id,
                                                 text |-> caller.found[1].statement]))
        [] job.kind = "repair" /\ op = "index" -> NextRecord([caller EXCEPT !.found = Tail(@)])
        [] OTHER -> Finished(caller)

-----------------------------------------------------------------------------
(* The worker. *)

Art == [files |-> files, live |-> live]
\* What a request does: the tables, the artifacts and the answer.
Execute(request, fails) ==
  LET op == request.op
      arg == request.arg
      keep(tables, answer) == [db |-> tables, art |-> Art, answer |-> answer]
      indexed(r) == keep(r.db, [ok |-> r.ok])
      applied(r) == keep(r.db, [ok |-> r.ok, code |-> r.code, replay |-> r.replay])
      erased(r) == [db |-> r.db, art |-> r.art, answer |-> [ok |-> r.status = "Complete"]]
      purged(r) == [db |-> r.db, art |-> r.art, answer |-> [ok |-> r.failed = 0]]
  IN  CASE op = "query"   -> keep(db, query(db, arg, clock.now))
        [] op = "has"     -> keep(db, [ok |-> has_embedding(db, arg.id)])
        [] op = "index"   -> indexed(index_embedding(db, arg.id, arg.text))
        [] op = "clear"   -> keep(clear_embeddings(db), [ok |-> TRUE])
        [] op = "apply"   -> applied(apply(db, arg, clock.now))
        [] op = "erase"   -> erased(erase(db, Art, arg, fails))
        [] op = "compact" -> purged(compact(db, Art, arg, clock.now, fails))
        [] op = "sweep"   -> purged(sweep(db, Art, arg, clock.now, fails))
Faults(request) ==
  IF request.op \in {"erase", "compact", "sweep"} /\ clock.faults > 0
    THEN {{}} \cup {{c} : c \in Contents} ELSE {{}}

\* A mutation took effect, and what its caller hears.
Fate(item, answer) ==
  LET m == item.request.arg.id
      heard == IF ~item.wanted THEN fate[m].told
              ELSE IF answer.ok THEN "applied"
              ELSE IF answer.code = "VersionConflict" THEN "refused" ELSE fate[m].told
  IN  IF item.request.op # "apply" THEN fate
      ELSE [fate EXCEPT ![m] = [effects |-> @.effects + IF answer.ok /\ ~answer.replay THEN 1 ELSE 0,
                                told |-> heard]]

Work ==
  /\ channel.queue # << >> /\ ~channel.done
  /\ channel.paused => channel.closing
  /\ LET item == Head(channel.queue)
         who == item.who
     IN  \E fails \in Faults(item.request) : \E done \in {Execute(item.request, fails)} :
           /\ db' = done.db /\ files' = done.art.files /\ live' = done.art.live
           /\ channel' = [channel EXCEPT !.queue = Tail(@)]
           /\ fate' = Fate(item, done.answer)
           /\ callers' = IF ~item.wanted THEN callers
                         ELSE [callers EXCEPT ![who] =
                                 Continue(@, Head(@.todo), done.answer, clock.now)]
           /\ clock' = [clock EXCEPT !.faults = @ - IF fails = {} THEN 0 ELSE 1]

\* The worker leaves once it was told to and the queue is empty.
WorkerExit ==
  /\ channel.closing /\ channel.queue = << >> /\ ~channel.done
  /\ channel' = [channel EXCEPT !.done = TRUE]
  /\ UNCHANGED <<db, callers, clock, fate, files, live>>

-----------------------------------------------------------------------------
(* The callers, and what happens around them. *)

\* A job that makes no call ends at once; a call is refused when the channel does
\* not accept work or is full.
Submit(c) ==
  LET caller == callers[c]
      request == IF caller.request = Nothing THEN FirstCall(Head(caller.todo), clock.now)
                 ELSE caller.request
      refused == ~channel.accepting \/ channel.done \/ Len(channel.queue) >= MaxPending
  IN  /\ caller.todo # << >> /\ ~caller.waiting
      /\ IF request = Nothing \/ refused
           THEN callers' = [callers EXCEPT ![c] = Finished(@)] /\ UNCHANGED channel
           ELSE /\ callers' = [callers EXCEPT ![c].request = request, ![c].waiting = TRUE]
                /\ channel' = [channel EXCEPT !.queue =
                                 Append(@, [who |-> c, request |-> request, wanted |-> TRUE])]
      /\ UNCHANGED <<db, clock, fate, files, live>>

\* Waiting ends without an answer; the holder of a mutation or an erasure may try
\* it again, the other jobs end.
Timeout(c) ==
  /\ callers[c].waiting /\ clock.timeouts > 0
  /\ clock' = [clock EXCEPT !.timeouts = @ - 1]
  /\ channel' = [channel EXCEPT !.queue =
                   [k \in DOMAIN @ |-> IF @[k].who = c THEN [@[k] EXCEPT !.wanted = FALSE] ELSE @[k]]]
  /\ callers' = [callers EXCEPT ![c] =
                   IF Head(@.todo).kind \in {"apply", "erase"} THEN Calling(@, @.request)
                   ELSE Finished(@)]
  /\ UNCHANGED <<db, fate, files, live>>

\* The process goes down and comes back: what was not committed is gone, but the
\* artifacts that the operation in progress had erased stay erased.
Restart ==
  /\ clock.restarts > 0 /\ clock' = [clock EXCEPT !.restarts = @ - 1]
  /\ live' = NotLoaded /\ channel' = OpenChannel
  /\ callers' = [c \in Callers |->
       IF callers[c].todo # << >> /\ callers[c].request # Nothing
            /\ Head(callers[c].todo).kind \notin {"apply", "erase"}
         THEN Finished(callers[c])
         ELSE [callers[c] EXCEPT !.request = Nothing, !.waiting = FALSE]]
  /\ \/ files' = files
     \/ /\ channel.queue # << >>
        /\ files' \in {Execute(Head(channel.queue).request, fails).art.files :
                         fails \in Faults(Head(channel.queue).request)}
  /\ UNCHANGED <<db, fate>>

Tick ==
  /\ clock.ticks > 0
  /\ clock' = [clock EXCEPT !.now = @ + ClockStep, !.ticks = @ - 1]
  /\ UNCHANGED <<db, channel, callers, fate, files, live>>

\* Maintenance holds the queue for a while; close stops admission and lets the
\* worker drain.
set_paused(paused) ==
  /\ channel.paused # paused /\ ~channel.closing
  /\ paused => clock.stops > 0
  /\ clock' = IF paused THEN [clock EXCEPT !.stops = @ - 1] ELSE clock
  /\ channel' = [channel EXCEPT !.paused = paused]
  /\ UNCHANGED <<db, callers, fate, files, live>>
Close ==
  /\ clock.stops > 0 /\ ~channel.closing
  /\ clock' = [clock EXCEPT !.stops = 0]
  /\ channel' = [channel EXCEPT !.accepting = FALSE, !.closing = TRUE]
  /\ UNCHANGED <<db, callers, fate, files, live>>

\* The caller, the worker and the end of a maintenance pause go on.
Serving == Work \/ WorkerExit \/ set_paused(FALSE) \/ \E c \in Callers : Submit(c)
\* When that is possible.
CanServe ==
  \/ channel.queue # << >> /\ ~channel.done /\ (channel.paused => channel.closing)
  \/ channel.closing /\ channel.queue = << >> /\ ~channel.done
  \/ channel.paused /\ ~channel.closing
  \/ \E c \in Callers : callers[c].todo # << >> /\ ~callers[c].waiting
ServiceNext ==
  \/ Serving \/ Restart \/ Tick \/ set_paused(TRUE) \/ Close \/ \E c \in Callers : Timeout(c)

-----------------------------------------------------------------------------
(* Properties. *)



\* A mutation takes effect at most once, however often it is sent, through
\* timeouts, retries and restarts; a caller told that it was applied, or that
\* another change came first, was told the truth. And nobody waits for ever, while
\* maintenance pauses the worker and while the store closes (closing drains what
\* was accepted): until every job has ended, the worker, a caller or the end of a
\* pause can go on, and whatever goes on brings some job or the closing nearer to
\* its end.
MutationsOnce ==
  /\ CanServe \/ \A c \in Callers : callers[c].todo = << >>
  /\ \A m \in MutationIds :
       /\ fate[m].effects <= 1
       /\ fate[m].told = "applied" => fate[m].effects = 1
       /\ fate[m].told = "refused" => fate[m].effects = 0


=============================================================================

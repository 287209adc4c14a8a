------------------------------ MODULE Transport ------------------------------
(* SocketHttpTransport: callers queue exchanges and wait, blocking workers   *)
(* run them stage by stage, and shutdown settles what is left. Time is a     *)
(* countdown for every exchange and for every caller's own guard. Which      *)
(* failure a stage ends with is ModelGateway's concern and not kept here.    *)
EXTENDS Exchange, Naturals, Sequences, FiniteSets

CONSTANTS
    Callers,       \* each executes one request
    Workers,
    MaxQueued,     \* SocketTransportConfig::max_queued_exchanges
    Total,         \* TransportLimits::deadlines.total, in ticks
    Slack,         \* what execute waits beyond it
    MaxRedirects   \* TransportLimits::max_redirects

VARIABLES
    flags,     \* started_ and stopping_
    closing,   \* where the shutdown that stops the workers is
    queue,     \* the callers whose jobs wait
    worker,    \* per thread: the job it runs, Idle or Exited (also before start)
    job,       \* per caller: its exchange
    caller     \* per caller: where execute is

vars == <<flags, closing, queue, worker, job, caller>>

Idle == "idle"
Exited == "exited"

\* The threads of the first start, and those of a start after shutdown began.
Threads == Workers \X {"first", "late"}

\* An exchange by its stage, "lost" with its worker; outlives: its deadline is no
\* earlier than the guard of its caller.
NoJob == [stage |-> "none", left |-> 0, hops |-> 0, outlives |-> FALSE]
NoCaller == [pc |-> "idle", guard |-> 0, cancelled |-> FALSE]

Init ==
    /\ flags = [started |-> FALSE, stopping |-> FALSE]
    /\ closing = "idle"
    /\ queue = <<>>
    /\ worker = [t \in Threads |-> Exited]
    /\ job = [c \in Callers |-> NoJob]
    /\ caller = [c \in Callers |-> NoCaller]

\* Once shutdown began stopping_ stays set: the new threads, which nobody joins,
\* settle what waits and exit, and execute goes on refusing.
start ==
    /\ ~flags.started
    /\ flags' = [flags EXCEPT !.started = TRUE]
    /\ worker' = [t \in Threads |->
                    IF t[2] = (IF flags.stopping THEN "late" ELSE "first")
                    THEN Idle ELSE worker[t]]
    /\ UNCHANGED <<closing, queue, job, caller>>

---------------------------------------------------------------------------
(* execute. The caller looks at the flags and the queue under the lock, and  *)
(* pushes under the lock again without another look.                         *)

Leave(c, pc) == caller' = [caller EXCEPT ![c] = [NoCaller EXCEPT !.pc = pc]]

ExecuteCheck(c) ==
    /\ caller[c].pc = "idle"
    /\ IF \/ ~flags.started \/ flags.stopping
          \/ Len(queue) >= MaxQueued \/ caller[c].cancelled
       THEN Leave(c, "returned")
       ELSE caller' = [caller EXCEPT ![c].pc = "push"]
    /\ UNCHANGED <<flags, closing, queue, worker, job>>

ExecutePush(c) ==
    /\ caller[c].pc = "push"
    /\ queue' = Append(queue, c)
    /\ job' = [job EXCEPT ![c].stage = "queued"]
    /\ caller' = [caller EXCEPT ![c].pc = "wait", ![c].guard = Total + Slack]
    /\ UNCHANGED <<flags, closing, worker>>

\* The worker's answer arrived, or the worker was lost and its promise with it:
\* then get throws.
ExecuteReturn(c) ==
    /\ caller[c].pc = "wait"
    /\ \/ job[c].stage = "done" /\ Leave(c, "returned")
       \/ job[c].stage = "lost" /\ Leave(c, "thrown")
    /\ UNCHANGED <<flags, closing, queue, worker, job>>

\* The guard ran out; the job is left where it is.
ExecuteGuard(c) ==
    /\ caller[c].pc = "wait" /\ caller[c].guard = 0
    /\ job[c].stage \notin {"done", "lost"}
    /\ Leave(c, "guarded")
    /\ UNCHANGED <<flags, closing, queue, worker, job>>

Done(c) == caller[c].pc \in {"returned", "thrown", "guarded"}

\* Cancelled before it asks: a later cancellation is one of the ends of a stage.
Cancel(c) ==
    /\ caller[c].pc = "idle" /\ ~caller[c].cancelled
    /\ caller' = [caller EXCEPT ![c].cancelled = TRUE]
    /\ UNCHANGED <<flags, closing, queue, worker, job>>

---------------------------------------------------------------------------
(* Worker::run and the stages of an exchange. *)

Running(t) == worker[t] \in Callers

\* perform_exchange begins: with the whole of its total deadline.
Begin(c) ==
    [job[c] EXCEPT !.stage = "request", !.left = Total, !.outlives = caller[c].guard <= Total]

Take(t) ==
    /\ worker[t] = Idle /\ ~flags.stopping /\ queue # <<>>
    /\ worker' = [worker EXCEPT ![t] = Head(queue)]
    /\ queue' = Tail(queue)
    /\ job' = [job EXCEPT ![Head(queue)] = Begin(Head(queue))]
    /\ UNCHANGED <<flags, closing, caller>>

Ended(stage) == [NoJob EXCEPT !.stage = stage]

\* The exchange ends, with a response or a failure.
Finish(t) ==
    /\ worker' = [worker EXCEPT ![t] = Idle]
    /\ job' = [job EXCEPT ![worker[t]] = Ended("done")]

\* An exception leaves the exchange, and ends its worker.
Lose(t) ==
    /\ Running(t)
    /\ worker' = [worker EXCEPT ![t] = Exited]
    /\ job' = [job EXCEPT ![worker[t]] = Ended("lost")]
    /\ UNCHANGED <<flags, closing, queue, caller>>

\* The stages that may be passed over: no proxy, no TLS.
Following(stage) ==
    {NextStage[stage]} \cup (IF stage = "connect" THEN {"tls", "write"} ELSE {})
                       \cup (IF stage = "tunnel" THEN {"write"} ELSE {})

\* A stage is passed, or the exchange ends: with its response, by a failure of
\* the stage, by cancellation or by a deadline. The wait for the headers looks at
\* the total deadline first.
Proceed(t) ==
    /\ Running(t)
    /\ LET j == job[worker[t]]
       IN  \/ /\ j.stage # "body"
              /\ j.stage = "header" => j.left > 0
              /\ \E s \in Following(j.stage) : job' = [job EXCEPT ![worker[t]].stage = s]
              /\ UNCHANGED worker
           \/ Finish(t)
    /\ UNCHANGED <<flags, closing, queue, caller>>

\* A redirect runs the whole exchange again, with a new total deadline.
Redirect(t) ==
    /\ Running(t)
    /\ job[worker[t]].stage = "header" /\ job[worker[t]].left > 0
    /\ IF job[worker[t]].hops < MaxRedirects
       THEN /\ job' = [job EXCEPT ![worker[t]] = [Begin(worker[t]) EXCEPT !.hops = @ + 1]]
            /\ UNCHANGED worker
       ELSE Finish(t)
    /\ UNCHANGED <<flags, closing, queue, caller>>

\* A stopped worker settles everything that still waits.
Exit(t) ==
    /\ worker[t] = Idle /\ flags.stopping
    /\ worker' = [worker EXCEPT ![t] = Exited]
    /\ queue' = <<>>
    /\ job' = [c \in Callers |->
                 IF \E i \in 1..Len(queue) : queue[i] = c
                 THEN Ended("done") ELSE job[c]]
    /\ UNCHANGED <<flags, closing, caller>>

---------------------------------------------------------------------------
\* The first shutdown stops the workers, if they were started, and joins them. A
\* later one, the destructor's for instance, finds stopping_ set and returns at once,
\* the first perhaps still joining: it changes nothing.
shutdown ==
    /\ ~flags.stopping
    /\ flags' = [started |-> FALSE, stopping |-> TRUE]
    /\ closing' = IF flags.started THEN "joining" ELSE "returned"
    /\ UNCHANGED <<queue, worker, job, caller>>

\* shutdown returns once every handle it took was joined.
Joined ==
    /\ closing = "joining"
    /\ \A t \in Threads : t[2] = "first" => worker[t] = Exited
    /\ closing' = "returned"
    /\ UNCHANGED <<flags, queue, worker, job, caller>>

\* Time passes, but not past the deadline of an exchange that polls its socket:
\* the poll slice is short. Name resolution cannot be interrupted.
Tick ==
    /\ \A t \in Threads : Running(t) /\ Waiting(job[worker[t]].stage) => job[worker[t]].left > 0
    /\ \A c \in Callers : caller[c].pc = "wait" => caller[c].guard > 0
    /\ \E c \in Callers : caller[c].pc = "wait"
    /\ job' = [c \in Callers |-> [job[c] EXCEPT !.left = IF @ > 0 THEN @ - 1 ELSE 0]]
    /\ caller' = [c \in Callers |-> [caller[c] EXCEPT !.guard = IF @ > 0 THEN @ - 1 ELSE 0]]
    /\ UNCHANGED <<flags, closing, queue, worker>>

WorkerStep(t) == Take(t) \/ Proceed(t) \/ Redirect(t) \/ Exit(t)
CallerStep(c) == ExecuteCheck(c) \/ ExecutePush(c) \/ ExecuteReturn(c) \/ ExecuteGuard(c)

Next ==
    \/ start \/ shutdown \/ Joined \/ Tick
    \/ \E t \in Threads : WorkerStep(t) \/ Lose(t)
    \/ \E c \in Callers : CallerStep(c) \/ Cancel(c)

Spec == Init /\ [][Next]_vars

---------------------------------------------------------------------------
TypeOK ==
    /\ flags \in [started : BOOLEAN, stopping : BOOLEAN]
    /\ closing \in {"idle", "joining", "returned"}
    /\ queue \in Seq(Callers) /\ Len(queue) < MaxQueued + Cardinality(Callers)
    /\ worker \in [Threads -> Callers \cup {Idle, Exited}]
    /\ \A c \in Callers :
         /\ job[c] \in [stage : Stages \cup {"none", "queued", "done", "lost"}, left : 0..Total,
                        hops : 0..MaxRedirects, outlives : BOOLEAN]
         /\ caller[c] \in [pc : {"idle", "push", "wait", "returned", "thrown", "guarded"},
                           guard : 0..(Total + Slack), cancelled : BOOLEAN]

\* The body of a response is delivered to a caller that its guard sent away only by
\* an exchange that was redirected or waited in the queue, so that its own deadline
\* lies past the guard: one taken at once ends before, however long its host's name
\* took to resolve (execute's guard, finish_exchange's deliver).
DeliversInTime ==
    \A c \in Callers : job[c].stage = "body" /\ caller[c].pc = "guarded" => job[c].outlives

\* Once the shutdown that stops the workers returned no exchange is in any stage,
\* and none enters one later: not for a caller that queued behind the last worker's
\* back, and not after another start. A later shutdown promises nothing of this
\* (shutdown, Worker::run).
ShutIsSilent ==
    closing = "returned" => \A c \in Callers : job[c].stage \notin Stages

\* Every caller has returned and no shutdown is under way.
Quiet == closing # "joining" /\ \A c \in Callers : Done(c)
=============================================================================

------------------------------- MODULE MCAgent -------------------------------
(* What an agent's step is made of: the loop and its journaled dispatch, the *)
(* model gateway, the HTTP transport under it, the Android host adapter and  *)
(* the observation pipeline. They know one another by how a call may end     *)
(* (the loop's Observe, Infer and Execute, the failures of Exchange), so a   *)
(* behaviour moves one of them.                                              *)
EXTENDS ModelGateway

CONSTANTS a, b, w, Lag
VARIABLES part,
          flags, closing, queue, worker, job, caller,     \* Transport
          log, loop, ctx, world, inbox, config, budget,   \* AgentLoop
          bridge, host, op, task, seat,                   \* HostBridge
          view, slot, parked, display                     \* ObservationPipeline

\* Requests with room for two calls of one token or for one call, of either
\* scope, one estimated above its limit, priced or not, of the first epoch or the
\* second, for both profiles, one or none.
MCRequests ==
    {Request("Task", Amount(2, 2, 0), 1, 0, {"p", "q"}, TRUE),
     Request("Task", Amount(1, 0, 2), 1, 1, {"q"}, FALSE),
     Request("Request", Amount(1, 1, 2), 2, 0, {"p"}, TRUE),
     Request("Request", Amount(1, 2, 2), 1, 1, {}, TRUE)}
MCProfiles == <<"p", "q">>

\* Two callers, one worker and room for one queued exchange.
Wire == INSTANCE Transport WITH
    Callers <- {a, b}, Workers <- {w}, MaxQueued <- 1, Total <- 1, Slack <- 1, MaxRedirects <- 1

\* Two steps whose appends may fail, one action with a failing append and a crash,
\* two steps with a crash that are neither cancelled nor expire, and two steps with
\* tools and user messages.
Config(steps, tools, pending, faults, crashes, signals) ==
    [steps |-> steps, recoveries |-> 1, tools |-> tools, pending |-> pending,
     faults |-> faults, crashes |-> crashes, signals |-> signals]
Short == Config(2, 0, 0, 0, 1, {})
MCConfigs ==
    {Config(2, 0, 0, 1, 0, {"cancel", "expire"}), Config(1, 0, 0, 1, 1, {"cancel", "expire"}),
     Short, Config(2, 2, 1, 0, 0, {"cancel"})}

Agent == INSTANCE AgentLoop WITH
    Task <- "t1", Configs <- MCConfigs, MaxFacts <- 1, MaxListed <- 1, MaxRecent <- 2

\* One observation of screen and structure, or two inputs; one rotation, and an
\* announcement from before the probe still under way.
Asks(todo, need) == [todo |-> todo, need |-> need]
Android == INSTANCE HostBridge WITH
    LastEpoch <- 3, LastOp <- 2,
    Requests <- {Asks(<<"frame", "tree">>, {"tree"}), Asks(<<"input">>, {"input"})}

\* Two observations; no source captures the device.
Want(screen, structure, device) ==
    [c \in {"screen", "structure", "device"} |->
       IF c = "screen" THEN screen ELSE IF c = "structure" THEN structure ELSE device]
Pipeline == INSTANCE ObservationPipeline WITH
    call <- view, Order <- <<"screen", "structure", "device">>, Rounds <- 1..2,
    LastEpoch <- 2, Sources <- {"screen", "structure"}, FailOnMissing <- TRUE,
    Wants <- {Want("required", "optional", "none"), Want("none", "required", "optional")}

wireVars == <<flags, closing, queue, worker, job, caller>>
loopVars == <<log, loop, ctx, world, inbox, config, budget>>
hostVars == <<bridge, host, op, task, seat>>
viewVars == <<view, slot, parked, display>>
allVars == <<part, vars, wireVars, loopVars, hostVars, viewVars>>

AgentInit ==
    /\ part \in {"gateway", "transport", "loop", "host", "pipeline"}
    /\ Init /\ Wire!Init /\ Agent!Init /\ Android!Init /\ Pipeline!Init
    /\ part # "gateway" => gate.set
    /\ part # "loop" => config = Short

Gateway(A) ==
    part = "gateway" /\ A /\ UNCHANGED <<part, wireVars, loopVars, hostVars, viewVars>>
OnWire(A) == part = "transport" /\ A /\ UNCHANGED <<part, vars, loopVars, hostVars, viewVars>>
InLoop(A) == part = "loop" /\ A /\ UNCHANGED <<part, vars, wireVars, hostVars, viewVars>>
OnHost(A) == part = "host" /\ A /\ UNCHANGED <<part, vars, wireVars, loopVars, viewVars>>
InView(A) == part = "pipeline" /\ A /\ UNCHANGED <<part, vars, wireVars, loopVars, hostVars>>

\* infer never waits without a bound: attempts end by their deadlines and the
\* backoff is a timer. Threads are scheduled, time passes, a resolver answers; the
\* calls the loop makes carry deadlines and return, and a host restarts what it
\* finds down; deadlines of an observation pass and executor tasks are run. A
\* behaviour has one part, so fairness to a disjunction over the parts is
\* fairness to the process of that part.
AgentSpec ==
    /\ AgentInit
    /\ [][Gateway(Next) \/ OnWire(Wire!Next) \/ InLoop(Agent!Next) \/ OnHost(Android!Next)
            \/ InView(Pipeline!Next)]_allVars
    /\ WF_allVars(\/ Gateway(CallStep) \/ OnWire(Wire!CallerStep(a)) \/ InLoop(Agent!Going)
                  \/ OnHost(Android!CallerStep) \/ InView(Pipeline!CallStep))
    /\ WF_allVars(\/ OnWire(Wire!CallerStep(b)) \/ InLoop(Agent!Resuming)
                  \/ OnHost(Android!TaskStep(1)) \/ InView(Pipeline!Expire))
    /\ WF_allVars(OnWire(Wire!WorkerStep(<<w, "first">>)) \/ OnHost(Android!TaskStep(2)))
    /\ WF_allVars(OnWire(Wire!Tick)) /\ WF_allVars(OnWire(Wire!Joined))

---------------------------------------------------------------------------
\* The parts that a behaviour does not move stay in an initial state, where the
\* behaviours that do move them start: an invariant is evaluated where its part
\* moves.
Of(p, inv) == part = p => inv

\* Calls keep their word: what runs is reserved, an answer that comes after its task
\* was withdrawn is not admitted, the transport delivers to a caller that gave up
\* only where its deadline lies past the guard, and nothing is sent after shutdown
\* returned (infer, execute, shutdown).
CallsTellTruth ==
    /\ Of("gateway", TypeOK /\ RunningIsReserved /\ LateAnswerNotAdmitted)
    /\ Of("transport", Wire!TypeOK /\ Wire!DeliversInTime /\ Wire!ShutIsSilent)

\* What a run leaves behind is true: the journal says what happened to every action,
\* a run that says Completed was verified, and every variable keeps its type
\* (dispatch, settle).
RunTellsTruth ==
    Of("loop", Agent!TypeOK /\ Agent!JournalTellsTruth /\ Agent!CompletedMeansVerified)

\* Should the process die now, the plan of the next one still shows an action whose
\* effect nobody has verified (CheckpointBuilder, RecoveryPlanner).
PlanNeverForgets == Of("loop", Agent!PlanNeverForgets)

\* Every input sent is justified: none while an earlier action's effect is unknown,
\* and after a cancellation or the deadline none but the one already past its last
\* look at the context (dispatch, run).
InputIsJustified == Agent!NoBlindInput /\ Agent!StopEndsInput

\* Observations and their buffers are sound: a host lease is released once and not
\* while its frame is read, nothing uses a bridge that is gone, no component is
\* older than what the adapter knew when asked; a published observation is of one
\* epoch, names what it lacks, and stragglers of one call never reach another
\* (HostLeaseGuard, handle_operation_complete, ObservationPipeline::observe).
ObservationsSound ==
    /\ Of("host", /\ Android!TypeOK /\ Android!LeasesOnce
                   /\ Android!NotOlderThanAsked /\ Android!GoneIsQuiet)
    /\ Of("pipeline", /\ Pipeline!TypeOK /\ Pipeline!PublishedIsHonest
                       /\ Pipeline!ParkedAreStragglers)

\* The adapter's observation is of one epoch: its topology, screen and structure
\* (AndroidHostAdapter::observe).
ObservationOfOneEpoch == Android!ObservationOfOneEpoch

\* Every call returns: of the gateway, of the transport with its shutdown, a run of
\* the loop, an observation or input of the host adapter, whose leases all come
\* back, and an observation of the pipeline, whatever the other side does not do
\* (infer, execute, Worker::run, AgentLoop::run, wait_for_outcome, settle).
EveryCallReturns ==
    <>[](CASE part = "gateway" -> At("idle")
           [] part = "transport" -> Wire!Quiet
           [] part = "loop" -> Agent!At("returned")
           [] part = "host" -> Android!Settled /\ Android!LeasesBack
           [] part = "pipeline" -> Pipeline!At("idle"))
=============================================================================

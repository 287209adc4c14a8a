----------------------------- MODULE HostBridge -----------------------------
(* An Android host behind its C ABI: HostDispatcherBridge, which turns the   *)
(* host's callbacks into futures (adapters/android/host_dispatcher.cpp), and *)
(* AndroidHostAdapter, whose observe and execute wait for them.              *)
(*                                                                           *)
(* A thread observes and executes inputs; the host rotates, tells so late    *)
(* or out of order, answers late, twice or not at all; the executor          *)
(* takes a completion, drops it (its future then holds the exception) or     *)
(* refuses it by throwing. The step of a thread is what it does under the    *)
(* bridge's mutex or between two uses of it. An epoch is the host sequence   *)
(* that announced it. Counters, payloads and the fields of a request are     *)
(* left out; a lease is "good", "bad" (released by a function, but with      *)
(* nothing to read) or "none".                                               *)
EXTENDS Naturals, Sequences, FiniteSets

CONSTANTS LastEpoch,      \* bound: how often the host rotates
          LastOp,         \* bound: the operations submitted
          Lag,            \* by how many epochs a capture may be older than its request
          Requests        \* the calls made: [todo, need]

VARIABLES bridge,         \* correlations, the registry, the newest capabilities
          host,           \* the host: its epoch, its news, what it still owes
          op,             \* each operation: its promise and its lease
          task,           \* each completion: the callback and the executor's task
          seat            \* the calling thread

vars == <<bridge, host, op, task, seat>>

Ops == 1..LastOp
Kinds == {"frame", "tree", "input"}
Result(status, lease, epoch) == [status |-> status, lease |-> lease, epoch |-> epoch]

NoOp == [kind |-> "none", promise |-> "none", epoch |-> 0, from |-> 0, held |-> FALSE,
         released |-> 0, waiting |-> FALSE]
NoTask == [stage |-> "none", result |-> Result("none", "none", 0)]
Seat == [pc |-> "idle", todo |-> << >>, need |-> {}, op |-> 0, since |-> 0, topology |-> 0,
         got |-> [k \in Kinds |-> 0], result |-> "none"]

\* create probed the capabilities of a started host before anyone uses it; what
\* the host announced while it started may still be under way.
Init ==
    /\ bridge = [next |-> 1, registry |-> {}, epoch |-> 2, life |-> "live", wedged |-> FALSE]
    /\ host = [epoch |-> 2, news |-> {1}, owes |-> {}, stray |-> FALSE,
               destroyed |-> FALSE]
    /\ op = [o \in Ops |-> NoOp]
    /\ task = [o \in Ops |-> NoTask]
    /\ seat = Seat

\* The mutex can be taken: nobody holds it for ever.
Free == ~bridge.wedged

---------------------------------------------------------------------------
(* Settling an operation: the fulfil functions of the three kinds.           *)

\* A guard whose future nobody holds releases its lease when the promise dies.
Valued(p, r) ==
    IF p.promise # "open" \/ (p.kind = "frame" /\ ~p.waiting) \/ p.kind = "tree"
    THEN [p EXCEPT !.promise = IF @ = "open" THEN "value" ELSE @, !.released = @ + 1,
                   !.epoch = IF p.waiting THEN r.epoch ELSE 0]
    ELSE [p EXCEPT !.promise = "value", !.epoch = r.epoch, !.held = p.kind = "frame"]

Failed(p, released) ==
    [p EXCEPT !.promise = IF @ = "open" THEN "error" ELSE @, !.released = @ + released]

\* Releases are the host's function called for a lease that came with an error,
\* the tree's after its bytes were copied, or left to the guard of a frame.
Fulfilled(p, r) ==
    IF p.kind = "input"
    THEN [p EXCEPT !.promise = IF r.status = "OK" THEN "value" ELSE "error", !.epoch = r.epoch]
    ELSE IF r.status # "OK" THEN Failed(p, IF r.lease = "none" THEN 0 ELSE 1)
    ELSE IF r.lease = "good" THEN Valued(p, r)
    ELSE Failed(p, 0)

\* A result without a usable lease is counted under the mutex.
Counts(p, r) == p.kind # "input" /\ r.status = "OK" /\ r.lease # "good"

---------------------------------------------------------------------------
(* The caller: observe, execute and wait_for_outcome.                        *)

At(pc) == seat.pc = pc
Kind == Head(seat.todo)
Returned(s, result) ==
    IF result = "ok" THEN [s EXCEPT !.pc = "idle", !.todo = << >>, !.op = 0, !.result = result]
    ELSE [Seat EXCEPT !.result = result]

\* The rest of a call, or its end.
Onward(s) ==
    IF Tail(s.todo) = << >> THEN Returned(s, "ok")
    ELSE [s EXCEPT !.pc = "register", !.todo = Tail(@)]

\* A component that could not be had: a required one fails the observation.
Missed == IF Kind \in seat.need THEN Returned(seat, "error") ELSE Onward(seat)

\* The epoch an observation carries.
ObservedEpoch(s) ==
    IF s.got["tree"] # 0 THEN s.got["tree"]
    ELSE IF s.got["frame"] # 0 THEN s.got["frame"]
    ELSE s.topology

\* observe and execute: cancelled, unsupported, malformed or without a topology
\* they fail before anything is asked of the host. A component the host does not
\* declare is not in todo.
Call(request) ==
    /\ At("idle") /\ Free /\ bridge.life = "live"
    /\ bridge.next + Len(request.todo) - 1 \in Ops
    /\ \/ seat' = [Seat EXCEPT !.result = "error"]
       \/ seat' = [Seat EXCEPT !.pc = "register", !.todo = request.todo, !.need = request.need,
                              !.since = bridge.epoch, !.topology = host.epoch]
    /\ UNCHANGED <<bridge, host, op, task>>

\* capture_frame, get_ui_tree, dispatch_input: first the registry entry.
Register ==
    /\ At("register") /\ Free
    /\ op' = [op EXCEPT ![bridge.next] =
                [NoOp EXCEPT !.kind = Kind, !.promise = "open", !.waiting = TRUE]]
    /\ bridge' = [bridge EXCEPT !.next = @ + 1, !.registry = @ \cup {bridge.next}]
    /\ seat' = [seat EXCEPT !.pc = "submit", !.op = bridge.next]
    /\ UNCHANGED <<host, task>>

\* Then the host's entry point; what it refuses is settled by settle_rejected.
Submit ==
    LET o == seat.op IN
    /\ At("submit")
    /\ \/ /\ host' = [host EXCEPT !.owes = @ \cup {o}]
          /\ op' = [op EXCEPT ![o].from = host.epoch]
          /\ UNCHANGED bridge
       \/ /\ Free
          /\ op' = IF o \in bridge.registry
                   THEN [op EXCEPT ![o] = Fulfilled(@, Result("ERR", "none", 0))] ELSE op
          /\ bridge' = [bridge EXCEPT !.registry = @ \ {o}]
          /\ UNCHANGED host
    /\ seat' = [seat EXCEPT !.pc = "wait"]
    /\ UNCHANGED task

\* The guard of a frame releases on every way out of the capture.
Consumed(p) ==
    [p EXCEPT !.held = FALSE, !.waiting = FALSE, !.epoch = 0,
              !.released = IF p.held THEN @ + 1 ELSE @]

\* The future is ready. A broken promise throws through observe or execute; a
\* component of another epoch than the newest known is stale; one that cannot
\* be parsed, validated or stored is missed as well, and so is an input with an
\* unknown receipt.
Take ==
    LET o == seat.op
        p == op[o]
        stale == p.kind # "input" /\ p.epoch # bridge.epoch
    IN
    /\ seat.pc \in {"wait", "grace"} /\ p.promise \in {"value", "error", "broken"}
    /\ p.promise = "value" /\ p.kind # "input" => Free
    /\ op' = [op EXCEPT ![o] = Consumed(p)]
    /\ \/ p.promise = "broken" /\ seat' = Returned(seat, "throw")
       \/ p.promise = "error" /\ seat' = Missed
       \/ p.promise = "value" /\ seat' = Missed
       \/ /\ p.promise = "value" /\ ~stale
          /\ seat' = Onward([seat EXCEPT !.got[p.kind] = p.epoch])
    /\ UNCHANGED <<bridge, host, task>>

\* The context was cancelled or its deadline passed: everything outstanding is
\* cancelled, whoever waits for it. Cancelling asks nothing of the host that it
\* may not do anyway. A short grace follows.
GiveUp ==
    /\ At("wait") /\ Free
    /\ seat' = [seat EXCEPT !.pc = "grace"]
    /\ UNCHANGED <<bridge, host, op, task>>

\* The grace is over: the caller fails and its future goes away.
Abandon ==
    /\ At("grace")
    /\ op' = [op EXCEPT ![seat.op] = Consumed(@)]
    /\ seat' = Missed
    /\ UNCHANGED <<bridge, host, task>>

CallerStep == Register \/ Submit \/ Take \/ GiveUp \/ Abandon

---------------------------------------------------------------------------
(* The host and its callbacks.                                               *)

\* bound: the display turns while calls are to come, the adapter goes after them.
Over == At("idle") /\ bridge.next \notin Ops

\* The display turned: a new epoch, to be announced.
Rotate ==
    /\ host.epoch < LastEpoch /\ ~Over
    /\ host' = [host EXCEPT !.epoch = @ + 1, !.news = @ \cup {host.epoch + 1}]
    /\ UNCHANGED <<bridge, op, task, seat>>

\* Snapshots are taken in the order of their sequence; an older one is dropped.
note_capabilities(sequence) ==
    [bridge EXCEPT !.epoch = IF sequence <= @ THEN @ ELSE sequence]

handle_capabilities_changed(sequence) ==
    /\ sequence \in host.news /\ Free /\ bridge.life # "gone"
    /\ host' = [host EXCEPT !.news = @ \ {sequence}]
    /\ bridge' = note_capabilities(sequence)
    /\ UNCHANGED <<op, task, seat>>

\* What the host may answer: a capture of any moment since it was asked or, from
\* a buffer it kept, of before, with or without a usable lease; or an error, with
\* or without a lease.
Answers(o) ==
    LET captures == op[o].kind # "input"
    IN  {Result("ERR", lease, 0) : lease \in IF captures THEN {"good", "none"} ELSE {"none"}}
          \cup (IF bridge.life # "live" THEN {}
                ELSE {Result("OK", IF captures THEN "good" ELSE "none", epoch) :
                        epoch \in {e \in 1..host.epoch : e + Lag >= op[o].from}}
                       \cup (IF captures THEN {Result("OK", "bad", 0)} ELSE {}))

\* Mutant: the entry stays in the registry, and a repeated callback settles again.
Claim_Kept(o) == bridge

\* The entry is taken out: a second callback finds nothing.
Claim(o) == [bridge EXCEPT !.registry = @ \ {o}]

\* handle_operation_complete up to the hand-over to the executor. A callback
\* after the detach or for a settled operation is dropped.
Called(o, r) ==
    IF o \in bridge.registry /\ bridge.life \in {"live", "stopping", "stopped"}
    THEN /\ bridge' = Claim(o)
         /\ task' = [task EXCEPT ![o] = [stage |-> "entered", result |-> r]]
    ELSE UNCHANGED <<bridge, task>>

Complete(o, r) ==
    /\ o \in host.owes /\ Free
    /\ Called(o, r)
    /\ host' = [host EXCEPT !.owes = @ \ {o}, !.stray = @ \/ bridge.life = "gone"]
    /\ op' = [op EXCEPT ![o].from = 0]
    /\ UNCHANGED seat

\* A host that calls back a second time for the same operation.
Repeat(o) ==
    /\ task[o].stage # "none" /\ Free /\ bridge.life # "gone"
    /\ Called(o, [task[o].result EXCEPT !.status = "OK"])
    /\ UNCHANGED <<host, op, seat>>

\* Only the lease of a result matters once its completion ran.
Ran(stage, r) == [stage |-> stage, result |-> Result("none", r.lease, 0)]

\* submit_auto takes the completion, drops it with its promise, or throws: then
\* it is settled inline, under the mutex that a result without a usable lease
\* would take once more.
HandOver(o) ==
    LET r == task[o].result IN
    /\ task[o].stage = "entered"
    /\ \/ /\ task' = [task EXCEPT ![o].stage = "submitted"]
          /\ UNCHANGED <<op, bridge>>
       \/ /\ task' = [task EXCEPT ![o] = Ran("dropped", r)]
          /\ op' = [op EXCEPT ![o].promise = IF @ = "open" THEN "broken" ELSE @]
          /\ UNCHANGED bridge
       \/ /\ Free
          /\ task' = [task EXCEPT ![o] = Ran("over", r)]
          /\ IF Counts(op[o], r)
             THEN bridge' = [bridge EXCEPT !.wedged = TRUE] /\ UNCHANGED op
             ELSE op' = [op EXCEPT ![o] = Fulfilled(@, r)] /\ UNCHANGED bridge
    /\ UNCHANGED <<host, seat>>

\* The callback puts the future on the list of completions.
List(o) ==
    /\ task[o].stage \in {"submitted", "unlisted"} /\ Free
    /\ task' = [task EXCEPT ![o].stage = IF @ = "submitted" THEN "listed" ELSE "over"]
    /\ UNCHANGED <<bridge, host, op, seat>>

\* The executor runs a completion.
Run(o) ==
    /\ task[o].stage \in {"submitted", "listed"}
    /\ Counts(op[o], task[o].result) => Free
    /\ op' = [op EXCEPT ![o] = Fulfilled(@, task[o].result)]
    /\ task' = [task EXCEPT ![o] =
                  Ran(IF @.stage = "submitted" THEN "unlisted" ELSE "over", @.result)]
    /\ UNCHANGED <<bridge, host, seat>>

TaskStep(o) == HandOver(o) \/ List(o) \/ Run(o)

---------------------------------------------------------------------------
(* ~AndroidHostAdapter, once nobody is in a call.                            *)

InFlight == {o \in Ops : task[o].stage \in {"entered", "submitted", "unlisted", "listed"}}

InCallback == {o \in Ops : task[o].stage \in {"entered", "submitted", "unlisted"}}
Leased == {o \in Ops : task[o].result.lease # "none" /\ op[o].released = 0}

\* stop: the host answers only with errors from here on.
Stop ==
    /\ bridge.life = "live" /\ Free /\ Over
    /\ bridge' = [bridge EXCEPT !.life = "stopping"]
    /\ UNCHANGED <<host, op, task, seat>>

\* destroy: refused while callbacks or leases are outstanding, which nobody
\* looks at.
Destroy ==
    /\ bridge.life = "stopping"
    /\ host' = [host EXCEPT !.destroyed = host.owes \cup InCallback \cup Leased = {}]
    /\ bridge' = [bridge EXCEPT !.life = "stopped"]
    /\ UNCHANGED <<op, task, seat>>

\* ~HostDispatcherBridge: what is still registered is settled as cancelled.
Detach ==
    /\ bridge.life = "stopped" /\ Free
    /\ op' = [o \in Ops |-> IF o \in bridge.registry
                            THEN Fulfilled(op[o], Result("ERR", "none", 0)) ELSE op[o]]
    /\ bridge' = [bridge EXCEPT !.life = "detached", !.registry = {}]
    /\ UNCHANGED <<host, task, seat>>

\* The listed completions are waited for.
Drained == \A o \in Ops : task[o].stage # "listed"

Drain ==
    /\ bridge.life = "detached" /\ Free /\ Drained
    /\ bridge' = [bridge EXCEPT !.life = "gone"]
    /\ UNCHANGED <<host, op, task, seat>>

Teardown == Stop \/ Destroy \/ Detach \/ Drain

---------------------------------------------------------------------------
Next ==
    \/ \E r \in Requests : Call(r)
    \/ CallerStep
    \/ Rotate
    \/ \E n \in 1..LastEpoch : handle_capabilities_changed(n)
    \/ \E o \in Ops : \E r \in Answers(o) : Complete(o, r)
    \/ \E o \in Ops : Repeat(o)
    \/ \E o \in Ops : TaskStep(o)
    \/ Teardown

Spec == Init /\ [][Next]_vars

---------------------------------------------------------------------------
TypeOK ==
    /\ bridge \in [next : 1..LastOp + 1, registry : SUBSET Ops, epoch : 1..LastEpoch, wedged : BOOLEAN,
                   life : {"live", "stopping", "stopped", "detached", "gone"}]
    /\ host.epoch \in 1..LastEpoch /\ host.owes \subseteq Ops
    /\ \A o \in Ops : /\ op[o].promise \in {"none", "open", "value", "error", "broken"}
                      /\ op[o].kind \in Kinds \cup {"none"}

\* No lease is released twice, and a frame in a consumer's hands is not released
\* yet, however callbacks repeat, callers give up and completions are settled
\* (HostLeaseGuard, handle_operation_complete, capture_screen_component).
LeasesOnce == \A o \in Ops : op[o].released <= 1 /\ (op[o].held => op[o].released = 0)

\* A component of an observation is not older than what the adapter knew when the
\* observation was asked for, in whatever order rotations are told (observe,
\* note_capabilities).
NotOlderThanAsked ==
    seat.result = "ok" =>
      \A k \in {"frame", "tree"} : seat.got[k] = 0 \/ seat.got[k] >= seat.since

\* Once the host is destroyed and the bridge gone, no completion still needs the
\* bridge and no callback came (~AndroidHostAdapter, ~HostDispatcherBridge).
GoneIsQuiet ==
    bridge.life = "gone" /\ host.destroyed => InFlight = {} /\ ~host.stray

\* A caller waits for nothing: it has not begun or it has returned. The mutex held
\* for ever by an inline settlement is the exception.
Settled ==
    bridge.wedged \/ At("idle")

\* Leases the bridge took with a completion that was not dropped are back.
LeasesBack ==
    bridge.wedged
      \/ \A o \in Ops : task[o].stage \in {"submitted", "listed", "unlisted", "over"}
           /\ task[o].result.lease = "good" => op[o].released = 1

\* What the adapter's observation consists of belongs to one epoch: the topology,
\* the screen and the structure (observe; docs/design/
\* observation_coordinate_android_host.md:106).
ObservationOfOneEpoch ==
    seat.result = "ok" /\ seat.got["input"] = 0 =>
      /\ seat.topology = ObservedEpoch(seat)
      /\ \A k \in {"frame", "tree"} : seat.got[k] \in {0, ObservedEpoch(seat)}
=============================================================================

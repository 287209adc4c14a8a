-------------------------- MODULE HostBridgeProofs --------------------------
(* What the host bridge keeps for any number of operations and rotations,    *)
(* any requests, and a host whose captures may be arbitrarily old.           *)
EXTENDS HostBridge, TLAPS

\* What is asked of the constants: a request is for at least one operation.
Bounded ==
    /\ LastOp \in Nat
    /\ Requests \subseteq [todo : Seq(Kinds) \ {<< >>}, need : SUBSET Kinds]

Waiting == {"submit", "wait", "grace"}
Pcs == {"idle", "register"} \cup Waiting
ToRun == {"entered", "submitted", "listed"}
Stages == ToRun \cup {"none", "unlisted", "dropped", "over"}
Lives == {"live", "stopping", "stopped", "detached", "gone"}

OpRecord ==
    [kind : Kinds \cup {"none"}, promise : {"none", "open", "value", "error", "broken"},
     epoch : Nat, from : Nat, held : BOOLEAN, released : Nat, waiting : BOOLEAN]
ResultRecord ==
    [status : {"OK", "ERR", "none"}, lease : {"good", "bad", "none"}, epoch : Nat]

BridgeRecord ==
    [next : Nat, registry : SUBSET Nat, epoch : Nat, life : Lives, wedged : BOOLEAN]
Results == {"none", "ok", "error", "throw"}
SeatRecord ==
    [pc : Pcs, todo : Seq(Kinds), need : SUBSET Kinds, op : Nat, since : Nat, topology : Nat,
     got : [Kinds -> Nat], result : Results]

BridgeTypes ==
    /\ bridge \in BridgeRecord /\ bridge.next > 0
    /\ host \in [epoch : Nat, news : SUBSET Nat, owes : SUBSET Ops, stray : BOOLEAN,
                 destroyed : BOOLEAN]
    /\ op \in [Ops -> OpRecord]
    /\ task \in [Ops -> [stage : Stages, result : ResultRecord]]

\* The calling thread, which never runs out of operations in the middle of a call.
SeatTypes ==
    /\ seat \in SeatRecord
    /\ seat.pc = "register" =>
         seat.todo # << >> /\ bridge.next + Len(seat.todo) <= LastOp + 1
    /\ seat.pc \in Waiting =>
         seat.todo # << >> /\ bridge.next + Len(seat.todo) <= LastOp + 2 /\ seat.op \in Ops

\* An operation is settled once: as long as it is registered or its completion
\* has yet to run, its promise is open and its lease with the host.
Fresh(o) == op[o].promise = "open" /\ op[o].released = 0 /\ op[o].held = FALSE
SettledOnce ==
    \A o \in Ops :
      /\ o \in bridge.registry => task[o].stage = "none" /\ Fresh(o)
      /\ task[o].stage \in ToRun => Fresh(o)
      /\ o >= bridge.next => o \notin bridge.registry /\ task[o].stage = "none"

\* The newest known epoch only grows, and components are of an epoch at least
\* that of the time the call began.
EpochsGrow ==
    /\ seat.pc # "idle" => seat.since <= bridge.epoch
    /\ \A k \in {"frame", "tree"} : seat.got[k] = 0 \/ seat.got[k] >= seat.since

\* After a successful destroy nobody is in the bridge but listed completions.
Quieting ==
    /\ bridge.life # "live" => seat.pc = "idle"
    /\ host.stray => bridge.life = "gone"
    /\ host.destroyed =>
         /\ bridge.life \in {"stopped", "detached", "gone"}
         /\ host.owes = {} /\ InCallback = {} /\ host.stray = FALSE
         /\ bridge.life = "gone" => InFlight = {}

HostInv ==
    BridgeTypes /\ SeatTypes /\ SettledOnce /\ LeasesOnce /\ EpochsGrow /\ Quieting

-----------------------------------------------------------------------------
(* Settling and consuming one operation. *)

\* Settling an operation keeps its type.
LEMMA FulfilledType ==
    ASSUME NEW p \in OpRecord, NEW r \in ResultRecord, p.promise = "open"
    PROVE  Fulfilled(p, r) \in OpRecord
<1>1. CASE p.kind = "input"
  BY <1>1 DEF Fulfilled, OpRecord, ResultRecord
<1>2. \A n \in Nat : Failed(p, n) \in OpRecord
  <2>1. \A n \in Nat : Failed(p, n) = [p EXCEPT !.promise = "error", !.released = p.released + n]
    BY DEF Failed, OpRecord
  <2>2. \A m \in Nat : [p EXCEPT !.promise = "error", !.released = m] \in OpRecord
    BY DEF OpRecord
  <2>3. \A n \in Nat : p.released + n \in Nat
    BY DEF OpRecord
  <2>. QED  BY Zenon, <2>1, <2>2, <2>3
<1>3. CASE p.kind # "input" /\ r.status = "OK" /\ r.lease = "good"
  <2>1. Fulfilled(p, r) = Valued(p, r)
    BY <1>3 DEF Fulfilled
  <2>2. CASE (p.kind = "frame" /\ ~p.waiting) \/ p.kind = "tree"
    <3>. DEFINE n == p.released + 1
                e == IF p.waiting THEN r.epoch ELSE 0
    <3>1. Valued(p, r) = [p EXCEPT !.promise = "value", !.released = n, !.epoch = e]
      BY <2>2 DEF Valued, OpRecord
    <3>2. n \in Nat /\ e \in Nat
      BY DEF ResultRecord, OpRecord
    <3>3. \A k, m \in Nat :
            [p EXCEPT !.promise = "value", !.released = k, !.epoch = m] \in OpRecord
      BY DEF OpRecord
    <3>. HIDE DEF n, e
    <3>4. [p EXCEPT !.promise = "value", !.released = n, !.epoch = e] \in OpRecord
      BY Zenon, <3>2, <3>3
    <3>. QED  BY Zenon, <2>1, <3>1, <3>4
  <2>3. CASE ~((p.kind = "frame" /\ ~p.waiting) \/ p.kind = "tree")
    <3>1. Valued(p, r) = [p EXCEPT !.promise = "value", !.epoch = r.epoch,
                                   !.held = (p.kind = "frame")]
      BY <2>3 DEF Valued
    <3>. QED  BY <2>1, <3>1 DEF OpRecord, ResultRecord
  <2>. QED  BY <2>2, <2>3
<1>4. CASE p.kind # "input" /\ ~(r.status = "OK" /\ r.lease = "good")
  BY <1>2, <1>4 DEF Fulfilled
<1>. QED  BY <1>1, <1>3, <1>4

\* Settling a fresh operation releases its lease at most once, and a frame left
\* to its consumer is not released (the fulfil functions of the bridge).
LEMMA FulfilledOnce ==
    ASSUME NEW p \in OpRecord, NEW r \in ResultRecord,
           p.promise = "open", p.released = 0, p.held = FALSE
    PROVE  /\ Fulfilled(p, r).released <= 1
           /\ Fulfilled(p, r).held => Fulfilled(p, r).released = 0
  BY DEF Fulfilled, Failed, Valued, OpRecord, ResultRecord

\* Consuming an operation keeps its type.
LEMMA ConsumedType ==
    ASSUME NEW p \in OpRecord
    PROVE  Consumed(p) \in OpRecord
<1>. DEFINE n == IF p.held THEN p.released + 1 ELSE p.released
<1>1. n \in Nat
  BY DEF OpRecord
<1>2. Consumed(p) = [p EXCEPT !.held = FALSE, !.waiting = FALSE, !.epoch = 0, !.released = n]
  BY DEF Consumed
<1>3. \A m \in Nat : [p EXCEPT !.held = FALSE, !.waiting = FALSE, !.epoch = 0,
                               !.released = m] \in OpRecord
  BY DEF OpRecord
<1>. HIDE DEF n
<1>4. [p EXCEPT !.held = FALSE, !.waiting = FALSE, !.epoch = 0, !.released = n] \in OpRecord
  BY Zenon, <1>1, <1>3
<1>. QED  BY Zenon, <1>2, <1>4

\* Consuming an operation releases what is held and nothing else
\* (HostLeaseGuard::release).
LEMMA ConsumedOnce ==
    ASSUME NEW p \in OpRecord, p.released <= 1, p.held => p.released = 0
    PROVE  /\ Consumed(p).released <= 1 /\ Consumed(p).held = FALSE
           /\ Consumed(p).promise = p.promise
           /\ p.held = FALSE => Consumed(p).released = p.released
  BY DEF Consumed, OpRecord

-----------------------------------------------------------------------------
(* The calling thread. *)

\* A thread between calls that observed nothing.
LEMMA EmptySeat ==
    ASSUME NEW x \in Results
    PROVE  Seat \in SeatRecord /\ [Seat EXCEPT !.result = x] \in SeatRecord
<1>1. << >> \in Seq(Kinds)
  OBVIOUS
<1>2. \A t \in Seq(Kinds), g \in [Kinds -> Nat] :
        /\ [pc |-> "idle", todo |-> t, need |-> {}, op |-> 0, since |-> 0, topology |-> 0,
            got |-> g, result |-> "none"] \in SeatRecord
        /\ [[pc |-> "idle", todo |-> t, need |-> {}, op |-> 0, since |-> 0, topology |-> 0,
             got |-> g, result |-> "none"] EXCEPT !.result = x] \in SeatRecord
  BY DEF SeatRecord, Pcs, Results
<1>3. [k \in Kinds |-> 0] \in [Kinds -> Nat]
  OBVIOUS
<1>. QED  BY Zenon, <1>1, <1>2, <1>3 DEF Seat

\* Leaving a call: with what was observed, or with nothing.
LEMMA ReturnedSeat ==
    ASSUME NEW s \in SeatRecord, NEW x \in Results
    PROVE  /\ Returned(s, x) \in SeatRecord /\ Returned(s, x).pc = "idle"
           /\ \/ Returned(s, x).since = s.since /\ Returned(s, x).got = s.got
              \/ Returned(s, x).since = 0 /\ Returned(s, x).got = [k \in Kinds |-> 0]
<1>1. CASE x = "ok"
  <2>1. Returned(s, x) = [s EXCEPT !.pc = "idle", !.todo = << >>, !.op = 0, !.result = x]
    BY <1>1 DEF Returned
  <2>2. \A t \in Seq(Kinds) :
          [s EXCEPT !.pc = "idle", !.todo = t, !.op = 0, !.result = x] \in SeatRecord
    BY DEF SeatRecord, Pcs
  <2>3. Returned(s, x).pc = "idle" /\ Returned(s, x).since = s.since /\ Returned(s, x).got = s.got
    BY <2>1 DEF SeatRecord
  <2>4. << >> \in Seq(Kinds)
    OBVIOUS
  <2>5. [s EXCEPT !.pc = "idle", !.todo = << >>, !.op = 0, !.result = x] \in SeatRecord
    BY Zenon, <2>2, <2>4
  <2>. QED  BY <2>1, <2>3, <2>5
<1>2. CASE x # "ok"
  <2>1. Returned(s, x) = [Seat EXCEPT !.result = x]
    BY <1>2 DEF Returned
  <2>2. [Seat EXCEPT !.result = x] \in SeatRecord
    BY EmptySeat
  <2>3. Returned(s, x).pc = "idle" /\ Returned(s, x).since = 0
        /\ Returned(s, x).got = [k \in Kinds |-> 0]
    BY <2>1 DEF Seat
  <2>. QED  BY <2>1, <2>2, <2>3
<1>. QED  BY <1>1, <1>2

\* Going on with a call, or leaving it.
LEMMA OnwardSeat ==
    ASSUME NEW s \in SeatRecord, s.todo # << >>
    PROVE  /\ Onward(s) \in SeatRecord /\ Onward(s).pc \in {"idle", "register"}
           /\ Onward(s).pc = "register" =>
                Onward(s).todo # << >> /\ Len(Onward(s).todo) = Len(s.todo) - 1
           /\ \/ Onward(s).since = s.since /\ Onward(s).got = s.got
              \/ Onward(s).since = 0 /\ Onward(s).got = [k \in Kinds |-> 0]
<1>1. CASE Tail(s.todo) = << >>
  BY <1>1, ReturnedSeat DEF Onward, Results
<1>2. CASE Tail(s.todo) # << >>
  <2>1. Onward(s) = [s EXCEPT !.pc = "register", !.todo = Tail(s.todo)]
    BY <1>2 DEF Onward, SeatRecord
  <2>2. Tail(s.todo) \in Seq(Kinds) /\ Len(Tail(s.todo)) = Len(s.todo) - 1
    BY DEF SeatRecord
  <2>3. [s EXCEPT !.pc = "register", !.todo = Tail(s.todo)] \in SeatRecord
    BY <2>2 DEF SeatRecord, Pcs
  <2>4. /\ Onward(s).pc = "register" /\ Onward(s).todo = Tail(s.todo)
        /\ Onward(s).since = s.since /\ Onward(s).got = s.got
    BY <2>1 DEF SeatRecord
  <2>. QED  BY <1>2, <2>1, <2>2, <2>3, <2>4
<1>. QED  BY <1>1, <1>2

\* Beginning a call changes the thread alone (observe, execute).
LEMMA CallKeeps ==
    ASSUME Bounded, HostInv, NEW request \in Requests, Call(request)
    PROVE  HostInv'
<1>. USE DEF HostInv
<1>0. request.todo \in Seq(Kinds) /\ request.todo # << >> /\ request.need \in SUBSET Kinds
  BY DEF Bounded
<1>. DEFINE failed == [Seat EXCEPT !.result = "error"]
            begun == [Seat EXCEPT !.pc = "register", !.todo = request.todo,
                        !.need = request.need, !.since = bridge.epoch, !.topology = host.epoch]
<1>1. BridgeTypes'  BY DEF Call, BridgeTypes
<1>2. bridge.epoch \in Nat /\ host.epoch \in Nat /\ bridge.next \in Nat
  BY DEF BridgeTypes, BridgeRecord
<1>3. failed \in SeatRecord /\ begun \in SeatRecord
  <2>1. failed \in SeatRecord  BY EmptySeat DEF Results
  <2>2. begun \in SeatRecord  BY <1>0, <1>2 DEF Seat, SeatRecord, Pcs, Results
  <2>. QED  BY <2>1, <2>2
<1>4. /\ failed.pc = "idle" /\ failed.got = [k \in Kinds |-> 0] /\ failed.since = 0
      /\ begun.pc = "register" /\ begun.got = [k \in Kinds |-> 0]
      /\ begun.since = bridge.epoch /\ begun.todo = request.todo
  BY DEF Seat
<1>5. seat' = failed \/ seat' = begun
  BY DEF Call
<1>6. bridge.next + Len(request.todo) <= LastOp + 1
  BY <1>0, <1>2 DEF Call, Ops, Bounded
<1>. HIDE DEF failed, begun
<1>7. SeatTypes'
  BY <1>0, <1>3, <1>4, <1>5, <1>6 DEF SeatTypes, Waiting, Call
<1>8. SettledOnce' /\ LeasesOnce'  BY DEF Call, SettledOnce, LeasesOnce, Fresh
<1>9. EpochsGrow'  BY <1>2, <1>4, <1>5 DEF Call, EpochsGrow, Kinds
<1>10. Quieting'  BY DEF Call, Quieting, InCallback, InFlight
<1>. QED  BY <1>1, <1>7, <1>8, <1>9, <1>10

\* A registered operation is fresh and has no completion yet (capture_frame,
\* get_ui_tree, dispatch_input).
LEMMA RegisterKeeps ==
    ASSUME Bounded, HostInv, Register
    PROVE  HostInv'
<1>. USE DEF HostInv
<1>. DEFINE n == bridge.next
            new == [NoOp EXCEPT !.kind = Kind, !.promise = "open", !.waiting = TRUE]
<1>0. n \in Nat /\ n > 0 /\ bridge \in BridgeRecord /\ seat \in SeatRecord
  BY DEF BridgeTypes, BridgeRecord, SeatTypes
<1>1. /\ seat.todo \in Seq(Kinds) /\ seat.todo # << >>
      /\ n + Len(seat.todo) <= LastOp + 1 /\ seat.pc = "register"
  BY DEF Register, At, SeatTypes, SeatRecord
<1>2. Kind \in Kinds /\ n \in Ops
  BY <1>0, <1>1 DEF Kind, Ops, Bounded
<1>3. new \in OpRecord
  BY <1>2 DEF NoOp, OpRecord
<1>4. new.promise = "open" /\ new.released = 0 /\ new.held = FALSE
  BY DEF NoOp
<1>5. op' = [op EXCEPT ![n] = new] /\ task' = task /\ host' = host
  BY DEF Register
<1>6. bridge' = [bridge EXCEPT !.next = n + 1, !.registry = bridge.registry \cup {n}]
  BY DEF Register
<1>7. bridge' \in BridgeRecord
  <2>1. n + 1 \in Nat /\ bridge.registry \cup {n} \in SUBSET Nat
    BY <1>0 DEF BridgeRecord
  <2>2. \A m \in Nat, x \in SUBSET Nat :
          [bridge EXCEPT !.next = m, !.registry = x] \in BridgeRecord
    BY <1>0 DEF BridgeRecord
  <2>3. [bridge EXCEPT !.next = n + 1, !.registry = bridge.registry \cup {n}] \in BridgeRecord
    BY Zenon, <2>1, <2>2
  <2>. QED  BY Zenon, <1>6, <2>3
<1>8. /\ bridge'.next = n + 1 /\ bridge'.registry = bridge.registry \cup {n}
      /\ bridge'.epoch = bridge.epoch /\ bridge'.life = bridge.life
  BY <1>0, <1>6 DEF BridgeRecord
<1>9. seat' = [seat EXCEPT !.pc = "submit", !.op = n]
  BY DEF Register
<1>10. seat' \in SeatRecord
  BY <1>0, <1>9 DEF SeatRecord, Pcs, Waiting
<1>11. /\ seat'.pc = "submit" /\ seat'.op = n /\ seat'.todo = seat.todo
       /\ seat'.since = seat.since /\ seat'.got = seat.got
  BY <1>0, <1>9 DEF SeatRecord
<1>. HIDE DEF new
<1>12. BridgeTypes'
  <2>1. op' \in [Ops -> OpRecord]  BY <1>3, <1>5 DEF BridgeTypes
  <2>2. bridge'.next > 0  BY <1>0, <1>8
  <2>. QED  BY <1>5, <1>7, <2>1, <2>2 DEF BridgeTypes
<1>13. SeatTypes'
  BY <1>0, <1>1, <1>2, <1>8, <1>10, <1>11 DEF SeatTypes, Waiting, Bounded
<1>14. SettledOnce'
  BY <1>0, <1>2, <1>3, <1>4, <1>5, <1>8 DEF SettledOnce, Fresh, BridgeTypes, Ops, Bounded, ToRun
<1>15. LeasesOnce'  BY <1>4, <1>5 DEF LeasesOnce, BridgeTypes
<1>16. EpochsGrow'  BY <1>1, <1>8, <1>11 DEF EpochsGrow
<1>17. Quieting'  BY <1>1, <1>5, <1>8 DEF Quieting, InCallback, InFlight
<1>. QED  BY <1>12, <1>13, <1>14, <1>15, <1>16, <1>17

\* Going on after a component, whatever became of it, keeps the thread in its
\* bounds: one operation less is to come.
LEMMA SeatBack ==
    ASSUME Bounded, SeatTypes, EpochsGrow, seat.pc \in Waiting, bridge' = bridge,
           bridge.next \in Nat, NEW s \in SeatRecord, s.todo = seat.todo,
           s.since = seat.since,
           \A k \in {"frame", "tree"} : s.got[k] = 0 \/ s.got[k] >= s.since,
           seat' = Onward(s) \/ \E x \in Results : seat' = Returned(s, x)
    PROVE  SeatTypes' /\ EpochsGrow' /\ seat'.pc \in {"idle", "register"}
<1>1. s.todo # << >> /\ s.todo \in Seq(Kinds) /\ Len(s.todo) \in Nat
      /\ bridge.next + Len(s.todo) <= LastOp + 2
  BY DEF SeatTypes, SeatRecord
<1>2. /\ seat' \in SeatRecord /\ seat'.pc \in {"idle", "register"}
      /\ seat'.pc = "register" => seat'.todo # << >> /\ Len(seat'.todo) = Len(s.todo) - 1
      /\ \/ seat'.since = s.since /\ seat'.got = s.got
         \/ seat'.since = 0 /\ seat'.got = [k \in Kinds |-> 0]
  <2>1. CASE seat' = Onward(s)
    BY <1>1, <2>1, OnwardSeat
  <2>2. CASE \E x \in Results : seat' = Returned(s, x)
    BY <2>2, ReturnedSeat
  <2>. QED  BY <2>1, <2>2
<1>3. SeatTypes'
  BY <1>1, <1>2 DEF SeatTypes, Waiting, Bounded
<1>4. seat.since <= bridge.epoch
  BY DEF EpochsGrow, Waiting
<1>5. EpochsGrow'
  <2>1. CASE seat'.since = s.since /\ seat'.got = s.got
    BY <1>4, <2>1 DEF EpochsGrow
  <2>2. CASE seat'.since = 0 /\ seat'.got = [k \in Kinds |-> 0]
    <3>1. seat'.pc # "idle" => seat'.since <= bridge'.epoch
      <4>1. seat'.pc = "register" => seat'.since = s.since
        <5>1. CASE seat' = Onward(s)
          BY <5>1, <1>1 DEF Onward, Returned, Seat, SeatRecord
        <5>2. CASE \E x \in Results : seat' = Returned(s, x)
          BY <5>2, ReturnedSeat
        <5>. QED  BY <5>1, <5>2
      <4>. QED  BY <1>2, <1>4, <4>1
    <3>. QED  BY <2>2, <3>1 DEF EpochsGrow, Kinds
  <2>. QED  BY <1>2, <2>1, <2>2
<1>. QED  BY <1>2, <1>3, <1>5

\* What became of one operation while nothing is registered or completed.
LEMMA OneOp ==
    ASSUME BridgeTypes, SettledOnce, LeasesOnce, NEW o \in Ops, NEW q \in OpRecord,
           op' = [op EXCEPT ![o] = q], bridge' = bridge, task' = task, host' = host,
           q.released <= 1, q.held => q.released = 0,
           Fresh(o) => q.promise = "open" /\ q.released = 0 /\ q.held = FALSE
    PROVE  BridgeTypes' /\ SettledOnce' /\ LeasesOnce'
<1>1. BridgeTypes'
  BY DEF BridgeTypes
<1>2. \A i \in Ops : op'[i] = IF i = o THEN q ELSE op[i]
  BY DEF BridgeTypes
<1>3. \A i \in Ops : Fresh(i) => Fresh(i)'
  BY <1>2 DEF Fresh
<1>4. SettledOnce'
  BY <1>3 DEF SettledOnce
<1>5. LeasesOnce'
  BY <1>2 DEF LeasesOnce
<1>. QED  BY <1>1, <1>4, <1>5

\* An operation whose result was consumed gives its lease back once.
LEMMA ConsumedKeeps ==
    ASSUME HostInv, NEW o \in Ops, op' = [op EXCEPT ![o] = Consumed(op[o])],
           bridge' = bridge, task' = task, host' = host
    PROVE  BridgeTypes' /\ SettledOnce' /\ LeasesOnce'
<1>. DEFINE q == Consumed(op[o])
<1>1. op[o] \in OpRecord /\ op[o].released <= 1 /\ (op[o].held => op[o].released = 0)
  BY DEF HostInv, BridgeTypes, LeasesOnce
<1>2. q \in OpRecord
  BY <1>1, ConsumedType
<1>3. /\ q.released <= 1 /\ q.held = FALSE /\ q.promise = op[o].promise
      /\ op[o].held = FALSE => q.released = op[o].released
  BY <1>1, ConsumedOnce
<1>. HIDE DEF q
<1>4. op' = [op EXCEPT ![o] = q]
  BY DEF q
<1>5. Fresh(o) => q.promise = "open" /\ q.released = 0 /\ q.held = FALSE
  BY <1>3 DEF Fresh
<1>. QED  BY <1>2, <1>3, <1>4, <1>5, OneOp DEF HostInv

\* Quieting looks at the thread only while the bridge lives.
LEMMA ThreadQuiet ==
    ASSUME HostInv, seat.pc # "idle", bridge' = bridge, task' = task, host' = host
    PROVE  Quieting'
  BY DEF HostInv, Quieting, InCallback, InFlight

\* Taking a result keeps the invariant.
LEMMA TakeKeeps ==
    ASSUME Bounded, HostInv, Take
    PROVE  HostInv'
<1>. DEFINE o == seat.op
<1>1. /\ seat.pc \in {"wait", "grace"} /\ op' = [op EXCEPT ![o] = Consumed(op[o])]
      /\ bridge' = bridge /\ task' = task /\ host' = host
  BY DEF Take
<1>2. /\ o \in Ops /\ seat \in SeatRecord /\ seat.pc \in Waiting /\ bridge.next \in Nat
      /\ op[o] \in OpRecord /\ bridge.epoch \in Nat
  BY <1>1 DEF HostInv, SeatTypes, Waiting, BridgeTypes, BridgeRecord
<1>3. BridgeTypes' /\ SettledOnce' /\ LeasesOnce'
  BY <1>1, <1>2, ConsumedKeeps
<1>4. Quieting'
  BY <1>1, ThreadQuiet
<1>. DEFINE t == [seat EXCEPT !.got[op[o].kind] = op[o].epoch]
<1>5. CASE seat' = Onward(seat) \/ \E x \in Results : seat' = Returned(seat, x)
  <2>1. \A k \in {"frame", "tree"} : seat.got[k] = 0 \/ seat.got[k] >= seat.since
    BY DEF HostInv, EpochsGrow
  <2>2. SeatTypes' /\ EpochsGrow'
    BY <1>1, <1>2, <1>5, <2>1, SeatBack DEF HostInv
  <2>. QED  BY <1>3, <1>4, <2>2 DEF HostInv
<1>6. CASE op[o].kind \notin Kinds
  <2>1. t = seat
    BY <1>2, <1>6 DEF SeatRecord
  <2>. QED  BY <1>5, <2>1 DEF Take, Missed, Results
<1>7. CASE op[o].kind \in Kinds /\ (op[o].kind # "input" => op[o].epoch = bridge.epoch)
            /\ seat' = Onward(t)
  <2>1. t \in SeatRecord /\ t.todo = seat.todo /\ t.since = seat.since
    BY <1>2, <1>7 DEF SeatRecord, OpRecord
  <2>2. \A k \in {"frame", "tree"} : t.got[k] = 0 \/ t.got[k] >= t.since
    <3>1. seat.since <= bridge.epoch
      BY <1>1 DEF HostInv, EpochsGrow
    <3>2. \A k \in Kinds : t.got[k] = IF k = op[o].kind THEN op[o].epoch ELSE seat.got[k]
      BY <1>2, <1>7 DEF SeatRecord
    <3>. QED  BY <1>2, <1>7, <2>1, <3>1, <3>2 DEF HostInv, EpochsGrow, Kinds, SeatRecord
  <2>. HIDE DEF t
  <2>3. SeatTypes' /\ EpochsGrow'
    BY <1>1, <1>2, <1>7, <2>1, <2>2, SeatBack DEF HostInv
  <2>. QED  BY <1>3, <1>4, <2>3 DEF HostInv
<1>. QED  BY <1>5, <1>6, <1>7 DEF Take, Missed, Results

\* Giving up waiting keeps the invariant.
LEMMA AbandonKeeps ==
    ASSUME Bounded, HostInv, Abandon
    PROVE  HostInv'
<1>. DEFINE o == seat.op
<1>1. /\ seat.pc = "grace" /\ op' = [op EXCEPT ![o] = Consumed(op[o])]
      /\ bridge' = bridge /\ task' = task /\ host' = host
  BY DEF Abandon, At
<1>2. o \in Ops /\ seat \in SeatRecord /\ seat.pc \in Waiting /\ bridge.next \in Nat
  BY <1>1 DEF HostInv, SeatTypes, Waiting, BridgeTypes, BridgeRecord
<1>3. BridgeTypes' /\ SettledOnce' /\ LeasesOnce'
  BY <1>1, <1>2, ConsumedKeeps
<1>4. Quieting'
  BY <1>1, ThreadQuiet
<1>5. seat' = Onward(seat) \/ \E x \in Results : seat' = Returned(seat, x)
  BY DEF Abandon, Missed, Results
<1>6. \A k \in {"frame", "tree"} : seat.got[k] = 0 \/ seat.got[k] >= seat.since
  BY DEF HostInv, EpochsGrow
<1>7. SeatTypes' /\ EpochsGrow'
  BY <1>1, <1>2, <1>5, <1>6, SeatBack DEF HostInv
<1>. QED  BY <1>3, <1>4, <1>7 DEF HostInv

\* Settling a fresh operation gives back or hands over its lease once.
LEMMA SettleFresh ==
    ASSUME BridgeTypes, NEW o \in Ops, Fresh(o), NEW r \in ResultRecord
    PROVE  /\ Fulfilled(op[o], r) \in OpRecord
           /\ Fulfilled(op[o], r).released <= 1
           /\ Fulfilled(op[o], r).held => Fulfilled(op[o], r).released = 0
<1>1. op[o] \in OpRecord
  BY DEF BridgeTypes
<1>. QED  BY <1>1, FulfilledType, FulfilledOnce DEF Fresh

\* An error without a lease is a result.
LEMMA CancelResult == Result("ERR", "none", 0) \in ResultRecord
  BY DEF Result, ResultRecord

\* A refused submission is settled at once, if nobody did so yet
\* (settle_rejected).
LEMMA SubmitKeeps ==
    ASSUME Bounded, HostInv, Submit
    PROVE  HostInv'
<1>. DEFINE o == seat.op
<1>0. seat.pc = "submit" /\ seat' = [seat EXCEPT !.pc = "wait"] /\ task' = task
  BY DEF Submit, At
<1>1. /\ o \in Ops /\ seat \in SeatRecord /\ bridge \in BridgeRecord
      /\ op \in [Ops -> OpRecord] /\ host.epoch \in Nat
  BY <1>0 DEF HostInv, SeatTypes, Waiting, BridgeTypes
<1>2. /\ seat' \in SeatRecord /\ seat'.pc = "wait" /\ seat'.op = o
      /\ seat'.todo = seat.todo /\ seat'.since = seat.since /\ seat'.got = seat.got
  BY <1>0, <1>1 DEF SeatRecord, Pcs, Waiting
<1>3. CASE host' = [host EXCEPT !.owes = @ \cup {o}] /\ bridge' = bridge
            /\ op' = [op EXCEPT ![o].from = host.epoch]
  <2>1. [op[o] EXCEPT !.from = host.epoch] \in OpRecord
    BY <1>1 DEF OpRecord
  <2>2. /\ op' \in [Ops -> OpRecord]
        /\ \A i \in Ops : /\ op'[i].promise = op[i].promise /\ op'[i].held = op[i].held
                         /\ op'[i].released = op[i].released
    BY <1>1, <1>3, <2>1 DEF OpRecord
  <2>3. BridgeTypes'
    <3>1. host' \in [epoch : Nat, news : SUBSET Nat, owes : SUBSET Ops, stray : BOOLEAN,
                     destroyed : BOOLEAN]
      BY <1>1, <1>3 DEF HostInv, BridgeTypes
    <3>. QED  BY <1>0, <1>3, <2>2, <3>1 DEF HostInv, BridgeTypes
  <2>4. SeatTypes' /\ EpochsGrow'
    BY <1>0, <1>1, <1>2, <1>3 DEF HostInv, SeatTypes, Waiting, EpochsGrow
  <2>5. SettledOnce' /\ LeasesOnce'
    BY <1>0, <1>3, <2>2 DEF HostInv, SettledOnce, LeasesOnce, Fresh
  <2>6. Quieting'
    BY <1>0, <1>3 DEF HostInv, Quieting, BridgeTypes
  <2>. QED  BY <2>3, <2>4, <2>5, <2>6 DEF HostInv
<1>4. CASE /\ op' = IF o \in bridge.registry
                    THEN [op EXCEPT ![o] = Fulfilled(@, Result("ERR", "none", 0))] ELSE op
           /\ bridge' = [bridge EXCEPT !.registry = @ \ {o}]
           /\ host' = host
  <2>. DEFINE q == Fulfilled(op[o], Result("ERR", "none", 0))
  <2>1. /\ bridge' \in BridgeRecord /\ bridge'.registry = bridge.registry \ {o}
        /\ bridge'.next = bridge.next /\ bridge'.epoch = bridge.epoch
        /\ bridge'.life = bridge.life
    BY <1>1, <1>4 DEF BridgeRecord
  <2>2. o \in bridge.registry =>
          /\ q \in OpRecord /\ q.released <= 1 /\ (q.held => q.released = 0)
          /\ task[o].stage = "none"
    BY <1>1, SettleFresh, CancelResult DEF HostInv, SettledOnce
  <2>3. op' = IF o \in bridge.registry THEN [op EXCEPT ![o] = q] ELSE op
    BY <1>4
  <2>. HIDE DEF q
  <2>4. /\ op' \in [Ops -> OpRecord]
        /\ \A i \in Ops : op'[i] = IF i = o /\ o \in bridge.registry THEN q ELSE op[i]
    BY <1>1, <2>2, <2>3
  <2>5. BridgeTypes'
    BY <1>0, <1>4, <2>1, <2>4 DEF HostInv, BridgeTypes
  <2>6. SeatTypes' /\ EpochsGrow'
    BY <1>0, <1>1, <1>2, <2>1 DEF HostInv, SeatTypes, Waiting, EpochsGrow
  <2>7. LeasesOnce'
    BY <2>2, <2>4 DEF HostInv, LeasesOnce
  <2>8. SettledOnce'
    BY <1>0, <2>1, <2>2, <2>4 DEF HostInv, SettledOnce, Fresh, ToRun
  <2>9. Quieting'
    BY <1>0, <1>4, <2>1 DEF HostInv, Quieting, InCallback, InFlight
  <2>. QED  BY <2>5, <2>6, <2>7, <2>8, <2>9 DEF HostInv
<1>. QED  BY <1>3, <1>4 DEF Submit

\* Giving up changes the thread alone.
LEMMA GiveUpKeeps ==
    ASSUME HostInv, GiveUp
    PROVE  HostInv'
<1>1. /\ seat.pc = "wait" /\ seat' = [seat EXCEPT !.pc = "grace"] /\ seat \in SeatRecord
      /\ bridge' = bridge /\ host' = host /\ op' = op /\ task' = task
  BY DEF GiveUp, At, HostInv, SeatTypes
<1>2. /\ seat' \in SeatRecord /\ seat'.pc = "grace" /\ seat'.op = seat.op
      /\ seat'.todo = seat.todo /\ seat'.since = seat.since /\ seat'.got = seat.got
  BY <1>1 DEF SeatRecord, Pcs, Waiting
<1>3. SeatTypes' /\ EpochsGrow'
  BY <1>1, <1>2 DEF HostInv, SeatTypes, Waiting, EpochsGrow
<1>4. Quieting'
  BY <1>1, ThreadQuiet
<1>5. BridgeTypes' /\ SettledOnce' /\ LeasesOnce'
  BY <1>1 DEF HostInv, BridgeTypes, SettledOnce, LeasesOnce, Fresh
<1>. QED  BY <1>3, <1>4, <1>5 DEF HostInv

-----------------------------------------------------------------------------
(* The host. *)

\* A new epoch of the bridge keeps the invariant.
LEMMA RotateKeeps ==
    ASSUME HostInv, Rotate
    PROVE  HostInv'
<1>. DEFINE H == [epoch : Nat, news : SUBSET Nat, owes : SUBSET Ops, stray : BOOLEAN,
                  destroyed : BOOLEAN]
<1>1. /\ host' = [host EXCEPT !.epoch = host.epoch + 1, !.news = host.news \cup {host.epoch + 1}]
      /\ bridge' = bridge /\ op' = op /\ task' = task /\ seat' = seat /\ host \in H
  BY DEF Rotate, HostInv, BridgeTypes
<1>2. host.epoch + 1 \in Nat /\ host.news \cup {host.epoch + 1} \in SUBSET Nat
  BY <1>1
<1>3. \A e \in Nat, w \in SUBSET Nat : [host EXCEPT !.epoch = e, !.news = w] \in H
  BY <1>1
<1>4. host'.owes = host.owes /\ host'.stray = host.stray /\ host'.destroyed = host.destroyed
  BY <1>1
<1>5. host' \in H
  <2>. HIDE DEF H
  <2>1. [host EXCEPT !.epoch = host.epoch + 1, !.news = host.news \cup {host.epoch + 1}] \in H
    BY Zenon, <1>2, <1>3
  <2>. QED  BY Zenon, <1>1, <2>1
<1>6. BridgeTypes'
  BY <1>1, <1>5 DEF HostInv, BridgeTypes
<1>7. SeatTypes' /\ SettledOnce' /\ LeasesOnce' /\ EpochsGrow'
  BY <1>1 DEF HostInv, SeatTypes, SettledOnce, LeasesOnce, EpochsGrow, Fresh
<1>8. Quieting'
  BY <1>1, <1>4 DEF HostInv, Quieting, InCallback, InFlight
<1>. QED  BY <1>6, <1>7, <1>8 DEF HostInv

\* An announcement never takes the newest known epoch back (note_capabilities).
LEMMA NewsKeeps ==
    ASSUME HostInv, NEW n \in Nat, handle_capabilities_changed(n)
    PROVE  HostInv' /\ bridge'.epoch >= bridge.epoch
<1>. DEFINE H == [epoch : Nat, news : SUBSET Nat, owes : SUBSET Ops, stray : BOOLEAN,
                  destroyed : BOOLEAN]
            e == IF n <= bridge.epoch THEN bridge.epoch ELSE n
<1>1. /\ host' = [host EXCEPT !.news = host.news \ {n}] /\ bridge.life # "gone"
      /\ bridge' = [bridge EXCEPT !.epoch = e]
      /\ op' = op /\ task' = task /\ seat' = seat /\ host \in H /\ bridge \in BridgeRecord
  BY DEF handle_capabilities_changed, note_capabilities, HostInv, BridgeTypes
<1>2. e \in Nat /\ e >= bridge.epoch /\ bridge.epoch \in Nat
  BY <1>1 DEF BridgeRecord
<1>. HIDE DEF e
<1>3. /\ host' \in H /\ host'.owes = host.owes /\ host'.stray = host.stray
      /\ host'.destroyed = host.destroyed
  BY <1>1
<1>4. /\ bridge' \in BridgeRecord /\ bridge'.epoch = e /\ bridge'.next = bridge.next
      /\ bridge'.registry = bridge.registry /\ bridge'.life = bridge.life
  BY <1>1, <1>2 DEF BridgeRecord
<1>5. BridgeTypes'
  BY <1>1, <1>3, <1>4 DEF HostInv, BridgeTypes
<1>6. SeatTypes' /\ SettledOnce' /\ LeasesOnce'
  BY <1>1, <1>4 DEF HostInv, SeatTypes, SettledOnce, LeasesOnce, Fresh
<1>7. EpochsGrow'
  <2>1. seat.since \in Nat
    BY DEF HostInv, SeatTypes, SeatRecord
  <2>. QED  BY <1>1, <1>2, <1>4, <2>1 DEF HostInv, EpochsGrow
<1>8. Quieting'
  BY <1>1, <1>3, <1>4 DEF HostInv, Quieting, InCallback, InFlight
<1>. QED  BY <1>2, <1>4, <1>5, <1>6, <1>7, <1>8 DEF HostInv

\* Whatever the host answers is a result.
LEMMA AnswerTypes ==
    ASSUME BridgeTypes, NEW o \in Ops, NEW r \in Answers(o)
    PROVE  r \in ResultRecord
<1>1. host.epoch \in Nat
  BY DEF BridgeTypes
<1>2. \A e \in 1..host.epoch : e \in Nat
  BY <1>1
<1>. QED  BY <1>2 DEF Answers, Result, ResultRecord

\* A callback that finds its operation registered takes it out and starts its
\* completion; any other changes nothing (handle_operation_complete).
LEMMA CalledKeeps ==
    ASSUME HostInv, NEW o \in Ops, NEW r \in ResultRecord, Called(o, r), seat' = seat,
           op' \in [Ops -> OpRecord],
           \A i \in Ops : /\ op'[i].promise = op[i].promise /\ op'[i].held = op[i].held
                          /\ op'[i].released = op[i].released
    PROVE  /\ bridge' \in BridgeRecord /\ bridge'.next > 0 /\ bridge'.life = bridge.life
           /\ task' \in [Ops -> [stage : Stages, result : ResultRecord]]
           /\ SeatTypes' /\ SettledOnce' /\ LeasesOnce' /\ EpochsGrow'
           /\ o \notin bridge.registry => task' = task /\ bridge' = bridge
<1>1. bridge \in BridgeRecord /\ task \in [Ops -> [stage : Stages, result : ResultRecord]]
        /\ bridge.next > 0
  BY DEF HostInv, BridgeTypes
<1>2. LeasesOnce'
  BY DEF HostInv, LeasesOnce
<1>3. \A i \in Ops : Fresh(i) => Fresh(i)'
  BY DEF Fresh
<1>4. CASE bridge' = bridge /\ task' = task
  BY <1>1, <1>2, <1>3, <1>4 DEF HostInv, SeatTypes, SettledOnce, EpochsGrow
<1>5. CASE /\ o \in bridge.registry /\ bridge' = Claim(o)
           /\ task' = [task EXCEPT ![o] = [stage |-> "entered", result |-> r]]
  <2>1. /\ bridge' \in BridgeRecord /\ bridge'.registry = bridge.registry \ {o}
        /\ bridge'.next = bridge.next /\ bridge'.epoch = bridge.epoch
        /\ bridge'.life = bridge.life
    BY <1>1, <1>5 DEF Claim, BridgeRecord
  <2>2. [stage |-> "entered", result |-> r] \in [stage : Stages, result : ResultRecord]
    BY DEF Stages, ToRun
  <2>3. task' \in [Ops -> [stage : Stages, result : ResultRecord]]
    BY <1>1, <1>5, <2>2
  <2>4. \A i \in Ops : task'[i].stage = IF i = o THEN "entered" ELSE task[i].stage
    BY <1>1, <1>5
  <2>5. Fresh(o) /\ ~(o >= bridge.next)
    BY <1>5 DEF HostInv, SettledOnce
  <2>6. SettledOnce'
    BY <1>3, <2>1, <2>4, <2>5 DEF HostInv, SettledOnce
  <2>7. SeatTypes' /\ EpochsGrow'
    BY <2>1 DEF HostInv, SeatTypes, EpochsGrow
  <2>. QED  BY <1>1, <1>2, <1>5, <2>1, <2>3, <2>6, <2>7
<1>. QED  BY <1>4, <1>5 DEF Called

\* A callback of the host keeps the invariant.
LEMMA CompleteKeeps ==
    ASSUME HostInv, NEW o \in Ops, NEW r \in Answers(o), Complete(o, r)
    PROVE  HostInv'
<1>. DEFINE H == [epoch : Nat, news : SUBSET Nat, owes : SUBSET Ops, stray : BOOLEAN,
                  destroyed : BOOLEAN]
<1>1. /\ o \in host.owes /\ Called(o, r) /\ seat' = seat
      /\ host' = [host EXCEPT !.owes = @ \ {o}, !.stray = @ \/ bridge.life = "gone"]
      /\ op' = [op EXCEPT ![o].from = 0]
      /\ host \in H /\ op \in [Ops -> OpRecord]
  BY DEF Complete, HostInv, BridgeTypes
<1>2. r \in ResultRecord
  BY AnswerTypes DEF HostInv
<1>3. /\ op' \in [Ops -> OpRecord]
      /\ \A i \in Ops : /\ op'[i].promise = op[i].promise /\ op'[i].held = op[i].held
                       /\ op'[i].released = op[i].released
  <2>1. [op[o] EXCEPT !.from = 0] \in OpRecord
    BY <1>1 DEF OpRecord
  <2>. QED  BY <1>1, <2>1 DEF OpRecord
<1>4. /\ bridge' \in BridgeRecord /\ bridge'.next > 0 /\ bridge'.life = bridge.life
      /\ task' \in [Ops -> [stage : Stages, result : ResultRecord]]
      /\ SeatTypes' /\ SettledOnce' /\ LeasesOnce' /\ EpochsGrow'
  BY <1>1, <1>2, <1>3, CalledKeeps
<1>5. /\ host' \in H /\ host'.destroyed = host.destroyed
      /\ host'.stray = (host.stray \/ bridge.life = "gone")
  BY <1>1
<1>6. BridgeTypes'
  BY <1>3, <1>4, <1>5 DEF BridgeTypes
<1>7. host.destroyed = FALSE
  BY <1>1 DEF HostInv, Quieting
<1>8. Quieting'
  BY <1>1, <1>4, <1>5, <1>7 DEF HostInv, Quieting
<1>. QED  BY <1>4, <1>6, <1>8 DEF HostInv

\* A repeated callback finds nothing: its operation was claimed by the first.
LEMMA RepeatKeeps ==
    ASSUME HostInv, NEW o \in Ops, Repeat(o)
    PROVE  HostInv' /\ UNCHANGED vars
<1>1. task[o].stage # "none" /\ UNCHANGED <<host, op, seat>>
  BY DEF Repeat
<1>2. o \notin bridge.registry
  BY <1>1 DEF HostInv, SettledOnce
<1>3. UNCHANGED <<bridge, task>>
  BY <1>2 DEF Repeat, Called
<1>. QED
  BY <1>1, <1>3 DEF HostInv, BridgeTypes, SeatTypes, SettledOnce, LeasesOnce, EpochsGrow,
     Quieting, InCallback, InFlight, Fresh, vars

-----------------------------------------------------------------------------
(* Completions. *)

\* One completion goes on, and with it at most its own operation.
LEMMA CompletionKeeps ==
    ASSUME HostInv, NEW o \in Ops, task[o].stage # "none",
           NEW w \in [stage : Stages, result : ResultRecord], w.stage # "none",
           task' = [task EXCEPT ![o] = w],
           NEW q \in OpRecord, op' = [op EXCEPT ![o] = q],
           q.released <= 1, q.held => q.released = 0,
           w.stage \in ToRun => q.promise = "open" /\ q.released = 0 /\ q.held = FALSE,
           bridge' \in BridgeRecord, bridge'.next = bridge.next,
           bridge'.registry = bridge.registry, bridge'.epoch = bridge.epoch,
           bridge'.life = bridge.life, host' = host, seat' = seat, Quieting'
    PROVE  HostInv'
<1>1. task \in [Ops -> [stage : Stages, result : ResultRecord]] /\ op \in [Ops -> OpRecord]
  BY DEF HostInv, BridgeTypes
<1>2. /\ task' \in [Ops -> [stage : Stages, result : ResultRecord]]
      /\ op' \in [Ops -> OpRecord]
      /\ \A i \in Ops : /\ task'[i] = IF i = o THEN w ELSE task[i]
                       /\ op'[i] = IF i = o THEN q ELSE op[i]
  BY <1>1
<1>3. BridgeTypes'
  BY <1>2 DEF HostInv, BridgeTypes
<1>4. SeatTypes' /\ EpochsGrow'
  BY DEF HostInv, SeatTypes, EpochsGrow
<1>5. LeasesOnce'
  BY <1>2 DEF HostInv, LeasesOnce
<1>6. o \notin bridge.registry /\ ~(o >= bridge.next)
  BY DEF HostInv, SettledOnce
<1>7. SettledOnce'
  BY <1>2, <1>6 DEF HostInv, SettledOnce, Fresh
<1>. QED  BY <1>3, <1>4, <1>5, <1>7 DEF HostInv

\* A completion that ran has its stage and a result.
LEMMA RanType ==
    ASSUME NEW r \in ResultRecord, NEW stage \in Stages
    PROVE  Ran(stage, r) \in [stage : Stages, result : ResultRecord] /\ Ran(stage, r).stage = stage
  BY DEF Ran, Result, ResultRecord

\* While a callback is under way the host was not destroyed.
LEMMA CallbackQuiet ==
    ASSUME HostInv, NEW o \in Ops, task[o].stage \in {"entered", "submitted", "unlisted"},
           bridge'.life = bridge.life, host' = host, seat' = seat
    PROVE  Quieting'
<1>1. ~host.destroyed
  BY DEF HostInv, Quieting, InCallback
<1>. QED  BY <1>1 DEF HostInv, Quieting

\* A completion handed to the executor is taken, dropped or settled inline.
LEMMA HandOverKeeps ==
    ASSUME HostInv, NEW o \in Ops, HandOver(o)
    PROVE  HostInv'
<1>. DEFINE r == task[o].result
<1>1. /\ task[o].stage = "entered" /\ host' = host /\ seat' = seat
      /\ task \in [Ops -> [stage : Stages, result : ResultRecord]]
      /\ op \in [Ops -> OpRecord] /\ bridge \in BridgeRecord
  BY DEF HandOver, HostInv, BridgeTypes
<1>2. r \in ResultRecord /\ op[o] \in OpRecord /\ Fresh(o) /\ task[o].stage # "none"
  BY <1>1 DEF HostInv, SettledOnce, ToRun
<1>3. CASE task' = [task EXCEPT ![o].stage = "submitted"] /\ op' = op /\ bridge' = bridge
  <2>. DEFINE w == [task[o] EXCEPT !.stage = "submitted"]
              q == op[o]
  <2>1. w \in [stage : Stages, result : ResultRecord] /\ w.stage # "none"
    BY <1>1 DEF Stages, ToRun
  <2>2. task' = [task EXCEPT ![o] = w] /\ op' = [op EXCEPT ![o] = q]
    BY <1>1, <1>3
  <2>3. Quieting'
    BY <1>1, <1>3, CallbackQuiet
  <2>4. /\ q \in OpRecord /\ q.promise = "open" /\ q.released = 0 /\ q.held = FALSE
        /\ q.released <= 1
    BY <1>2 DEF Fresh
  <2>5. q.held => q.released = 0
    BY <2>4
  <2>. HIDE DEF w, q
  <2>6. /\ bridge' \in BridgeRecord /\ bridge'.next = bridge.next
        /\ bridge'.registry = bridge.registry /\ bridge'.epoch = bridge.epoch
        /\ bridge'.life = bridge.life /\ host' = host /\ seat' = seat
    BY <1>1, <1>3
  <2>. QED  BY ZenonT(60), <1>2, <2>1, <2>2, <2>3, <2>4, <2>5, <2>6, CompletionKeeps
<1>4. CASE /\ task' = [task EXCEPT ![o] = Ran("dropped", r)]
           /\ op' = [op EXCEPT ![o].promise = IF @ = "open" THEN "broken" ELSE @]
           /\ bridge' = bridge
  <2>. DEFINE q == [op[o] EXCEPT !.promise = "broken"]
              w == Ran("dropped", r)
  <2>1. q \in OpRecord /\ q.released <= 1 /\ (q.held => q.released = 0)
    BY <1>2 DEF OpRecord, Fresh
  <2>2. op' = [op EXCEPT ![o] = q]
    BY <1>1, <1>2, <1>4 DEF Fresh
  <2>3. /\ w \in [stage : Stages, result : ResultRecord]
        /\ w.stage # "none" /\ w.stage \notin ToRun
    BY <1>2, RanType DEF Stages, ToRun
  <2>4. Quieting'
    BY <1>1, <1>4, CallbackQuiet
  <2>5. task' = [task EXCEPT ![o] = w]
    BY <1>4
  <2>. HIDE DEF q, w
  <2>. QED  BY <1>1, <1>2, <1>4, <2>1, <2>2, <2>3, <2>4, <2>5, CompletionKeeps
<1>5. CASE /\ task' = [task EXCEPT ![o] = Ran("over", r)]
           /\ bridge' = [bridge EXCEPT !.wedged = TRUE] /\ op' = op
  <2>. DEFINE w == Ran("over", r)
              q == op[o]
  <2>1. /\ w \in [stage : Stages, result : ResultRecord]
        /\ w.stage # "none" /\ w.stage \notin ToRun
    BY <1>2, RanType DEF Stages, ToRun
  <2>2. /\ bridge' \in BridgeRecord /\ bridge'.next = bridge.next
        /\ bridge'.registry = bridge.registry /\ bridge'.epoch = bridge.epoch
        /\ bridge'.life = bridge.life
    BY <1>1, <1>5 DEF BridgeRecord
  <2>3. Quieting'
    BY <1>1, <2>2, CallbackQuiet
  <2>4. task' = [task EXCEPT ![o] = w] /\ op' = [op EXCEPT ![o] = q]
    BY <1>1, <1>5
  <2>5. q \in OpRecord /\ q.released <= 1 /\ (q.held => q.released = 0)
    BY <1>2 DEF Fresh
  <2>. HIDE DEF w, q
  <2>. QED  BY <1>1, <1>2, <2>1, <2>2, <2>3, <2>4, <2>5, CompletionKeeps
<1>6. CASE /\ task' = [task EXCEPT ![o] = Ran("over", r)]
           /\ op' = [op EXCEPT ![o] = Fulfilled(@, r)] /\ bridge' = bridge
  <2>. DEFINE w == Ran("over", r)
              q == Fulfilled(op[o], r)
  <2>1. w \in [stage : Stages, result : ResultRecord] /\ w.stage = "over"
    BY <1>2, RanType DEF Stages
  <2>2. q \in OpRecord /\ q.released <= 1 /\ (q.held => q.released = 0)
    BY <1>2, SettleFresh DEF HostInv
  <2>3. Quieting'
    BY <1>1, <1>6, CallbackQuiet
  <2>4. task' = [task EXCEPT ![o] = w] /\ op' = [op EXCEPT ![o] = q]
    BY <1>6
  <2>. HIDE DEF w, q
  <2>. QED  BY <1>1, <1>2, <1>6, <2>1, <2>2, <2>3, <2>4, CompletionKeeps DEF ToRun
<1>. QED  BY <1>3, <1>4, <1>5, <1>6 DEF HandOver

\* Putting a completion on the list settles nothing.
LEMMA ListKeeps ==
    ASSUME HostInv, NEW o \in Ops, List(o)
    PROVE  HostInv'
<1>. DEFINE stage == IF task[o].stage = "submitted" THEN "listed" ELSE "over"
            w == [task[o] EXCEPT !.stage = stage]
<1>1. /\ task[o].stage \in {"submitted", "unlisted"}
      /\ bridge' = bridge /\ host' = host /\ op' = op /\ seat' = seat
      /\ task \in [Ops -> [stage : Stages, result : ResultRecord]]
      /\ op \in [Ops -> OpRecord] /\ bridge \in BridgeRecord
  BY DEF List, HostInv, BridgeTypes
<1>2. /\ w \in [stage : Stages, result : ResultRecord] /\ w.stage # "none"
      /\ w.stage \in ToRun => task[o].stage = "submitted"
  BY <1>1 DEF Stages, ToRun
<1>3. task' = [task EXCEPT ![o] = w] /\ op' = [op EXCEPT ![o] = op[o]] /\ op[o] \in OpRecord
  BY <1>1 DEF List
<1>4. Quieting'
  BY <1>1, CallbackQuiet
<1>5. op[o].released <= 1 /\ (op[o].held => op[o].released = 0)
  BY DEF HostInv, LeasesOnce
<1>6. task[o].stage = "submitted" => Fresh(o)
  BY DEF HostInv, SettledOnce, ToRun
<1>. HIDE DEF w, stage
<1>. QED  BY <1>1, <1>2, <1>3, <1>4, <1>5, <1>6, CompletionKeeps DEF Fresh

\* The executor's task settles an operation nobody settled before.
LEMMA RunKeeps ==
    ASSUME HostInv, NEW o \in Ops, Run(o)
    PROVE  HostInv'
<1>. DEFINE r == task[o].result
            stage == IF task[o].stage = "submitted" THEN "unlisted" ELSE "over"
            w == Ran(stage, r)
            q == Fulfilled(op[o], r)
<1>1. /\ task[o].stage \in {"submitted", "listed"}
      /\ bridge' = bridge /\ host' = host /\ seat' = seat
      /\ task \in [Ops -> [stage : Stages, result : ResultRecord]]
      /\ op \in [Ops -> OpRecord] /\ bridge \in BridgeRecord
  BY DEF Run, HostInv, BridgeTypes
<1>2. task' = [task EXCEPT ![o] = w] /\ op' = [op EXCEPT ![o] = q]
  BY <1>1 DEF Run
<1>3. r \in ResultRecord /\ Fresh(o) /\ stage \in Stages
  BY <1>1 DEF HostInv, SettledOnce, ToRun, Stages
<1>4. w \in [stage : Stages, result : ResultRecord] /\ w.stage = stage
  BY <1>3, RanType
<1>5. q \in OpRecord /\ q.released <= 1 /\ (q.held => q.released = 0)
  BY <1>3, SettleFresh DEF HostInv
<1>6. w.stage \notin ToRun /\ w.stage # "none" /\ w.stage # "entered"
      /\ (w.stage = "unlisted" => task[o].stage = "submitted")
  BY <1>4 DEF ToRun
<1>. HIDE DEF w, q, stage
<1>7. Quieting'
  <2>1. CASE task[o].stage = "submitted"
    BY <1>1, <2>1, CallbackQuiet
  <2>2. CASE task[o].stage = "listed"
    <3>1. \A i \in Ops : task'[i] = IF i = o THEN w ELSE task[i]
      BY <1>1, <1>2
    <3>2. InCallback' \subseteq InCallback /\ InFlight' \subseteq InFlight
      BY <1>6, <2>2, <3>1 DEF InCallback, InFlight, ToRun
    <3>. QED  BY <1>1, <3>2 DEF HostInv, Quieting
  <2>. QED  BY <1>1, <2>1, <2>2
<1>. QED  BY <1>1, <1>2, <1>4, <1>5, <1>6, <1>7, CompletionKeeps

-----------------------------------------------------------------------------
(* Teardown. *)

\* The bridge moves on and nothing else does, but for what destroy reports.
LEMMA LifeKeeps ==
    ASSUME HostInv, NEW life \in Lives, bridge' = [bridge EXCEPT !.life = life],
           host' \in [epoch : Nat, news : SUBSET Nat, owes : SUBSET Ops, stray : BOOLEAN,
                      destroyed : BOOLEAN],
           op' = op, task' = task, seat' = seat, Quieting'
    PROVE  HostInv'
<1>1. /\ bridge' \in BridgeRecord /\ bridge'.next = bridge.next /\ bridge'.next > 0
      /\ bridge'.registry = bridge.registry /\ bridge'.epoch = bridge.epoch
  BY DEF HostInv, BridgeTypes, BridgeRecord
<1>2. BridgeTypes'
  BY <1>1 DEF HostInv, BridgeTypes
<1>3. SeatTypes' /\ SettledOnce' /\ LeasesOnce' /\ EpochsGrow'
  BY <1>1 DEF HostInv, SeatTypes, SettledOnce, LeasesOnce, EpochsGrow, Fresh
<1>. QED  BY <1>2, <1>3 DEF HostInv

\* Stopping the host keeps the invariant.
LEMMA StopKeeps ==
    ASSUME HostInv, Stop
    PROVE  HostInv'
<1>1. /\ bridge.life = "live" /\ seat.pc = "idle" /\ bridge' = [bridge EXCEPT !.life = "stopping"]
      /\ host' = host /\ op' = op /\ task' = task /\ seat' = seat
  BY DEF Stop, Over, At
<1>2. bridge'.life = "stopping"
  BY <1>1 DEF HostInv, BridgeTypes, BridgeRecord
<1>3. Quieting'
  BY <1>1, <1>2 DEF HostInv, Quieting
<1>4. host' \in [epoch : Nat, news : SUBSET Nat, owes : SUBSET Ops, stray : BOOLEAN,
                 destroyed : BOOLEAN]
  BY <1>1 DEF HostInv, BridgeTypes
<1>. QED  BY <1>1, <1>3, <1>4, LifeKeeps DEF Lives

\* destroy succeeds only when the host owes no callback and none is under way.
LEMMA DestroyKeeps ==
    ASSUME HostInv, Destroy
    PROVE  HostInv'
<1>. DEFINE H == [epoch : Nat, news : SUBSET Nat, owes : SUBSET Ops, stray : BOOLEAN,
                  destroyed : BOOLEAN]
            d == host.owes \cup InCallback \cup Leased = {}
<1>1. /\ bridge.life = "stopping" /\ bridge' = [bridge EXCEPT !.life = "stopped"]
      /\ host' = [host EXCEPT !.destroyed = d]
      /\ op' = op /\ task' = task /\ seat' = seat /\ host \in H
  BY DEF Destroy, HostInv, BridgeTypes
<1>2. bridge'.life = "stopped"
  BY <1>1 DEF HostInv, BridgeTypes, BridgeRecord
<1>3. d \in BOOLEAN /\ (d => host.owes = {} /\ InCallback = {})
  OBVIOUS
<1>. HIDE DEF d
<1>4. /\ host' \in H /\ host'.destroyed = d /\ host'.owes = host.owes
      /\ host'.stray = host.stray
  BY <1>1, <1>3
<1>5. seat.pc = "idle" /\ host.stray = FALSE
  BY <1>1 DEF HostInv, Quieting, BridgeTypes
<1>6. Quieting'
  BY <1>1, <1>2, <1>3, <1>4, <1>5 DEF Quieting, InCallback
<1>. QED  BY <1>1, <1>4, <1>6, LifeKeeps DEF Lives

\* What is still registered is settled as cancelled, for the first time.
LEMMA DetachKeeps ==
    ASSUME HostInv, Detach
    PROVE  HostInv'
<1>. DEFINE q(o) == Fulfilled(op[o], Result("ERR", "none", 0))
<1>1. /\ bridge.life = "stopped" /\ host' = host /\ task' = task /\ seat' = seat
      /\ bridge' = [bridge EXCEPT !.life = "detached", !.registry = {}]
      /\ op' = [o \in Ops |-> IF o \in bridge.registry THEN q(o) ELSE op[o]]
      /\ op \in [Ops -> OpRecord] /\ bridge \in BridgeRecord
  BY DEF Detach, HostInv, BridgeTypes
<1>2. \A o \in Ops : o \in bridge.registry =>
        /\ q(o) \in OpRecord /\ q(o).released <= 1 /\ (q(o).held => q(o).released = 0)
        /\ task[o].stage = "none"
  BY SettleFresh, CancelResult DEF HostInv, SettledOnce
<1>3. /\ bridge' \in BridgeRecord /\ bridge'.next = bridge.next /\ bridge'.registry = {}
      /\ bridge'.epoch = bridge.epoch /\ bridge'.life = "detached"
  BY <1>1 DEF BridgeRecord, Lives
<1>. HIDE DEF q
<1>4. op' \in [Ops -> OpRecord]
  BY <1>1, <1>2
<1>5. BridgeTypes'
  BY <1>1, <1>3, <1>4 DEF HostInv, BridgeTypes
<1>6. SeatTypes' /\ EpochsGrow'
  BY <1>1, <1>3 DEF HostInv, SeatTypes, EpochsGrow
<1>7. LeasesOnce'
  BY <1>1, <1>2 DEF HostInv, LeasesOnce
<1>8. SettledOnce'
  BY <1>1, <1>2, <1>3 DEF HostInv, SettledOnce, Fresh, ToRun
<1>9. Quieting'
  BY <1>1, <1>3 DEF HostInv, Quieting, InCallback
<1>. QED  BY <1>5, <1>6, <1>7, <1>8, <1>9 DEF HostInv

\* The bridge goes when no listed completion is left.
LEMMA DrainKeeps ==
    ASSUME HostInv, Drain
    PROVE  HostInv'
<1>1. /\ bridge.life = "detached" /\ Drained /\ bridge' = [bridge EXCEPT !.life = "gone"]
      /\ host' = host /\ op' = op /\ task' = task /\ seat' = seat
  BY DEF Drain
<1>2. bridge'.life = "gone"
  BY <1>1 DEF HostInv, BridgeTypes, BridgeRecord
<1>3. InCallback = {} => InFlight = {}
  BY <1>1 DEF Drained, InCallback, InFlight
<1>4. Quieting'
  BY <1>1, <1>2, <1>3 DEF HostInv, Quieting, InCallback, InFlight
<1>5. host' \in [epoch : Nat, news : SUBSET Nat, owes : SUBSET Ops, stray : BOOLEAN,
                 destroyed : BOOLEAN]
  BY <1>1 DEF HostInv, BridgeTypes
<1>. QED  BY <1>1, <1>4, <1>5, LifeKeeps DEF Lives

-----------------------------------------------------------------------------
\* The invariant holds initially.
LEMMA HostInvInit ==
    ASSUME Bounded, Init
    PROVE  HostInv
<1>1. /\ bridge = [next |-> 1, registry |-> {}, epoch |-> 2, life |-> "live", wedged |-> FALSE]
      /\ host = [epoch |-> 2, news |-> {1}, owes |-> {}, stray |-> FALSE, destroyed |-> FALSE]
      /\ op = [o \in Ops |-> NoOp] /\ task = [o \in Ops |-> NoTask] /\ seat = Seat
  BY DEF Init
<1>2. NoOp \in OpRecord /\ NoTask \in [stage : Stages, result : ResultRecord]
  BY DEF NoOp, NoTask, OpRecord, ResultRecord, Result, Stages
<1>3. BridgeTypes
  BY <1>1, <1>2 DEF BridgeTypes, BridgeRecord, Lives
<1>4. Seat \in SeatRecord /\ Seat.pc = "idle" /\ Seat.got = [k \in Kinds |-> 0]
  <2>1. "none" \in Results
    BY DEF Results
  <2>2. Seat \in SeatRecord
    BY <2>1, EmptySeat
  <2>. QED  BY <2>2 DEF Seat
<1>5. SeatTypes
  BY <1>1, <1>4 DEF SeatTypes, Waiting
<1>6. SettledOnce /\ LeasesOnce
  BY <1>1 DEF SettledOnce, LeasesOnce, NoOp, NoTask, ToRun
<1>7. EpochsGrow
  BY <1>1, <1>4 DEF EpochsGrow, Kinds
<1>8. Quieting
  BY <1>1, <1>4 DEF Quieting
<1>. QED  BY <1>3, <1>5, <1>6, <1>7, <1>8 DEF HostInv

\* Every step keeps the invariant.
LEMMA HostInvNext ==
    ASSUME Bounded, HostInv, [Next]_vars
    PROVE  HostInv'
<1>1. CASE UNCHANGED vars
  BY <1>1 DEF HostInv, BridgeTypes, SeatTypes, SettledOnce, LeasesOnce, EpochsGrow,
     Quieting, InCallback, InFlight, Fresh, vars
<1>2. CASE \E n \in 1..LastEpoch : handle_capabilities_changed(n)
  <2>1. PICK n : n \in Nat /\ handle_capabilities_changed(n)
    <3>1. PICK n \in 1..LastEpoch : handle_capabilities_changed(n)
      BY <1>2
    <3>2. n \in host.news /\ host.news \subseteq Nat
      BY <3>1 DEF handle_capabilities_changed, HostInv, BridgeTypes
    <3>. QED  BY <3>1, <3>2
  <2>. QED  BY <2>1, NewsKeeps
<1>3. CASE CallerStep
  BY <1>3, RegisterKeeps, SubmitKeeps, TakeKeeps, GiveUpKeeps, AbandonKeeps DEF CallerStep
<1>4. CASE \E o \in Ops : TaskStep(o)
  BY <1>4, HandOverKeeps, ListKeeps, RunKeeps DEF TaskStep
<1>5. CASE Teardown
  BY <1>5, StopKeeps, DestroyKeeps, DetachKeeps, DrainKeeps DEF Teardown
<1>6. CASE \E r \in Requests : Call(r)
  BY <1>6, CallKeeps
<1>7. CASE \E o \in Ops : \E r \in Answers(o) : Complete(o, r)
  BY <1>7, CompleteKeeps
<1>8. CASE \E o \in Ops : Repeat(o)
  BY <1>8, RepeatKeeps
<1>. QED
  BY <1>1, <1>2, <1>3, <1>4, <1>5, <1>6, <1>7, <1>8, RotateKeeps DEF Next

\* For any requests, any number of operations and rotations, however late, often
\* or in what order the host answers and announces: no lease is released twice or
\* under its consumer, no component is older than the epoch known when its
\* observation began, and a bridge that went after a successful destroy is left
\* by every completion (HostDispatcherBridge, AndroidHostAdapter).
THEOREM HostIsSafe ==
    ASSUME Bounded
    PROVE  Spec => [](LeasesOnce /\ NotOlderThanAsked /\ GoneIsQuiet)
<1>1. Init => HostInv
  BY HostInvInit
<1>2. HostInv /\ [Next]_vars => HostInv'
  BY HostInvNext
<1>3. HostInv => LeasesOnce /\ NotOlderThanAsked /\ GoneIsQuiet
  BY DEF HostInv, EpochsGrow, NotOlderThanAsked, Quieting, GoneIsQuiet
<1>. QED  BY <1>1, <1>2, <1>3, PTL DEF Spec

\* A callback for an operation that has been claimed changes nothing at all.
THEOREM RepeatedCallbackIsIdle ==
    ASSUME Bounded
    PROVE  Spec => [][\A o \in Ops : Repeat(o) => UNCHANGED vars]_vars
<1>1. Init => HostInv
  BY HostInvInit
<1>2. HostInv /\ [Next]_vars => HostInv'
  BY HostInvNext
<1>3. HostInv => \A o \in Ops : Repeat(o) => UNCHANGED vars
  BY RepeatKeeps
<1>. QED  BY <1>1, <1>2, <1>3, PTL DEF Spec

=============================================================================

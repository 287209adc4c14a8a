------------------------- MODULE ObservationPipeline -------------------------
(* ObservationPipeline::observe (src/observation/observation_pipeline.cpp):  *)
(* the components of an observation are captured by tasks of the executor,   *)
(* settled in turn until the deadline and a grace, checked against the       *)
(* topology's epoch and published; captures that outlast the grace are       *)
(* parked and drained later. The mutex is held from the first check to the   *)
(* return, so calls follow one another while captures of earlier calls may   *)
(* still run. Spans, skew, quality and statistics are left out; the sources  *)
(* and the display are external.                                             *)
EXTENDS Naturals, Sequences, FiniteSets

CONSTANTS Order,          \* the components, in the order they settle
          Rounds,         \* bound: the observations asked for, 1..n
          LastEpoch,      \* bound: the epochs of the display
          Sources,        \* the components with a configured source
          Wants,          \* what a request may ask: component -> required, optional, none
          FailOnMissing   \* config.fail_on_missing_required

VARIABLES call,           \* the observation under way, or the last one
          slot,           \* the capture of each round and component
          parked,         \* captures left behind: <<round, component>>
          display         \* the environment's epoch

vars == <<call, slot, parked, display>>

Components == {Order[k] : k \in DOMAIN Order}
Asked(c) == call.want[c] # "none"
None == [c \in Components |-> 0]
NoSlot == [state |-> "none", epoch |-> 0, from |-> 0, cancel |-> FALSE]
Slot(c) == slot[call.round][c]

NoCall == [pc |-> "idle", round |-> 0, want |-> [c \in Components |-> "none"], topology |-> 0,
           have |-> None, missing |-> {}, lost |-> {}, rejected |-> {}, settled |-> 0,
           cancelled |-> FALSE, late |-> FALSE, result |-> "none"]

Init ==
    /\ call = NoCall /\ parked = {} /\ display = 1
    /\ slot = [r \in Rounds |-> [c \in Components |-> NoSlot]]

At(pc) == call.pc = pc
Return(result) ==
    call' = IF result = "published" THEN [call EXCEPT !.pc = "idle", !.result = result]
            ELSE [NoCall EXCEPT !.round = call.round, !.result = result]

---------------------------------------------------------------------------
(* observe.                                                                  *)

\* Refused: cancelled, a required source missing, or no topology. Otherwise the
\* topology's epoch is the epoch of the observation.
observe(want) ==
    /\ At("idle") /\ call.round + 1 \in Rounds
    /\ LET fresh == [NoCall EXCEPT !.round = call.round + 1, !.want = want]
       IN  \/ call' = [fresh EXCEPT !.result = "error"]
           \/ /\ {c \in Components : want[c] = "required"} \subseteq Sources
              /\ call' = [fresh EXCEPT !.pc = "submit", !.topology = display]
    /\ UNCHANGED <<slot, parked, display>>

\* The requested captures go to the executor, which may reject any of them. A
\* source that is not configured is an empty function: its task fails.
SubmitCaptures ==
    /\ At("submit")
    /\ \E rejected \in SUBSET {c \in Components : Asked(c)} :
         /\ slot' = [slot EXCEPT ![call.round] =
                       [c \in Components |->
                          IF ~Asked(c) \/ c \in rejected THEN NoSlot
                          ELSE [NoSlot EXCEPT !.state = IF c \in Sources THEN "running" ELSE "done",
                                              !.from = display]]]
         /\ call' = [call EXCEPT !.rejected = rejected,
                       !.pc = IF call.cancelled \/ call.late THEN "unwind" ELSE "settle"]
    /\ UNCHANGED <<parked, display>>

\* A failed capture has no epoch, and one of another epoch is dropped.
Fits(c) == Slot(c).epoch = call.topology

\* consume_component; an absent component is a required or an optional miss.
Consumed(l, c) == [l EXCEPT !.have[c] = Slot(c).epoch]
Absent(l, c) ==
    IF l.want[c] = "required" THEN [l EXCEPT !.missing = @ \cup {c}]
    ELSE [l EXCEPT !.lost = @ \cup {c}]

\* The components settle in a fixed order.
Turn == Order[call.settled + 1]
Past(l) == [l EXCEPT !.settled = @ + 1]
Settling == call.pc \in {"settle", "unwind"} /\ call.settled < Len(Order)

\* Nothing was submitted: not asked, or rejected. Only an optional one is noted.
SettleNothing ==
    /\ Settling /\ Slot(Turn).state = "none"
    /\ call' = Past(IF call.want[Turn] = "optional" /\ At("settle") THEN Absent(call, Turn)
                    ELSE call)
    /\ UNCHANGED <<slot, parked, display>>

SettleReady ==
    /\ Settling /\ Slot(Turn).state = "done"
    /\ call' = Past(IF At("unwind") THEN call
                    ELSE IF Fits(Turn) THEN Consumed(call, Turn)
                    ELSE Absent(call, Turn))
    /\ slot' = [slot EXCEPT ![call.round][Turn] = NoSlot]
    /\ UNCHANGED <<parked, display>>

\* The deadline passed: the capture is asked to stop.
AskToStop ==
    /\ Settling /\ Slot(Turn).state = "running" /\ call.late /\ ~Slot(Turn).cancel
    /\ slot' = [slot EXCEPT ![call.round][Turn].cancel = TRUE]
    /\ UNCHANGED <<call, parked, display>>

\* The grace passed as well: the capture is parked.
Park ==
    /\ Settling /\ Slot(Turn).state = "running" /\ Slot(Turn).cancel
    /\ parked' = parked \cup {<<call.round, Turn>>}
    /\ call' = Past(IF At("unwind") THEN call ELSE Absent(call, Turn))
    /\ slot' = [slot EXCEPT ![call.round][Turn].from = 0]
    /\ UNCHANGED display

\* A cancelled observation is never a success; a required miss fails it.
Publish ==
    /\ call.pc \in {"settle", "unwind"} /\ call.settled = Len(Order)
    /\ Return(IF At("unwind") \/ call.cancelled THEN "error"
              ELSE IF FailOnMissing /\ call.missing # {} THEN "error"
              ELSE "published")
    /\ UNCHANGED <<slot, parked, display>>

CallStep ==
    SubmitCaptures \/ SettleNothing \/ SettleReady \/ AskToStop \/ Park \/ Publish

---------------------------------------------------------------------------
\* drain_pending, and the destructor's drain: what is ready is thrown away.
drain_pending ==
    /\ At("idle")
    /\ \E done \in {{p \in parked : slot[p[1]][p[2]].state = "done"}} :
         /\ done # {}
         /\ parked' = parked \ done
         /\ slot' = [r \in Rounds |-> [c \in Components |->
                       IF <<r, c>> \in done THEN NoSlot ELSE slot[r][c]]]
    /\ UNCHANGED <<call, display>>

\* A source ends: with a component of some moment since it started, or an error;
\* nobody asks which once it is parked.
Capture(r, c) ==
    /\ slot[r][c].state = "running"
    /\ \E epoch \in {0} \cup (IF <<r, c>> \in parked THEN {} ELSE slot[r][c].from..display) :
         slot' = [slot EXCEPT ![r][c] = [NoSlot EXCEPT !.state = "done", !.epoch = epoch]]
    /\ UNCHANGED <<call, parked, display>>

Expire == ~At("idle") /\ ~call.late /\ call' = [call EXCEPT !.late = TRUE]
          /\ UNCHANGED <<slot, parked, display>>
Cancel == ~At("idle") /\ ~call.cancelled /\ call' = [call EXCEPT !.cancelled = TRUE]
          /\ UNCHANGED <<slot, parked, display>>
Rotate == display < LastEpoch /\ display' = display + 1 /\ UNCHANGED <<call, slot, parked>>

Next ==
    \/ \E want \in Wants : observe(want)
    \/ CallStep \/ drain_pending \/ Expire \/ Cancel \/ Rotate
    \/ \E r \in Rounds, c \in Components : Capture(r, c)

---------------------------------------------------------------------------
\* What the published observation says is missing: evaluate_observation names the
\* required components it lacks, publishing the optional ones.
Named == {c \in Components : call.want[c] = "required" /\ call.have[c] = 0} \cup call.lost

TypeOK ==
    /\ call.round \in {0} \cup Rounds /\ call.settled \in 0..Len(Order)
    /\ parked \subseteq Rounds \X Components /\ display \in 1..LastEpoch

\* A published observation holds components of its own round and its topology's
\* epoch only, says of every requested component it lacks that it is missing, was
\* not cancelled, and, where a miss fails it, lacks a required component only when
\* the executor rejected the capture (observe, consume_component).
PublishedIsHonest ==
    call.result = "published" =>
      /\ ~call.cancelled
      /\ \A c \in Components : call.have[c] \in {0, call.topology}
      /\ \A c \in Components : Asked(c) /\ call.have[c] = 0 => c \in Named
      /\ FailOnMissing => \A c \in Components :
           call.want[c] = "required" /\ call.have[c] = 0 => c \in call.rejected

\* A capture is parked only while it runs or waits to be drained, and never
\* belongs to the observation under way that has yet to settle it (settle, drain).
ParkedAreStragglers ==
    \A p \in parked : /\ slot[p[1]][p[2]].state # "none"
                      /\ p[1] = call.round /\ ~At("idle") =>
                           \E k \in 1..call.settled : Order[k] = p[2]
=============================================================================

---------------------------- MODULE ModelGateway ----------------------------
(* ModelGateway::infer: routing over candidate profiles, retries, circuit    *)
(* breakers, the task's budget and the admission of late answers. The        *)
(* gateway runs one call at a time; the provider, the task's lifecycle, the  *)
(* cancellation of the call and time are around it.                          *)
(*                                                                           *)
(* BudgetLedger (model_budget.cpp) comes first: what one task holds reserved *)
(* for model calls, and what it has spent. Tokens are the output tokens: the *)
(* input's are counted alike, except that an estimate of them is not clamped *)
(* to its limit. One token costs one micro when it is priced. The gateway    *)
(* never closes its accounts, so closing one is left out.                    *)
EXTENDS Exchange, Naturals, Sequences, FiniteSets

CONSTANT MaxCounter   \* the largest value of a counter, 2^64 - 1 in the code

ASSUME MaxCounterAssumption == MaxCounter \in Nat \ {0}

Amount(requests, tokens, cost) == [requests |-> requests, tokens |-> tokens, cost |-> cost]
Nothing == Amount(0, 0, 0)
Amounts == [requests : 0..MaxCounter, tokens : 0..MaxCounter, cost : 0..MaxCounter]

NewAccount == [reserved |-> Nothing, spent |-> 0]

\* Unsigned arithmetic as the ledger does it: neither wraps.
SaturatingAdd(a, b) == IF a + b > MaxCounter THEN MaxCounter ELSE a + b
Less(a, b) == IF a > b THEN a - b ELSE 0

Plus(a, b) == [f \in {"requests", "tokens", "cost"} |-> SaturatingAdd(a[f], b[f])]
Minus(a, b) == [f \in {"requests", "tokens", "cost"} |-> Less(a[f], b[f])]

\* A limit of zero is no limit.
Within(amount, limits) ==
    \A f \in {"requests", "tokens", "cost"} : limits[f] = 0 \/ amount[f] <= limits[f]

Overflows(a, b) == \E f \in {"requests", "tokens", "cost"} : a[f] + b[f] > MaxCounter

(* reserve: a Task budget limits everything the task holds, a Request budget *)
(* only this call. The amount a Task reservation returns is the whole of     *)
(* what the task then holds.                                                 *)
CheckedAmount(account, budget, estimate) ==
    IF budget.scope = "Request" THEN estimate ELSE Plus(account.reserved, estimate)

MayReserve(account, budget, estimate) ==
    /\ budget.scope = "Request" =>
         budget.limits.requests = 1 /\ budget.limits.tokens # 0 /\ estimate.requests = 1
    /\ budget.scope = "Task" => ~Overflows(account.reserved, estimate)
    /\ Within(CheckedAmount(account, budget, estimate), budget.limits)

reserve(account, estimate) == [account EXCEPT !.reserved = Plus(@, estimate)]

Reservation(account, budget, estimate) == CheckedAmount(account, budget, estimate)

(* reconcile: what the provider reported of a response. Inconsistent means   *)
(* more cached or reasoning tokens than tokens.                              *)
Usages ==
    [quality : {"Complete", "Partial"}, tokens : 0..2]
      \cup [quality : {"Missing", "Inconsistent"}, tokens : {0}]

Quality(usage, priced) ==
    CASE usage.quality = "Missing" -> "MissingUsage"
      [] usage.quality # "Missing" /\ ~priced -> "UnknownPrice"
      [] usage.quality \in {"Inconsistent", "Partial"} /\ priced -> "PartialUsage"
      [] usage.quality = "Complete" /\ priced -> "Reconciled"

\* Nothing at all is released or charged.
HeldWhole(usage, priced) == usage.quality \in {"Missing", "Inconsistent"} \/ ~priced

reconcile(account, usage, priced) ==
    IF HeldWhole(usage, priced)
    THEN account
    ELSE [account EXCEPT
            !.spent = SaturatingAdd(@, usage.tokens),
            !.reserved = Minus(@, Amount(1, usage.tokens,
                IF Quality(usage, priced) = "Reconciled" THEN usage.tokens ELSE 0))]

release(account, reservation) == [account EXCEPT !.reserved = Minus(@, reservation)]

-----------------------------------------------------------------------------
(* The gateway. *)

CONSTANTS
    Profiles,        \* the registered profiles, in registration order
    MaxAttempts,     \* RetryBudget::max_attempts, per candidate
    TotalBudget,     \* RetryBudget::total_budget, in delays
    FailuresToOpen,  \* CircuitConfig::consecutive_failures_to_open
    SuccessesToClose,\* CircuitConfig::consecutive_successes_to_close
    RequirePrice,    \* ModelGatewayConfig::require_known_price
    Requests,        \* the requests of one task
    MaxCalls,        \* bound on calls
    MaxEpoch         \* bound on the task's epoch

VARIABLES
    circuits,   \* per profile
    account,    \* the task's account in the ledger
    gate,       \* the admission gate, where one is set, and its entry of the task
    cancelled,  \* the call's context is cancelled
    call,       \* the call in progress, or the last one
    issued,     \* calls so far
    audit       \* ghost: responses whose reservation is held whole for audit

vars == <<circuits, account, gate, cancelled, call, issued, audit>>

ProfileSet == {Profiles[i] : i \in DOMAIN Profiles}

\* A request by its budget, its estimated tokens, its task epoch, the profiles
\* that satisfy it and whether the price table knows the first one's model.
Request(scope, limits, tokens, epoch, eligible, priced) ==
    [budget |-> [scope |-> scope, limits |-> limits], tokens |-> tokens, epoch |-> epoch,
     eligible |-> eligible, priced |-> priced]

\* A call before it began.
NoCall ==
    [pc |-> "idle", request |-> Request("Task", Nothing, 0, 0, {}, FALSE),
     reservation |-> Nothing, index |-> 0, attempt |-> 0, total |-> 0, elapsed |-> 0,
     delay |-> 0, sent |-> {}, wanted |-> TRUE, admitted |-> FALSE]

NewCircuit == [state |-> "Unknown", failures |-> 0, successes |-> 0]

Init ==
    /\ circuits = [p \in ProfileSet |-> NewCircuit]
    /\ account = NewAccount
    /\ gate \in [set : BOOLEAN, epoch : {0}, active : {FALSE}]
    /\ cancelled = FALSE
    /\ call = NoCall
    /\ issued = 0
    /\ audit = 0

\* A gateway without a gate admits every task.
admit(epoch) == gate.set => gate.active /\ gate.epoch = epoch

---------------------------------------------------------------------------
(* ProviderCircuit. Nothing moves an open circuit: Probing is never entered. *)

record_success(c) ==
    LET n == IF c.successes < SuccessesToClose THEN c.successes + 1 ELSE c.successes
    IN  [state |-> CASE c.state \in {"Healthy", "OpenCircuit"} -> c.state
                     [] c.state \in {"Unknown", "Degraded"} ->
                          IF n >= SuccessesToClose THEN "Healthy" ELSE "Degraded",
         failures |-> 0, successes |-> n]

record_failure(c) ==
    [state |-> IF c.failures + 1 >= FailuresToOpen THEN "OpenCircuit" ELSE "Degraded",
     failures |-> c.failures + 1, successes |-> 0]

admits_requests(c) == c.state # "OpenCircuit"

---------------------------------------------------------------------------
(* ProviderSupervisor::evaluate: GiveUp, RetryNow or RetryAfter a delay.     *)

\* Failures by which the provider itself asks for a later attempt: RateLimited,
\* which stands for ProviderOverloaded too.
Paced(f) == f.code = "RateLimited"

GiveUp == [action |-> "GiveUp", delay |-> 0]

Exhausted(attempts, elapsed, circuit) ==
    attempts >= MaxAttempts \/ elapsed >= TotalBudget \/ ~admits_requests(circuit)

evaluate_ResendsWritten(f, wrote, delay, attempts, elapsed, circuit) ==
    IF Exhausted(attempts, elapsed, circuit) \/ ~f.retryable
    THEN GiveUp ELSE [action |-> "RetryNow", delay |-> 0]

\* Request bytes that left are resent only when the provider asked for it.
evaluate(f, wrote, delay, attempts, elapsed, circuit) ==
    IF Exhausted(attempts, elapsed, circuit) \/ f.code = "AmbiguousCompletion"
    THEN GiveUp
    ELSE IF ~wrote
         THEN IF f.retryable THEN [action |-> "RetryNow", delay |-> 0] ELSE GiveUp
         ELSE IF Paced(f) /\ elapsed + delay <= TotalBudget
              THEN [action |-> "RetryAfter", delay |-> delay] ELSE GiveUp

---------------------------------------------------------------------------
(* infer. *)

candidates(r) == SelectSeq(Profiles, LAMBDA p : p \in r.eligible)

\* A profile is registered once, so it is a candidate once; estimates and epochs
\* are unsigned numbers.
ASSUME RequestsAssumption ==
    \A r \in Requests :
        /\ candidates(r) \in Seq(ProfileSet)
        /\ \A i, j \in DOMAIN candidates(r) : candidates(r)[i] = candidates(r)[j] => i = j
        /\ r.tokens \in 0..MaxCounter /\ r.budget.limits.tokens \in 0..MaxCounter
        /\ r.epoch \in Nat
        /\ TotalBudget \in Nat /\ MaxEpoch \in Nat

\* The output is estimated by its limit where one is set below it.
EstimatedTokens(r) ==
    LET limit == r.budget.limits.tokens
    IN  IF limit # 0 /\ limit < r.tokens THEN limit ELSE r.tokens

Estimate(r) ==
    Amount(1, EstimatedTokens(r), IF r.priced THEN EstimatedTokens(r) ELSE 0)

At(pc) == call.pc = pc
Provider == candidates(call.request)[call.index]

\* The error a call returns with is not kept.
Returned == NoCall

infer(r) ==
    /\ At("idle") /\ issued < MaxCalls
    /\ issued' = issued + 1
    /\ cancelled' = FALSE
    /\ IF /\ admit(r.epoch) /\ r.eligible # {} /\ (RequirePrice => r.priced)
          /\ MayReserve(account, r.budget, Estimate(r))
       THEN /\ account' = reserve(account, Estimate(r))
            /\ call' = [NoCall EXCEPT !.pc = "candidate", !.request = r, !.index = 1,
                 !.reservation = Reservation(account, r.budget, Estimate(r))]
       ELSE call' = Returned /\ UNCHANGED account
    /\ UNCHANGED <<circuits, gate, audit>>

\* The head of the candidate loop. When the last candidates are skipped because
\* their circuits are open, the call returns and its reservation stays.
TryCandidate ==
    /\ At("candidate")
    /\ call' =
         CASE call.index > Len(candidates(call.request)) -> Returned
           [] call.index <= Len(candidates(call.request)) ->
                IF admits_requests(circuits[Provider])
                THEN [call EXCEPT !.pc = "attempt", !.attempt = 0]
                ELSE [call EXCEPT !.index = @ + 1]
    /\ UNCHANGED <<circuits, account, gate, cancelled, issued, audit>>

\* provider->infer begins.
Send ==
    /\ At("attempt")
    /\ call' = [call EXCEPT !.pc = "provider", !.attempt = @ + 1, !.total = @ + 1]
    /\ UNCHANGED <<circuits, account, gate, cancelled, issued, audit>>

\* The provider answers; its usage is reconciled whether or not the answer is
\* still wanted.
Respond(usage, priced) ==
    /\ At("provider")
    /\ circuits' = [circuits EXCEPT ![Provider] = record_success(@)]
    /\ account' = reconcile(account, usage, priced)
    /\ audit' = IF HeldWhole(usage, priced) THEN audit + 1 ELSE audit
    /\ call' = [call EXCEPT !.pc = "answered", !.wanted = admit(call.request.epoch)]
    /\ UNCHANGED <<gate, cancelled, issued>>

Settle_Unchecked ==
    /\ At("answered")
    /\ call' = [NoCall EXCEPT !.admitted = TRUE, !.wanted = call.wanted]
    /\ UNCHANGED <<circuits, account, gate, cancelled, issued, audit>>

\* The second look at the gate, after parsing.
Settle ==
    /\ At("answered")
    /\ call' = [NoCall EXCEPT !.admitted = admit(call.request.epoch), !.wanted = call.wanted]
    /\ UNCHANGED <<circuits, account, gate, cancelled, issued, audit>>

\* The codes infer and evaluate tell apart keep their names.
Told(f) ==
    IF f.code \in {"AmbiguousCompletion", "RateLimited", "ModelCancelled"} THEN f
    ELSE Failure(IF f.code = "ProviderOverloaded" THEN "RateLimited" ELSE "Other", f.retryable)

\* How an attempt may fail, whether its trace says that bytes of the request
\* left, and whether they did: local refusals; a failed upload before the
\* request; the transport's guard, which merges no trace; the stages of the
\* exchange, after a redirect with the bytes of the first hop gone; and answers
\* that are no response.
AttemptFailures ==
    LET Of(failures, wrote, left) ==
            {[failure |-> Told(f), wrote |-> wrote, left |-> left] : f \in failures}
        Ends(s) == StageFailures(s)
                     \cup (IF Waiting(s) THEN {Cancelled, StageDeadline, TotalDeadline} ELSE {})
    IN  Of({Failure("InvalidModelRequest", FALSE), Failure("ModelResourceExhausted", TRUE),
            Failure("ModelResourceExhausted", FALSE), Cancelled}, FALSE, FALSE)
          \cup Of((UNION {Ends(s) : s \in Stages}) \cup StatusFailures, FALSE, FALSE)
          \cup Of({TotalDeadline}, FALSE, TRUE)
          \cup (UNION {Of(Ends(s), Wrote(s), Wrote(s)) \cup Of(Ends(s), TRUE, TRUE) : s \in Stages})
          \cup Of(StatusFailures \cup StreamFailures, TRUE, TRUE)

Ambiguous(f) == f.code = "AmbiguousCompletion"

fallback_eligible(f, elapsed) ==
    /\ f.retryable /\ ~Ambiguous(f) /\ f.code # "ModelCancelled"
    /\ call.index < Len(candidates(call.request))
    /\ elapsed < TotalBudget

\* What a call that ends without a response gives back.
to_release(f) == IF Ambiguous(f) THEN [call.reservation EXCEPT !.cost = 0] ELSE call.reservation

\* An attempt fails after some time; the circuit counts it and the supervisor
\* decides: the same provider again, the next candidate, or the caller.
AttemptFails(a, delay, took) ==
    LET f == a.failure
        circuit == record_failure(circuits[Provider])
        elapsed == IF call.elapsed + took > TotalBudget THEN TotalBudget ELSE call.elapsed + took
        decision == evaluate(f, a.wrote, delay, call.attempt, elapsed, circuit)
        failed == [call EXCEPT !.elapsed = elapsed,
                     !.sent = IF a.left /\ ~Paced(f) THEN @ \cup {Provider} ELSE @]
    IN  /\ At("provider")
        /\ f.code = "ModelCancelled" => cancelled
        /\ circuits' = [circuits EXCEPT ![Provider] = circuit]
        /\ \/ /\ decision.action # "GiveUp"
              /\ call' = [failed EXCEPT !.delay = decision.delay,
                            !.pc = IF decision.delay > 0 THEN "backoff" ELSE "attempt"]
              /\ UNCHANGED account
           \/ /\ decision.action = "GiveUp" /\ fallback_eligible(f, elapsed)
              /\ call' = [failed EXCEPT !.pc = "candidate", !.index = @ + 1]
              /\ UNCHANGED account
           \/ /\ decision.action = "GiveUp" /\ ~fallback_eligible(f, elapsed)
              /\ call' = Returned
              /\ account' = release(account, to_release(f))
        /\ UNCHANGED <<gate, cancelled, issued, audit>>

\* An exception leaves provider->infer and infer, when the transport lost its worker
\* for instance: the circuit counts nothing and the reservation stays.
AttemptThrows ==
    /\ At("provider")
    /\ call' = Returned
    /\ UNCHANGED <<circuits, account, gate, cancelled, issued, audit>>

\* The wait before a retry; a cancelled call returns from it and its
\* reservation stays.
Backoff ==
    /\ At("backoff")
    /\ call' = IF cancelled THEN Returned
               ELSE [call EXCEPT !.pc = "attempt", !.elapsed = @ + call.delay, !.delay = 0]
    /\ UNCHANGED <<circuits, account, gate, cancelled, issued, audit>>

---------------------------------------------------------------------------
(* Around the call. *)

Cancel ==
    /\ ~At("idle") /\ ~cancelled
    /\ cancelled' = TRUE
    /\ UNCHANGED <<circuits, account, gate, call, issued, audit>>

\* SimpleAdmissionGate: deactivate, and activate or advance, which do the same
\* and take any epoch. An answer whose task is activated again in its epoch
\* before it was handed on is wanted again.
Deactivate ==
    /\ gate.set /\ gate.active
    /\ gate' = [gate EXCEPT !.active = FALSE]
    /\ UNCHANGED <<circuits, account, cancelled, call, issued, audit>>

Activate(epoch) ==
    /\ gate.set
    /\ gate' = [gate EXCEPT !.epoch = epoch, !.active = TRUE]
    /\ call' = [call EXCEPT !.wanted = @ \/ (At("answered") /\ epoch = call.request.epoch)]
    /\ UNCHANGED <<circuits, account, cancelled, issued, audit>>

CallStep ==
    \/ TryCandidate \/ Send \/ Settle \/ Backoff \/ AttemptThrows
    \/ \E usage \in Usages, priced \in BOOLEAN : Respond(usage, priced)
    \/ \E a \in AttemptFailures, delay, took \in 0..1 : AttemptFails(a, delay, took)

Next ==
    \/ CallStep \/ Cancel \/ Deactivate
    \/ \E epoch \in 0..MaxEpoch : Activate(epoch)
    \/ \E r \in Requests : infer(r)

Spec == Init /\ [][Next]_vars

---------------------------------------------------------------------------
(* What holds. *)

TypeOK ==
    /\ circuits \in [ProfileSet -> [state : {"Unknown", "Healthy", "Degraded", "OpenCircuit"},
                                    failures : 0..FailuresToOpen, successes : 0..SuccessesToClose]]
    /\ account.reserved \in Amounts /\ account.spent \in 0..MaxCounter
    /\ gate \in [set : BOOLEAN, epoch : 0..MaxEpoch, active : BOOLEAN]
    /\ cancelled \in BOOLEAN
    /\ call.pc \in {"idle", "candidate", "attempt", "provider", "answered", "backoff"}
    /\ call.attempt <= MaxAttempts /\ call.total <= MaxAttempts * Len(Profiles)
    /\ call.elapsed <= TotalBudget
    /\ issued \in 0..MaxCalls /\ audit \in 0..MaxCalls

\* A request whose bytes left the process goes to the same provider again only
\* when that provider answered with a rate limit or an overload (evaluate).
NoBlindResend == [][call'.total > call.total => Provider \notin call.sent]_vars

\* From its reservation until its response or its end, through every retry and
\* fallback, a call is covered by what its task holds (infer).
RunningIsReserved ==
    call.pc \in {"candidate", "attempt", "provider", "backoff"} =>
        \A f \in {"requests", "tokens", "cost"} :
            account.reserved[f] >= Estimate(call.request)[f]

\* An answer that arrives while its task is paused, cancelled or in another epoch
\* is handed on as admitted only when the task is activated again in the epoch of
\* the request before, however the gate moved on the way (infer).
LateAnswerNotAdmitted == call.admitted => call.wanted

\* "Missing usage keeps the reservation and flags an audit instead of inventing
\* a zero cost" (model_budget.hpp, BudgetLedger).
AuditStaysHeld == account.reserved.requests >= audit
=============================================================================

------------------------- MODULE ModelGatewayProofs -------------------------
(* What a call of the model gateway keeps for every set of profiles and      *)
(* requests, every budget and any number of attempts and epochs.             *)
EXTENDS ModelGateway, TLAPS

Pcs == {"idle", "candidate", "attempt", "provider", "answered", "backoff"}
Trying == {"attempt", "provider", "backoff"}
Running == {"candidate"} \cup Trying

CallRecord ==
    [pc : Pcs, request : Requests \cup {NoCall.request}, reservation : Amounts, index : Nat,
     attempt : Nat, total : Nat, elapsed : Nat, delay : Nat, sent : SUBSET ProfileSet,
     wanted : BOOLEAN, admitted : BOOLEAN]

Types ==
    /\ account \in [reserved : Amounts, spent : 0..MaxCounter]
    /\ gate \in [set : BOOLEAN, epoch : Nat, active : BOOLEAN]
    /\ call \in CallRecord
    /\ call.pc # "idle" => call.request \in Requests

\* An answer nobody wants would still be refused by the gate.
LateUnwanted ==
    /\ call.pc = "answered" /\ ~call.wanted => ~admit(call.request.epoch)
    /\ call.admitted => call.wanted
    /\ call.pc # "idle" => call.admitted = FALSE

\* The providers that may have the request are candidates the call has left
\* behind.
SentBehind ==
    /\ call.pc \in Running =>
         \A p \in call.sent : \E k \in DOMAIN candidates(call.request) :
             k < call.index /\ p = candidates(call.request)[k]
    /\ call.pc \in Trying => call.index \in DOMAIN candidates(call.request)
    /\ call.pc \in Running => call.index > 0

CallInv == Types /\ LateUnwanted /\ SentBehind /\ RunningIsReserved

-----------------------------------------------------------------------------
(* The ledger's arithmetic. *)

\* Neither sum nor difference leaves the range of a counter, a sum is no less
\* than its parts, and nothing is reserved that was not asked for.
LEMMA AmountsClosed ==
    ASSUME NEW x \in Amounts, NEW y \in Amounts
    PROVE  /\ Plus(x, y) \in Amounts /\ Minus(x, y) \in Amounts
           /\ \A f \in {"requests", "tokens", "cost"} : Plus(x, y)[f] >= y[f]
<1>1. /\ x.requests \in 0..MaxCounter /\ x.tokens \in 0..MaxCounter /\ x.cost \in 0..MaxCounter
      /\ y.requests \in 0..MaxCounter /\ y.tokens \in 0..MaxCounter /\ y.cost \in 0..MaxCounter
  BY DEF Amounts
<1>2. \A a, b \in 0..MaxCounter : /\ SaturatingAdd(a, b) \in 0..MaxCounter
                                  /\ SaturatingAdd(a, b) >= b
                                  /\ Less(a, b) \in 0..MaxCounter
  BY MaxCounterAssumption DEF SaturatingAdd, Less
<1>3. Plus(x, y) = [requests |-> SaturatingAdd(x.requests, y.requests),
                    tokens |-> SaturatingAdd(x.tokens, y.tokens),
                    cost |-> SaturatingAdd(x.cost, y.cost)]
  BY DEF Plus
<1>4. Minus(x, y) = [requests |-> Less(x.requests, y.requests),
                     tokens |-> Less(x.tokens, y.tokens), cost |-> Less(x.cost, y.cost)]
  BY DEF Minus
<1>. QED  BY <1>1, <1>2, <1>3, <1>4 DEF Amounts

\* Taking anything from what is held leaves an amount.
LEMMA MinusType ==
    ASSUME NEW x \in Amounts, NEW y, y.requests \in Nat, y.tokens \in Nat, y.cost \in Nat
    PROVE  Minus(x, y) \in Amounts
<1>1. x.requests \in 0..MaxCounter /\ x.tokens \in 0..MaxCounter /\ x.cost \in 0..MaxCounter
  BY DEF Amounts
<1>2. \A n \in 0..MaxCounter, k \in Nat : Less(n, k) \in 0..MaxCounter
  BY MaxCounterAssumption DEF Less
<1>3. Minus(x, y) = [requests |-> Less(x.requests, y.requests),
                     tokens |-> Less(x.tokens, y.tokens), cost |-> Less(x.cost, y.cost)]
  BY DEF Minus
<1>4. /\ Less(x.requests, y.requests) \in 0..MaxCounter
      /\ Less(x.tokens, y.tokens) \in 0..MaxCounter
      /\ Less(x.cost, y.cost) \in 0..MaxCounter
  BY ZenonT(60), <1>1, <1>2
<1>. QED  BY <1>3, <1>4 DEF Amounts

\* What a response reports moves the account inside its type.
LEMMA ReconcileType ==
    ASSUME NEW a \in [reserved : Amounts, spent : 0..MaxCounter], NEW usage \in Usages,
           NEW priced
    PROVE  reconcile(a, usage, priced) \in [reserved : Amounts, spent : 0..MaxCounter]
<1>. DEFINE cost == IF Quality(usage, priced) = "Reconciled" THEN usage.tokens ELSE 0
            used == Amount(1, usage.tokens, cost)
<1>1. usage.tokens \in 0..2
  BY DEF Usages
<1>2. used.requests \in Nat /\ used.tokens \in Nat /\ used.cost \in Nat
  BY <1>1 DEF Amount
<1>. HIDE DEF used
<1>3. Minus(a.reserved, used) \in Amounts
  BY <1>2, MinusType
<1>4. SaturatingAdd(a.spent, usage.tokens) \in 0..MaxCounter
  BY <1>1, MaxCounterAssumption DEF SaturatingAdd
<1>5. reconcile(a, usage, priced) = IF HeldWhole(usage, priced) THEN a
        ELSE [a EXCEPT !.spent = SaturatingAdd(@, usage.tokens), !.reserved = Minus(@, used)]
  BY DEF reconcile, used
<1>. QED  BY ZenonT(60), <1>3, <1>4, <1>5

\* An estimate is an amount.
LEMMA EstimateType == \A r \in Requests : Estimate(r) \in Amounts
<1>1. \A r \in Requests : EstimatedTokens(r) \in 0..MaxCounter
  BY RequestsAssumption, MaxCounterAssumption DEF EstimatedTokens
<1>. QED  BY <1>1, MaxCounterAssumption DEF Estimate, Amount, Amounts

\* A failure after which bytes left without the trace saying so is the guard's
\* deadline, which is not retried.
LEMMA SilentLoss ==
    ASSUME NEW a \in AttemptFailures
    PROVE  a.wrote = a.left \/ a.failure.retryable = FALSE
<1>. DEFINE Of(failures, wrote, left) ==
              {[failure |-> Told(f), wrote |-> wrote, left |-> left] : f \in failures}
            Ends(s) == StageFailures(s)
                         \cup (IF Waiting(s) THEN {Cancelled, StageDeadline, TotalDeadline} ELSE {})
<1>1. \A F, w : \A x \in Of(F, w, w) : x.wrote = x.left
  OBVIOUS
<1>2. \A x \in Of({TotalDeadline}, FALSE, TRUE) : x.failure.retryable = FALSE
  BY DEF Told, TotalDeadline, Failure
<1>3. \/ \E F : a \in Of(F, FALSE, FALSE)
      \/ a \in Of({TotalDeadline}, FALSE, TRUE)
      \/ \E s \in Stages : \/ a \in Of(Ends(s), Wrote(s), Wrote(s))
                          \/ a \in Of(Ends(s), TRUE, TRUE)
      \/ a \in Of(StatusFailures \cup StreamFailures, TRUE, TRUE)
  BY Zenon DEF AttemptFailures
<1>. HIDE DEF Of, Ends
<1>. QED  BY Zenon, <1>1, <1>2, <1>3

-----------------------------------------------------------------------------
(* The invariant. *)

\* Before the first call nothing is reserved and nobody waits.
LEMMA InitInvariant == Init => CallInv
<1>. SUFFICES ASSUME Init PROVE CallInv
  OBVIOUS
<1>1. gate \in [set : BOOLEAN, epoch : Nat, active : BOOLEAN]
  <2>1. gate \in [set : BOOLEAN, epoch : {0}, active : {FALSE}]
    BY DEF Init
  <2>2. 0 \in Nat
    OBVIOUS
  <2>. QED  BY <2>1, <2>2, ZenonT(60)
<1>2. call = NoCall /\ account = NewAccount
  BY DEF Init
<1>. QED  BY SMTT(60), <1>1, <1>2, MaxCounterAssumption
     DEF CallInv, Types, LateUnwanted, SentBehind, RunningIsReserved, NewAccount, NoCall,
         Nothing, Amount, Amounts, CallRecord, Pcs, Trying, Running, Request

\* A call that returns, and one that stays where no request can be sent, keep
\* the invariant whatever they do to the account.
LEMMA IdleStep ==
    ASSUME CallInv, call' = NoCall, gate' = gate,
           account' \in [reserved : Amounts, spent : 0..MaxCounter]
    PROVE  CallInv'
  BY MaxCounterAssumption
     DEF CallInv, Types, LateUnwanted, SentBehind, RunningIsReserved, NoCall, Request, CallRecord,
         Pcs, Trying, Running, Nothing, Amount, Amounts

\* infer: what is reserved covers the estimate.
LEMMA InferStep == ASSUME CallInv, NEW r \in Requests, infer(r) PROVE CallInv'
<1>. DEFINE e == Estimate(r)
<1>1. e \in Amounts /\ account.reserved \in Amounts /\ Plus(account.reserved, e) \in Amounts
  BY EstimateType, AmountsClosed DEF CallInv, Types
<1>2. CASE call' = Returned /\ UNCHANGED account
  BY <1>2, IdleStep DEF infer, Returned, CallInv, Types
<1>3. CASE /\ admit(r.epoch) /\ account' = reserve(account, e)
           /\ call' = [NoCall EXCEPT !.pc = "candidate", !.request = r, !.index = 1,
                                     !.reservation = Reservation(account, r.budget, e)]
  <2>1. call' = [pc |-> "candidate", request |-> r, index |-> 1, attempt |-> 0, total |-> 0,
                 reservation |-> Reservation(account, r.budget, e), elapsed |-> 0, delay |-> 0,
                 sent |-> {}, wanted |-> TRUE, admitted |-> FALSE]
    BY ZenonT(60), <1>3 DEF NoCall
  <2>2. Reservation(account, r.budget, e) \in Amounts
    BY <1>1 DEF Reservation, CheckedAmount
  <2>3. /\ account' \in [reserved : Amounts, spent : 0..MaxCounter]
        /\ account'.reserved = Plus(account.reserved, e)
    BY <1>1, <1>3 DEF reserve, CallInv, Types
  <2>4. Types'
    BY <2>1, <2>2, <2>3 DEF infer, CallInv, Types, CallRecord, Pcs
  <2>5. RunningIsReserved'
    <3>1. \A f \in {"requests", "tokens", "cost"} : Plus(account.reserved, e)[f] >= e[f]
      BY <1>1, AmountsClosed
    <3>2. call'.request = r
      BY <2>1
    <3>. QED  BY <2>3, <3>1, <3>2 DEF RunningIsReserved
  <2>6. LateUnwanted'
    BY <2>1 DEF LateUnwanted
  <2>7. SentBehind'
    BY <2>1 DEF SentBehind, Running, Trying
  <2>. QED  BY <2>4, <2>5, <2>6, <2>7 DEF CallInv
<1>. QED  BY <1>2, <1>3 DEF infer

\* A step of a running call that keeps its request and the account only has to
\* show where the bytes went.
LEMMA RunningStep ==
    ASSUME CallInv, call.pc \in Running, call' \in CallRecord, call'.pc \in Running,
           call'.request = call.request, call'.admitted = call.admitted,
           call'.wanted = call.wanted, gate' = gate, account' = account, SentBehind'
    PROVE  CallInv'
<1>1. Types'
  BY DEF CallInv, Types, Running, Trying
<1>2. LateUnwanted'
  BY DEF CallInv, LateUnwanted, Running, Trying
<1>3. RunningIsReserved'
  BY DEF CallInv, RunningIsReserved, Running, Trying
<1>. QED  BY <1>1, <1>2, <1>3 DEF CallInv

\* The candidate loop's head goes on to a candidate in the list or returns.
LEMMA TryCandidateStep == ASSUME CallInv, TryCandidate PROVE CallInv'
<1>. DEFINE c == candidates(call.request)
<1>1. /\ call \in CallRecord /\ call.pc = "candidate" /\ call.request \in Requests
      /\ gate' = gate /\ account' = account
  BY DEF CallInv, Types, TryCandidate, At
<1>2. c \in Seq(ProfileSet)
  BY <1>1, RequestsAssumption
<1>3. CASE call' = Returned
  BY <1>1, <1>3, IdleStep DEF Returned, CallInv, Types
<1>4. CASE call.index <= Len(c) /\ call' = [call EXCEPT !.pc = "attempt", !.attempt = 0]
  <2>1. call' \in CallRecord /\ call'.pc = "attempt" /\ call'.index = call.index
    BY ZenonT(60), <1>1, <1>4 DEF CallRecord, Pcs
  <2>2. call'.request = call.request /\ call'.sent = call.sent
    BY <1>1, <1>4 DEF CallRecord
  <2>3. call'.admitted = call.admitted /\ call'.wanted = call.wanted
    BY <1>1, <1>4 DEF CallRecord
  <2>4. call.index \in DOMAIN c
    BY <1>1, <1>2, <1>4 DEF CallInv, SentBehind, Running, Trying, CallRecord
  <2>5. SentBehind'
    BY <1>1, <2>1, <2>2, <2>4 DEF CallInv, SentBehind, Running, Trying
  <2>. QED  BY <1>1, <2>1, <2>2, <2>3, <2>5, RunningStep DEF Running, Trying
<1>5. CASE call' = [call EXCEPT !.index = @ + 1]
  <2>1. call' \in CallRecord /\ call'.pc = "candidate" /\ call'.index = call.index + 1
    BY <1>1, <1>5 DEF CallRecord, Pcs
  <2>2. call'.request = call.request /\ call'.sent = call.sent
    BY <1>1, <1>5 DEF CallRecord
  <2>3. call'.admitted = call.admitted /\ call'.wanted = call.wanted
    BY <1>1, <1>5 DEF CallRecord
  <2>4. SentBehind'
    BY <1>1, <1>2, <2>1, <2>2 DEF CallInv, SentBehind, Running, Trying, CallRecord
  <2>. QED  BY <1>1, <2>1, <2>2, <2>3, <2>4, RunningStep DEF Running, Trying
<1>. QED  BY <1>1, <1>2, <1>3, <1>4, <1>5 DEF TryCandidate, CallRecord

\* provider->infer begins: the call stays with its candidate.
LEMMA SendStep == ASSUME CallInv, Send PROVE CallInv'
<1>1. /\ call \in CallRecord /\ call.pc = "attempt" /\ call.request \in Requests
      /\ gate' = gate /\ account' = account
  BY DEF CallInv, Types, Send, At
<1>2. call' \in CallRecord /\ call'.pc = "provider" /\ call'.index = call.index
  <2>1. call.attempt + 1 \in Nat /\ call.total + 1 \in Nat
    BY <1>1 DEF CallRecord
  <2>2. call' = [pc |-> "provider", request |-> call.request, reservation |-> call.reservation,
                 index |-> call.index, attempt |-> call.attempt + 1, total |-> call.total + 1,
                 elapsed |-> call.elapsed, delay |-> call.delay, sent |-> call.sent,
                 wanted |-> call.wanted, admitted |-> call.admitted]
    BY ZenonT(60), <1>1 DEF Send, CallRecord
  <2>. QED  BY <1>1, <2>1, <2>2 DEF CallRecord, Pcs
<1>3. call'.request = call.request /\ call'.sent = call.sent
  BY <1>1 DEF Send, CallRecord
<1>4. call'.admitted = call.admitted /\ call'.wanted = call.wanted
  BY <1>1 DEF Send, CallRecord
<1>5. SentBehind'
  BY <1>1, <1>2, <1>3 DEF CallInv, SentBehind, Running, Trying
<1>. QED  BY <1>1, <1>2, <1>3, <1>4, <1>5, RunningStep DEF Running, Trying

\* The wait before a retry.
LEMMA BackoffStep == ASSUME CallInv, Backoff PROVE CallInv'
<1>1. /\ call \in CallRecord /\ call.pc = "backoff" /\ call.request \in Requests
      /\ gate' = gate /\ account' = account
  BY DEF CallInv, Types, Backoff, At
<1>2. CASE call' = Returned
  BY <1>1, <1>2, IdleStep DEF Returned, CallInv, Types
<1>3. CASE call' = [call EXCEPT !.pc = "attempt", !.elapsed = @ + call.delay, !.delay = 0]
  <2>1. call' \in CallRecord /\ call'.pc = "attempt" /\ call'.index = call.index
    <3>1. call.elapsed + call.delay \in Nat
      BY <1>1 DEF CallRecord
    <3>2. call' = [pc |-> "attempt", request |-> call.request, reservation |-> call.reservation,
                   index |-> call.index, attempt |-> call.attempt, total |-> call.total,
                   elapsed |-> call.elapsed + call.delay, delay |-> 0, sent |-> call.sent,
                   wanted |-> call.wanted, admitted |-> call.admitted]
      BY ZenonT(60), <1>1, <1>3 DEF CallRecord
    <3>. QED  BY <1>1, <3>1, <3>2 DEF CallRecord, Pcs
  <2>2. call'.request = call.request /\ call'.sent = call.sent
    BY <1>1, <1>3 DEF CallRecord
  <2>3. call'.admitted = call.admitted /\ call'.wanted = call.wanted
    BY <1>1, <1>3 DEF CallRecord
  <2>4. SentBehind'
    BY <1>1, <2>1, <2>2 DEF CallInv, SentBehind, Running, Trying
  <2>. QED  BY <1>1, <2>1, <2>2, <2>3, <2>4, RunningStep DEF Running, Trying
<1>. QED  BY <1>2, <1>3 DEF Backoff

\* An exception ends the call.
LEMMA AttemptThrowsStep == ASSUME CallInv, AttemptThrows PROVE CallInv'
  BY IdleStep DEF AttemptThrows, Returned, CallInv, Types

\* An answer: its usage moves the account, the gate tells whether it is wanted.
LEMMA RespondStep ==
    ASSUME CallInv, NEW usage \in Usages, NEW priced \in BOOLEAN, Respond(usage, priced)
    PROVE  CallInv'
<1>1. /\ call \in CallRecord /\ call.pc = "provider" /\ call.request \in Requests
      /\ gate' = gate /\ account \in [reserved : Amounts, spent : 0..MaxCounter]
  BY DEF CallInv, Types, Respond, At
<1>2. call' = [call EXCEPT !.pc = "answered", !.wanted = admit(call.request.epoch)]
  BY DEF Respond
<1>3. call' \in CallRecord /\ call'.pc = "answered" /\ call'.request = call.request
  <2>1. admit(call.request.epoch) \in BOOLEAN
    BY Zenon DEF admit
  <2>. QED  BY ZenonT(60), <1>1, <1>2, <2>1 DEF CallRecord, Pcs
<1>4. call'.admitted = call.admitted /\ call'.wanted = admit(call.request.epoch)
  BY <1>1, <1>2 DEF CallRecord
<1>5. account' \in [reserved : Amounts, spent : 0..MaxCounter]
  BY <1>1, ReconcileType DEF Respond
<1>6. LateUnwanted'
  <2>1. call.admitted = FALSE
    BY <1>1 DEF CallInv, LateUnwanted, Types, CallRecord
  <2>2. call'.admitted = FALSE /\ call'.request.epoch = call.request.epoch
    BY <1>1, <1>3, <1>4, <2>1
  <2>3. ~call'.wanted => ~admit(call.request.epoch)'
    BY Zenon, <1>1, <1>4, <2>2 DEF admit
  <2>. QED  BY Zenon, <2>2, <2>3 DEF LateUnwanted
<1>. QED  BY <1>1, <1>3, <1>5, <1>6 DEF CallInv, Types, SentBehind, RunningIsReserved, Running, Trying

\* The second look at the gate refuses an answer nobody wants.
LEMMA SettleStep == ASSUME CallInv, Settle PROVE CallInv'
<1>1. /\ call \in CallRecord /\ call.pc = "answered" /\ call.request \in Requests
      /\ gate' = gate /\ account' = account
  BY DEF CallInv, Types, Settle, At
<1>2. call' = [NoCall EXCEPT !.admitted = admit(call.request.epoch), !.wanted = call.wanted]
  BY DEF Settle
<1>3. /\ call' \in CallRecord /\ call'.pc = "idle"
      /\ call'.admitted = admit(call.request.epoch) /\ call'.wanted = call.wanted
  <2>1. call' = [pc |-> "idle", request |-> NoCall.request, reservation |-> Nothing, index |-> 0,
                 attempt |-> 0, total |-> 0, elapsed |-> 0, delay |-> 0, sent |-> {},
                 wanted |-> call.wanted, admitted |-> admit(call.request.epoch)]
    BY ZenonT(60), <1>2 DEF NoCall
  <2>2. Nothing \in Amounts
    BY MaxCounterAssumption DEF Nothing, Amount, Amounts
  <2>3. call.wanted \in BOOLEAN /\ admit(call.request.epoch) \in BOOLEAN
    BY <1>1, Zenon DEF CallRecord, CallInv, Types, admit
  <2>. QED  BY <2>1, <2>2, <2>3 DEF CallRecord, Pcs
<1>4. admit(call.request.epoch) => call.wanted
  BY <1>1, Zenon DEF CallInv, LateUnwanted
<1>. QED  BY <1>1, <1>3, <1>4
          DEF CallInv, Types, LateUnwanted, SentBehind, RunningIsReserved, Running, Trying

\* A failed attempt: a provider whose bytes left is behind the call before
\* another is tried, and is retried only when it asked for it.
LEMMA AttemptFailsStep ==
    ASSUME CallInv, NEW a \in AttemptFailures, NEW delay \in 0..1, NEW took \in 0..1,
           AttemptFails(a, delay, took)
    PROVE  CallInv'
<1>. DEFINE c == candidates(call.request)
            sent == IF a.left /\ ~Paced(a.failure) THEN call.sent \cup {Provider} ELSE call.sent
            elapsed == IF call.elapsed + took > TotalBudget THEN TotalBudget
                       ELSE call.elapsed + took
            circuit == record_failure(circuits[Provider])
            decision == evaluate(a.failure, a.wrote, delay, call.attempt, elapsed, circuit)
            failed == [call EXCEPT !.elapsed = elapsed, !.sent = sent]
<1>1. /\ call \in CallRecord /\ call.pc = "provider" /\ call.request \in Requests
      /\ gate' = gate /\ account \in [reserved : Amounts, spent : 0..MaxCounter]
  BY DEF CallInv, Types, AttemptFails, At
<1>2. c \in Seq(ProfileSet) /\ call.index \in DOMAIN c /\ Provider = c[call.index]
  BY <1>1, RequestsAssumption DEF CallInv, SentBehind, Trying, Provider
<1>3. elapsed \in Nat /\ sent \in SUBSET ProfileSet
  BY SMTT(60), <1>1, <1>2, RequestsAssumption DEF CallRecord
<1>4. \A p \in sent : \E k \in DOMAIN c : k <= call.index /\ p = c[k]
  BY <1>1, <1>2 DEF CallInv, SentBehind, Running, Trying, CallRecord
<1>5. decision.action # "GiveUp" => sent = call.sent /\ decision.delay \in Nat
  <2>1. decision.action # "GiveUp" /\ a.wrote => Paced(a.failure)
    BY DEF evaluate, GiveUp
  <2>2. decision.action # "GiveUp" /\ ~a.wrote => a.failure.retryable
    BY DEF evaluate, GiveUp
  <2>3. decision.delay \in Nat
    BY DEF evaluate, GiveUp
  <2>4. a.wrote = a.left \/ a.failure.retryable = FALSE
    BY ZenonT(60), SilentLoss
  <2>. HIDE DEF decision
  <2>. QED  BY Zenon, <2>1, <2>2, <2>3, <2>4
<1>. HIDE DEF sent, elapsed, circuit, decision
<1>6. CASE /\ decision.action # "GiveUp" /\ account' = account
           /\ call' = [failed EXCEPT !.delay = decision.delay,
                         !.pc = IF decision.delay > 0 THEN "backoff" ELSE "attempt"]
  <2>1. call' = [pc |-> IF decision.delay > 0 THEN "backoff" ELSE "attempt",
                 request |-> call.request, reservation |-> call.reservation,
                 index |-> call.index, attempt |-> call.attempt, total |-> call.total,
                 elapsed |-> elapsed, delay |-> decision.delay, sent |-> sent,
                 wanted |-> call.wanted, admitted |-> call.admitted]
    BY ZenonT(60), <1>1, <1>6 DEF CallRecord
  <2>2. call' \in CallRecord
    BY ZenonT(60), <1>1, <1>3, <1>5, <1>6, <2>1 DEF CallRecord, Pcs
  <2>3. /\ call'.pc \in Trying /\ call'.request = call.request /\ call'.index = call.index
        /\ call'.sent = call.sent
    BY <1>5, <1>6, <2>1 DEF Trying
  <2>4. call'.wanted = call.wanted /\ call'.admitted = call.admitted
    BY <2>1
  <2>5. SentBehind'
    BY <1>1, <2>3 DEF CallInv, SentBehind, Running, Trying
  <2>. QED  BY <1>1, <1>6, <2>2, <2>3, <2>4, <2>5, RunningStep DEF Running, Trying
<1>7. CASE /\ fallback_eligible(a.failure, elapsed) /\ account' = account
           /\ call' = [failed EXCEPT !.pc = "candidate", !.index = @ + 1]
  <2>1. call' = [pc |-> "candidate", request |-> call.request,
                 reservation |-> call.reservation, index |-> call.index + 1,
                 attempt |-> call.attempt, total |-> call.total, elapsed |-> elapsed,
                 delay |-> call.delay, sent |-> sent, wanted |-> call.wanted,
                 admitted |-> call.admitted]
    BY ZenonT(60), <1>1, <1>7 DEF CallRecord
  <2>2. call.index \in Nat /\ call.index + 1 \in Nat /\ call.index + 1 > 0
    BY <1>1 DEF CallRecord
  <2>3. call' \in CallRecord
    BY SMTT(60), <1>1, <1>3, <2>1, <2>2 DEF CallRecord, Pcs
  <2>4. /\ call'.pc = "candidate" /\ call'.request = call.request
        /\ call'.index = call.index + 1 /\ call'.sent = sent
    BY <2>1
  <2>5. call'.wanted = call.wanted /\ call'.admitted = call.admitted
    BY <2>1
  <2>6. SentBehind'
    BY <1>2, <1>4, <2>2, <2>4 DEF SentBehind, Running, Trying
  <2>. QED  BY <1>1, <1>7, <2>3, <2>4, <2>5, <2>6, RunningStep DEF Running, Trying
<1>8. CASE call' = Returned /\ account' = release(account, to_release(a.failure))
  <2>1. to_release(a.failure) \in Amounts
    BY <1>1, MaxCounterAssumption DEF to_release, CallRecord, Amounts
  <2>2. account' = [account EXCEPT !.reserved = Minus(@, to_release(a.failure))]
    BY <1>8 DEF release
  <2>3. Minus(account.reserved, to_release(a.failure)) \in Amounts
    BY SMTT(60), <1>1, <2>1, AmountsClosed
  <2>. QED  BY <1>1, <1>8, <2>2, <2>3, IdleStep DEF Returned
<1>. QED  BY <1>6, <1>7, <1>8 DEF AttemptFails, sent, elapsed, circuit, decision

\* Cancelling a call moves nothing the invariant tells apart, and a gate that
\* closes admits no more than it did.
LEMMA GateStep == ASSUME CallInv, Cancel \/ Deactivate PROVE CallInv'
<1>1. call' = call /\ account' = account
  BY DEF Cancel, Deactivate
<1>2. /\ gate' \in [set : BOOLEAN, epoch : Nat, active : BOOLEAN]
      /\ gate' = gate \/ (gate'.set = gate.set /\ gate'.epoch = gate.epoch /\ gate.active)
  BY ZenonT(60) DEF Cancel, Deactivate, CallInv, Types
<1>3. \A e : admit(e)' => admit(e)
  BY Zenon, <1>2 DEF admit
<1>4. LateUnwanted'
  BY Zenon, <1>1, <1>3 DEF CallInv, LateUnwanted
<1>. QED  BY <1>1, <1>2, <1>4 DEF CallInv, Types, SentBehind, RunningIsReserved

\* A gate that opens for the epoch of an answer makes it wanted; for another
\* epoch it refuses the answer.
LEMMA ActivateStep ==
    ASSUME CallInv, NEW epoch \in 0..MaxEpoch, Activate(epoch) PROVE CallInv'
<1>. DEFINE wanted == call.wanted \/ (call.pc = "answered" /\ epoch = call.request.epoch)
<1>1. /\ call \in CallRecord /\ account' = account /\ gate.set = TRUE
      /\ gate \in [set : BOOLEAN, epoch : Nat, active : BOOLEAN]
      /\ gate' = [gate EXCEPT !.epoch = epoch, !.active = TRUE]
      /\ call' = [call EXCEPT !.wanted = wanted]
  BY Zenon DEF Activate, CallInv, Types, At
<1>2. wanted \in BOOLEAN
  BY <1>1, Zenon DEF CallRecord
<1>. HIDE DEF wanted
<1>3. call' \in CallRecord /\ call'.wanted = wanted
  BY <1>1, <1>2, ZenonT(60) DEF CallRecord
<1>4. /\ call'.pc = call.pc /\ call'.request = call.request /\ call'.index = call.index
      /\ call'.sent = call.sent /\ call'.admitted = call.admitted
  BY <1>1, ZenonT(60) DEF CallRecord
<1>5. /\ gate' \in [set : BOOLEAN, epoch : Nat, active : BOOLEAN]
      /\ gate'.set = TRUE /\ gate'.epoch = epoch
  <2>1. epoch \in Nat
    OBVIOUS
  <2>. QED  BY <1>1, <2>1, ZenonT(60)
<1>6. LateUnwanted'
  BY <1>3, <1>4, <1>5, Zenon DEF CallInv, LateUnwanted, admit, wanted
<1>. QED  BY <1>1, <1>3, <1>4, <1>5, <1>6 DEF CallInv, Types, SentBehind, RunningIsReserved

-----------------------------------------------------------------------------
(* The results. *)

\* Every step of the gateway and of what is around it keeps the invariant.
LEMMA NextInvariant == CallInv /\ [Next]_vars => CallInv'
<1>. SUFFICES ASSUME CallInv, [Next]_vars PROVE CallInv'
  OBVIOUS
<1>1. CASE TryCandidate
  BY <1>1, TryCandidateStep
<1>2. CASE Send
  BY <1>2, SendStep
<1>3. CASE Settle
  BY <1>3, SettleStep
<1>4. CASE Backoff
  BY <1>4, BackoffStep
<1>5. ASSUME NEW usage \in Usages, NEW priced \in BOOLEAN, Respond(usage, priced) PROVE CallInv'
  BY <1>5, RespondStep
<1>6. ASSUME NEW a \in AttemptFailures, NEW delay \in 0..1, NEW took \in 0..1,
             AttemptFails(a, delay, took)
      PROVE  CallInv'
  BY <1>6, AttemptFailsStep
<1>7. CASE Cancel \/ Deactivate
  BY <1>7, GateStep
<1>8. ASSUME NEW epoch \in 0..MaxEpoch, Activate(epoch) PROVE CallInv'
  BY <1>8, ActivateStep
<1>9. ASSUME NEW r \in Requests, infer(r) PROVE CallInv'
  BY <1>9, InferStep
<1>10. CASE UNCHANGED vars
  BY <1>10 DEF vars, CallInv, Types, LateUnwanted, SentBehind, RunningIsReserved, admit
<1>11. CASE AttemptThrows
  BY <1>11, AttemptThrowsStep
<1>. QED
  BY <1>1, <1>2, <1>3, <1>4, <1>5, <1>6, <1>7, <1>8, <1>9, <1>10, <1>11, Zenon
     DEF Next, CallStep

\* A provider is sent a request only when no byte of it went to that provider
\* before: those it went to are candidates the call has left behind, and a
\* profile is a candidate once (infer's send loop).
LEMMA SendsToNew == CallInv /\ [Next]_vars => [call'.total > call.total => Provider \notin call.sent]_vars
<1>. SUFFICES ASSUME CallInv, Next, call'.total > call.total PROVE Provider \notin call.sent
  BY DEF vars
<1>1. call \in CallRecord /\ call.total \in Nat
  BY DEF CallInv, Types, CallRecord
<1>2. Send
  <2>1. ASSUME call'.total = call.total \/ call'.total = 0 PROVE FALSE
    BY <1>1, <2>1
  <2>2. ~TryCandidate /\ ~Backoff /\ ~AttemptThrows
    <3>1. NoCall.total = 0
      BY DEF NoCall
    <3>2. ASSUME TryCandidate PROVE FALSE
      <4>1. call.index \in Nat /\ Len(candidates(call.request)) \in Nat
        BY <1>1, <3>2, RequestsAssumption DEF TryCandidate, At, CallInv, Types, CallRecord
      <4>2. \/ call' = NoCall \/ call' = [call EXCEPT !.pc = "attempt", !.attempt = 0]
            \/ call' = [call EXCEPT !.index = @ + 1]
        BY <3>2, <4>1 DEF TryCandidate, Returned
      <4>. QED  BY ZenonT(60), <1>1, <2>1, <3>1, <4>2 DEF CallRecord
    <3>3. ASSUME Backoff PROVE FALSE
      BY <1>1, <2>1, <3>1, <3>3 DEF Backoff, Returned, CallRecord
    <3>4. ~AttemptThrows
      BY <2>1, <3>1, Zenon DEF AttemptThrows, Returned
    <3>. QED  BY <3>2, <3>3, <3>4
  <2>3. ~Settle /\ ~Cancel /\ ~Deactivate
    BY ZenonT(60), <1>1, <2>1 DEF Settle, Cancel, Deactivate, NoCall, CallRecord
  <2>4. ASSUME NEW usage \in Usages, NEW priced \in BOOLEAN, Respond(usage, priced) PROVE FALSE
    BY <1>1, <2>1, <2>4 DEF Respond, CallRecord
  <2>5. ASSUME NEW a \in AttemptFailures, NEW delay \in 0..1, NEW took \in 0..1,
               AttemptFails(a, delay, took)
        PROVE  FALSE
    <3>. DEFINE e == IF call.elapsed + took > TotalBudget THEN TotalBudget
                     ELSE call.elapsed + took
                s == IF a.left /\ ~Paced(a.failure) THEN call.sent \cup {Provider} ELSE call.sent
                d == evaluate(a.failure, a.wrote, delay, call.attempt, e,
                              record_failure(circuits[Provider])).delay
                q == IF d > 0 THEN "backoff" ELSE "attempt"
                failed == [call EXCEPT !.elapsed = e, !.sent = s]
    <3>1. \/ call' = NoCall
          \/ call' = [failed EXCEPT !.delay = d, !.pc = q]
          \/ call' = [failed EXCEPT !.pc = "candidate", !.index = @ + 1]
      BY <2>5 DEF AttemptFails, Returned
    <3>. HIDE DEF e, s, d, q
    <3>2. NoCall.total = 0
      BY DEF NoCall
    <3>. QED  BY ZenonT(60), <1>1, <2>1, <3>1, <3>2 DEF CallRecord
  <2>6. ASSUME NEW epoch \in 0..MaxEpoch, Activate(epoch) PROVE FALSE
    BY ZenonT(60), <1>1, <2>1, <2>6 DEF Activate, CallRecord
  <2>7. ASSUME NEW r \in Requests, infer(r) PROVE FALSE
    <3>1. call' = NoCall \/ \E v : call' = [NoCall EXCEPT !.pc = "candidate", !.request = r,
                                              !.index = 1, !.reservation = v]
      BY <2>7, Zenon DEF infer, Returned
    <3>2. \A v : [NoCall EXCEPT !.pc = "candidate", !.request = r, !.index = 1,
                                !.reservation = v].total = 0
      BY DEF NoCall
    <3>3. NoCall.total = 0
      BY DEF NoCall
    <3>. QED  BY <2>1, <3>1, <3>2, <3>3, Zenon
  <2>. QED  BY <2>2, <2>3, <2>4, <2>5, <2>6, <2>7, Zenon DEF Next, CallStep
<1>. DEFINE c == candidates(call.request)
<1>3. call.pc = "attempt" /\ call.request \in Requests
  BY <1>2 DEF Send, At, CallInv, Types
<1>4. /\ call.index \in DOMAIN c /\ call.index \in Nat /\ c \in Seq(ProfileSet)
      /\ \A p \in call.sent : \E k \in DOMAIN c : k < call.index /\ p = c[k]
  BY <1>1, <1>3, RequestsAssumption DEF CallInv, SentBehind, Running, Trying, CallRecord
<1>5. \A i, j \in DOMAIN c : c[i] = c[j] => i = j
  BY <1>3, RequestsAssumption
<1>. QED  BY <1>4, <1>5 DEF Provider

\* No request whose bytes left goes to the same provider again unless that
\* provider answered with a rate limit or an overload, for any profiles, budgets
\* and failures of the transport (infer, ProviderSupervisor::evaluate).
THEOREM NeverResentBlindly == Spec => NoBlindResend
<1>1. Init => CallInv
  BY InitInvariant
<1>2. CallInv /\ [Next]_vars => CallInv'
  BY NextInvariant
<1>3. CallInv /\ [Next]_vars => [call'.total > call.total => Provider \notin call.sent]_vars
  BY SendsToNew
<1>. QED  BY <1>1, <1>2, <1>3, PTL DEF Spec, NoBlindResend

\* An answer that finds its task paused, cancelled or in another epoch is handed
\* on as admitted only when the task is activated again in the request's epoch
\* before, for any epochs and however often the gate closed and opened on the way
\* (infer's second look at the gate).
THEOREM LateNeverAdmitted == Spec => []LateAnswerNotAdmitted
<1>1. CallInv => LateAnswerNotAdmitted
  BY DEF CallInv, LateUnwanted, LateAnswerNotAdmitted
<1>. QED  BY <1>1, InitInvariant, NextInvariant, PTL DEF Spec

\* A running call is covered by what its task holds through every retry and
\* fallback, whatever earlier calls reserved, released or left (infer,
\* BudgetLedger).
THEOREM RunningStaysReserved == Spec => []RunningIsReserved
<1>1. CallInv => RunningIsReserved
  BY DEF CallInv
<1>. QED  BY <1>1, InitInvariant, NextInvariant, PTL DEF Spec

=============================================================================

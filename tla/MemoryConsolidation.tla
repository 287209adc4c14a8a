------------------------ MODULE MemoryConsolidation ------------------------
(***************************************************************************)
(* How events become memory. First the publication of a verified task fact *)
(* (verified_fact.cpp): a claim about the environment becomes a Critical   *)
(* event only when the observation it cites is in the session's log,       *)
(* within the scan budget, under the same task and epochs, and the         *)
(* authority grants a lease; and the event is read back by a strict        *)
(* parser. Then consolidation (memory_consolidation.cpp) and how records   *)
(* get their vectors (memory_embedding.cpp), as functions: the candidates  *)
(* of a stretch of the log, the screening of a candidate, and the mutation *)
(* it turns into given the records that make the same claim. The calls to  *)
(* the store between them are the caller's (MemoryService).                *)
(*                                                                         *)
(* Ids are numbers, 0 the nil one. A text is a word; which words are       *)
(* identifiers or carry a marker is fixed here. Times are in hours.        *)
(***************************************************************************)
EXTENDS MemoryContracts, SequencesExt

CONSTANTS
  ApprovalKinds,     \* kinds that wait for a human
  MaxCandidates      \* candidates one run examines

-----------------------------------------------------------------------------
(* Verified facts. *)

MaxValidity == 24
NotIdentifiers == {"", "Bad Key"}
ForbiddenText == {"password"}
InjectionText == {"ignore previous"}
safe_text(text) == text # ""

\* fact: runtime, session, scope, claim.
validate_fact(fact) ==
  LET c == fact.claim
  IN  /\ 0 \notin {fact.runtime, fact.session, c.publication, c.task, c.evidence}
      /\ c.publication # c.evidence
      /\ c.key \notin NotIdentifiers /\ c.verifier \notin NotIdentifiers /\ safe_text(c.value)
      /\ fact.scope.kind \in {"Environment", "Application", "User"} /\ safe_text(fact.scope.subject)
      /\ c.from > 0 /\ c.until > c.from /\ c.until - c.from <= MaxValidity
      /\ {c.key, c.value} \cap ForbiddenText = {} /\ c.value \notin InjectionText
valid_at(fact, now) == fact.claim.from <= now /\ now < fact.claim.until

\* The payload has every member of the fact and no other; the publication's id is
\* the event's.
payload_for(fact) ==
  LET c == fact.claim
  IN  Document({"schema", "runtime", "session", "task", "epoch", "environment", "scope", "claim",
                "evidence", "digest", "verifier", "from", "until"},
        [schema |-> "v1", runtime |-> fact.runtime, session |-> fact.session, task |-> c.task,
         epoch |-> c.epoch, environment |-> c.environment, scope |-> fact.scope,
         claim |-> [key |-> c.key, value |-> c.value], evidence |-> c.evidence,
         digest |-> c.digest, verifier |-> c.verifier, from |-> c.from, until |-> c.until])

\* [ok, fact]. Every member is there and of its type, the fact is valid, and the
\* envelope carries the same identities.
parse_published_task_fact(event) ==
  LET v == event.data.value
      fact == [runtime |-> v.runtime, session |-> v.session, scope |-> v.scope,
               claim |-> [publication |-> event.id, task |-> v.task, epoch |-> v.epoch,
                          environment |-> v.environment, key |-> v.claim.key,
                          value |-> v.claim.value, evidence |-> v.evidence, digest |-> v.digest,
                          verifier |-> v.verifier, from |-> v.from, until |-> v.until]]
      readable == /\ event.type = "TaskFactVerified" /\ event.class = "Critical"
                  /\ event.data.has = DOMAIN v /\ event.data.bad = {}
                  /\ v.schema = "v1"
  IN  IF ~readable THEN [ok |-> FALSE]
      ELSE IF ~validate_fact(fact) THEN [ok |-> FALSE]
      ELSE IF <<event.runtime, event.session, event.task>> # <<fact.runtime, fact.session, v.task>>
        THEN [ok |-> FALSE]
      ELSE [ok |-> TRUE, fact |-> fact]

-----------------------------------------------------------------------------
(* The publisher. *)

\* Paging through the session until the evidence is found or the budget is spent:
\* [found, scanned].
Scan(log, evidence, limits) ==
  LET page(after, left) ==
        LET size == IF limits.page < left THEN limits.page ELSE left
        IN  SubSeq(log, after + 1, IF after + size < Len(log) THEN after + size ELSE Len(log))
      after[k \in 0 .. Len(log)] ==
        IF k = 0 THEN [found |-> 0, scanned |-> 0]
        ELSE LET s == after[k - 1]
                 events == page(s.scanned, limits.max - s.scanned)
                 hits == {i \in DOMAIN events : events[i].id = evidence}
             IN  IF s.found # 0 \/ events = << >> THEN s
                 ELSE [found |-> IF hits = {} THEN 0 ELSE s.scanned + CHOOSE i \in hits : TRUE,
                       scanned |-> s.scanned + Len(events)]
  IN  after[Len(log)]

\* The observation cited: of this runtime and task, with the digest claimed, made
\* under the same epochs, not after the claim starts nor a day before it ends.
EvidenceFits(fact, source) ==
  LET c == fact.claim
      o == source.data.value
  IN  /\ source.runtime = fact.runtime /\ source.task = c.task
      /\ source.type = "ObservationRecorded" /\ source.digest = c.digest
      /\ source.data.has = {"observation", "epoch", "environment", "at"} /\ source.data.bad = {}
      /\ o.at > 0 /\ o.at <= c.from /\ c.until - o.at <= MaxValidity
      /\ o.observation # 0 /\ o.epoch = c.epoch /\ o.environment = c.environment

Frame(context, fact) ==
  /\ context.session = fact.session /\ context.task = fact.claim.task
  /\ context.epoch = fact.claim.epoch /\ context.operation # 0
ready(context, now) == ~context.cancelled /\ (context.deadline = Never \/ now < context.deadline)

\* start, end: the clock when the call begins, and when the lease was validated;
\* granted: what the authority says of the fact.
StillGood(fact, context, granted, end) ==
  granted /\ ready(context, end) /\ valid_at(fact, end)
publish(fact, log, context, limits, granted, start, end) ==
  LET scan == Scan(log, fact.claim.evidence, limits)
  IN  /\ limits.page > 0 /\ limits.max > 0
      /\ validate_fact(fact) /\ Frame(context, fact) /\ ready(context, start) /\ valid_at(fact, start)
      /\ scan.found # 0 /\ EvidenceFits(fact, log[scan.found])
      /\ StillGood(fact, context, granted, end)

\* The event a publication appends.
Published(fact, sequence) ==
  [id |-> fact.claim.publication, runtime |-> fact.runtime, session |-> fact.session,
   task |-> fact.claim.task, type |-> "TaskFactVerified", class |-> "Critical",
   data |-> payload_for(fact), digest |-> 0, sequence |-> sequence, wall |-> 0, known |-> TRUE]

-----------------------------------------------------------------------------
(* Consolidation. *)

\* A statement carries a marker when one of its words does.
carries_marker(statement, words) == {statement.subject, statement.value} \cap words # {}

\* A fact of the old form has a key and a value and nothing else to check.
parse_verified_fact(event) ==
  event.type = "TaskFactVerified" /\ {"key", "value"} \subseteq event.data.has \ event.data.bad

FactKind(scope) ==
  CASE scope.kind = "Application" -> "ApplicationFact"
    [] scope.kind = "User" -> "Preference"
    [] OTHER -> "EnvironmentFact"
Candidate(r, evidence) ==
  [proposed |-> r, evidence |-> evidence, reason |-> "VerifiedEvent", model |-> FALSE]
FactRecord(id, scope, subject, value, from, provenance) ==
  [DefaultRecord EXCEPT !.id = id, !.scope = scope, !.kind = FactKind(scope),
     !.statement = [subject |-> subject, value |-> value, spelling |-> 0], !.from = from,
     !.recorded = from, !.provenance = provenance, !.verification = "Verified", !.confidence = 9]

\* One event's candidate, under a fresh id: a published fact that is of this scope
\* and still valid, a fact of the old form, or an episode of a completed task.
CandidateOf(event, scope, now, id) ==
  LET versioned == event.type = "TaskFactVerified" /\ "schema" \in event.data.has
      read == parse_published_task_fact(event)
      c == read.fact.claim
      v == event.data.value
  IN  IF versioned
        THEN IF ~read.ok THEN << >>
             ELSE IF read.fact.scope # scope \/ ~valid_at(read.fact, now) THEN << >>
             ELSE << Candidate([FactRecord(id, scope, c.key, c.value, c.from, <<event.id, c.evidence>>)
                                  EXCEPT !.until = c.until, !.expires = c.until],
                               <<event.id, c.evidence>>) >>
      ELSE IF parse_verified_fact(event)
        THEN << Candidate(FactRecord(id, scope, v.key, v.value, event.wall, <<event.id>>), <<event.id>>) >>
      ELSE IF event.type = "LoopSettled" /\ "outcome" \in event.data.has \ event.data.bad
        THEN IF v.outcome # "Completed" THEN << >>
             ELSE << Candidate([FactRecord(id, scope, "task settled", "", event.wall, <<event.id>>)
                                  EXCEPT !.kind = "Episode", !.verification = "Observed",
                                         !.confidence = 6], <<event.id>>) >>
      ELSE << >>
extract_deterministic(events, scope, now, fresh) ==
  FlattenSeq([i \in DOMAIN events |-> CandidateOf(events[i], scope, now, fresh[i])])

\* Events of the old form without a time of their own are refused.
UntimedSource(event) ==
  /\ ~event.known /\ "schema" \notin event.data.has
  /\ \/ parse_verified_fact(event)
     \/ /\ event.type = "LoopSettled" /\ "outcome" \in event.data.has \ event.data.bad
        /\ event.data.value.outcome = "Completed"

\* What a model proposes is marked, and never confirmed by a human.
ModelProposal(p) ==
  [p EXCEPT !.model = TRUE,
     !.proposed.verification = IF @ = "HumanConfirmed" THEN "Unverified" ELSE @,
     !.proposed.ns = IF @ = "" THEN "consolidation-model" ELSE @]

\* [ok, candidates].
consolidate(events, proposals, scope, now, fresh) ==
  IF \E i \in DOMAIN events : UntimedSource(events[i]) THEN [ok |-> FALSE, candidates |-> << >>]
  ELSE [ok |-> TRUE,
        candidates |-> extract_deterministic(events, scope, now, fresh)
                         \o [i \in DOMAIN proposals |-> ModelProposal(proposals[i])]]

-----------------------------------------------------------------------------
(* One candidate. *)

Normalised(candidate, scope, now) ==
  [candidate.proposed EXCEPT !.scope = scope, !.version = 1,
                             !.recorded = IF @ = 0 THEN now ELSE @]

\* Why the candidate never reaches the store; "" when it does.
Screen(candidate, scope, now) ==
  LET proposed == Normalised(candidate, scope, now)
  IN  IF carries_marker(proposed.statement, ForbiddenText) THEN "RejectedForbidden"
      ELSE IF candidate.model /\ carries_marker(proposed.statement, InjectionText)
        THEN "RejectedInjection"
      ELSE IF ~MemoryRecord_validate(proposed) \/ ~check_memory_kind_policy(proposed)
        THEN "RejectedInvalid" ELSE ""

conflict_query(proposed) ==
  [scopes |-> <<proposed.scope>>, kinds |-> {proposed.kind}, max_sensitivity |-> "Secret",
   as_recorded |-> Never, as_valid |-> Never, claim |-> memory_claim_key(proposed.statement).key,
   term |-> "", text |-> "", embedding |-> "", late |-> "no", max_results |-> 16,
   token_budget |-> 4096]

\* The live claim: the most recent record about the subject, the first of equals.
Conflict(proposed, found) ==
  LET about == SelectSeq(found, LAMBDA r : /\ r.status = "Active"
                                           /\ memory_claim_key(r.statement).key =
                                              memory_claim_key(proposed.statement).key)
      latest == {k \in DOMAIN about :
                   /\ \A j \in DOMAIN about : about[j].recorded <= about[k].recorded
                   /\ \A j \in 1 .. (k - 1) : about[j].recorded < about[k].recorded}
  IN  {about[k] : k \in latest}

\* A verified event never replaces a bounded fact by an unbounded one, nor a
\* record by one that is not newer.
Outdated(candidate, proposed, old) ==
  /\ ~candidate.model /\ candidate.reason = "VerifiedEvent"
  /\ \/ proposed.until = Never /\ old.until # Never
     \/ (proposed.until = Never) = (old.until = Never) /\ old.recorded >= proposed.recorded

\* The stored record says the same, at least as surely.
\* Mutant: texts are compared as they are spelled.
Repeats_Spelled(proposed, old) ==
  /\ old.statement = proposed.statement
  /\ memory_verification_rank(old.verification) >= memory_verification_rank(proposed.verification)
Repeats(proposed, old) ==
  /\ memory_same_claim(old.statement, proposed.statement)
  /\ memory_verification_rank(old.verification) >= memory_verification_rank(proposed.verification)

\* [disposition, mutation]: what becomes of a screened candidate once the records
\* of its claim are known. An approved kind waits under the candidate's own id, the
\* others are applied, a supersession under a fresh id.
Plan(candidate, scope, now, found, mutation_id, fresh) ==
  LET proposed == Normalised(candidate, scope, now)
      old == Conflict(proposed, found)
      conflict == CHOOSE r \in old : TRUE
      wait == proposed.kind \in ApprovalKinds /\ candidate.reason # "HumanCorrection"
      record == IF old = {} THEN proposed
                ELSE [proposed EXCEPT !.supersedes = conflict.id, !.id = IF wait THEN @ ELSE fresh]
      mutation == [id |-> mutation_id, type |-> IF old = {} THEN "Add" ELSE "Supersede",
                   scope |-> scope, target |-> IF old = {} THEN 0 ELSE conflict.id,
                   expected |-> IF old = {} THEN 0 ELSE conflict.version, proposed |-> record,
                   evidence |-> IF candidate.evidence = << >> THEN proposed.provenance
                                ELSE candidate.evidence,
                   reason |-> candidate.reason]
  IN  [disposition |-> IF old # {} /\ Repeats(proposed, conflict) THEN "Duplicate"
                       ELSE IF old # {} /\ Outdated(candidate, proposed, conflict) THEN "RejectedConflict"
                       ELSE IF ~MemoryMutation_validate(mutation) THEN "RejectedInvalid"
                       ELSE IF wait THEN "PendingApproval" ELSE "apply",
       mutation |-> mutation]

\* A run looks at so many candidates and forgets the others.
Examined(candidates) ==
  SubSeq(candidates, 1, IF Len(candidates) > MaxCandidates THEN MaxCandidates ELSE Len(candidates))

-----------------------------------------------------------------------------
(* The vectors of a scope: which of the records found get one. *)

semantic_kind(kind) == memory_kind_policy(kind).semantic
repair_query(scope, max_records) ==
  [conflict_query([DefaultRecord EXCEPT !.scope = scope]) EXCEPT
     !.kinds = {}, !.claim = "", !.max_results = max_records]
Repairable(found) == SelectSeq(found, LAMBDA r : semantic_kind(r.kind))

-----------------------------------------------------------------------------
\* A fact that was published reads back as it was; it cites an observation of its
\* own task and epochs in the log, made no more than a day before the fact ends;
\* it was valid when it was appended; and, whenever the log is consolidated, it
\* becomes a memory of its own scope only, while it is valid, that expires with it
\* (publish, parse_published_task_fact, extract_deterministic).
FactIsBacked(fact, log, context, limits, granted, start, end, later, scope) ==
  LET event == Published(fact, Len(log) + 1)
      learnt == consolidate(<<event>>, << >>, scope, later, <<1>>).candidates
      c == fact.claim
  IN  publish(fact, log, context, limits, granted, start, end) =>
        /\ parse_published_task_fact(event) = [ok |-> TRUE, fact |-> fact]
        /\ granted /\ end < c.until
        /\ \E k \in DOMAIN log : /\ log[k].id = c.evidence /\ log[k].task = c.task /\ k <= limits.max
                                 /\ log[k].data.value.epoch = context.epoch
                                 /\ c.until - log[k].data.value.at <= MaxValidity
        /\ learnt # << >> <=> scope = fact.scope /\ later \in c.from .. (c.until - 1)
        /\ \A k \in DOMAIN learnt :
             /\ learnt[k].proposed.scope = fact.scope /\ learnt[k].proposed.expires = c.until
             /\ Screen(learnt[k], scope, later) \in {"", "RejectedInvalid"}
=============================================================================

-------------------------- MODULE MemoryContracts --------------------------
(***************************************************************************)
(* The contracts of long-term memory (memory_contracts.cpp): what a        *)
(* record, a mutation, a query and an erasure request must satisfy, the    *)
(* policy of each kind of memory, the subject of a claim, and the          *)
(* documents records and mutations are stored as.                          *)
(*                                                                         *)
(* Ids and artifacts are numbers, 0 the nil or absent one; times are       *)
(* numbers, Never the absent one; confidence is in tenths. A statement is  *)
(* a subject, a value ("" when it has no '=') and a spelling, which stands *)
(* for its letter case and white space.                                    *)
(***************************************************************************)
EXTENDS Integers, Sequences, FiniteSets

Never == -1
CONSTANT Day      \* the unit of the lifetimes

Statuses == {"Active", "Superseded", "Tombstoned"}
Verifications == <<"Unverified", "Observed", "Verified", "HumanConfirmed">>
memory_verification_rank(v) == CHOOSE i \in 0 .. 3 : Verifications[i + 1] = v
Sensitivities == <<"Public", "Internal", "Sensitive", "Secret">>
sensitivity_rank(s) == CHOOSE i \in 0 .. 3 : Sensitivities[i + 1] = s
ScopeKinds == {"User", "Session", "Task", "Environment", "Application", "Agent", "TaskSkill"}

-----------------------------------------------------------------------------
(* Claims. *)

\* Normalising takes the spelling away: letter case, and runs of white space.
memory_normalize_claim_key(text) == text.word
memory_claim_key(statement) ==
  LET part(word) == memory_normalize_claim_key([word |-> word, spelling |-> statement.spelling])
  IN  [key |-> part(statement.subject), value |-> part(statement.value),
       keyed |-> statement.value # ""]
memory_same_claim(a, b) ==
  /\ memory_claim_key(a).key = memory_claim_key(b).key
  /\ memory_claim_key(a).value = memory_claim_key(b).value

-----------------------------------------------------------------------------
(* The policy of a kind: lifetime, verification floor, scopes, and whether   *)
(* similarity may reach it.                                                  *)

KindPolicy(days, floor, scopes, semantic) ==
  [ttl |-> days * Day, floor |-> floor, scopes |-> scopes, semantic |-> semantic]
kind_policy_table ==
  [ Preference      |-> KindPolicy(180, "Unverified",
                          {"User", "Session", "Environment", "Application"}, TRUE),
    EnvironmentFact |-> KindPolicy(7, "Observed",
                          {"Environment", "Task", "Session", "Agent", "TaskSkill"}, TRUE),
    ApplicationFact |-> KindPolicy(30, "Observed",
                          {"Application", "Task", "Session", "Agent"}, TRUE),
    Episode         |-> KindPolicy(30, "Observed",
                          {"Task", "Session", "Environment", "Agent"}, FALSE),
    Procedure       |-> KindPolicy(180, "Unverified", {"Agent", "TaskSkill", "Application"}, FALSE),
    RecoveryLesson  |-> KindPolicy(90, "Verified", {"Agent", "Task", "Session"}, FALSE),
    SkillHint       |-> KindPolicy(30, "Observed", {"TaskSkill", "Task", "Session"}, FALSE) ]
Kinds == DOMAIN kind_policy_table
memory_kind_policy(kind) == kind_policy_table[kind]

\* Imported records (with a namespace) are exempt.
check_memory_kind_policy(r) ==
  \/ r.ns # ""
  \/ /\ memory_verification_rank(r.verification) >=
          memory_verification_rank(memory_kind_policy(r.kind).floor)
     /\ r.scope.kind \in memory_kind_policy(r.kind).scopes
memory_default_expiry(kind, recorded) == recorded + memory_kind_policy(kind).ttl

-----------------------------------------------------------------------------
(* Validation. *)

MemoryRecord_validate(r) ==
  /\ r.id # 0 /\ r.statement.subject # ""
  /\ r.confidence \in 0 .. 10
  /\ r.sensitivity # "Secret"
  /\ r.verification = "HumanConfirmed" => r.ns = "" /\ r.provenance # << >>
  /\ r.provenance = << >> => r.confidence <= 3
  /\ r.until # Never => r.until >= r.from
  /\ r.expires # Never => r.expires >= r.recorded
  /\ r.status = "Superseded" => r.supersedes # 0
  /\ r.version # 0

MemoryMutation_validate(m) ==
  /\ MemoryRecord_validate(m.proposed)
  /\ m.id # 0 /\ m.proposed.scope = m.scope
  /\ CASE m.type = "Noop" -> TRUE
       [] m.type = "Add"  -> m.target = 0
       [] OTHER           -> m.target # 0 /\ m.expected # 0
  /\ m.type # "Noop" =>
       /\ m.type = "Supersede" => m.proposed.supersedes # 0
       /\ m.type # "Tombstone" => check_memory_kind_policy(m.proposed)
       /\ m.evidence = << >> => m.reason = "RetentionExpiry"

MemorySweepOptions_validate(o) == o.max_records > 0 /\ o.deadline >= 0
MemoryQuery_validate(q) ==
  /\ q.scopes # << >>
  /\ \A i \in DOMAIN q.scopes :
       q.scopes[i].subject = "" => q.scopes[i].kind \in {"Environment", "Agent"}
  /\ q.max_results \in 1 .. 512
ErasureRequest_validate(q) == (q.scope # << >>) # (q.record # 0) /\ q.reason # ""

-----------------------------------------------------------------------------
(* Documents: the members a document has, those of them that are damaged     *)
(* (of another type, or no name of the enumeration), and what the others     *)
(* hold. A damaged member is refused when it is required or strict, and      *)
(* otherwise reads as if it were absent, as the default.                     *)

Document(members, value) == [has |-> members, bad |-> {}, value |-> value]
Read(document, default, m) ==
  IF m \in document.has /\ m \notin document.bad THEN document.value[m] ELSE default[m]

DefaultRecord ==
  [id |-> 0, scope |-> [kind |-> "Environment", subject |-> "", tenant |-> ""],
   kind |-> "EnvironmentFact", statement |-> [subject |-> "", value |-> "", spelling |-> 0],
   evidence |-> 0, from |-> 0, until |-> Never, recorded |-> 0, provenance |-> << >>,
   verification |-> "Unverified", confidence |-> 0, sensitivity |-> "Internal",
   status |-> "Active", supersedes |-> 0, expires |-> Never, ns |-> "", version |-> 1]

memory_record_to_json(r) ==
  Document({m \in DOMAIN r :
              CASE m \in {"evidence", "supersedes"} -> r[m] # 0
                [] m \in {"until", "expires"} -> r[m] # Never
                [] m = "ns" -> r.ns # ""
                [] OTHER -> TRUE}, r)

RecordOf(document) == [m \in DOMAIN DefaultRecord |-> Read(document, DefaultRecord, m)]
memory_record_from_json(document) ==
  [ok    |-> /\ "id" \in document.has \ document.bad
             /\ document.bad \cap {"scope", "evidence", "sensitivity"} = {},
   value |-> RecordOf(document)]

DefaultMutation ==
  [id |-> 0, type |-> "Add", scope |-> DefaultRecord.scope, target |-> 0, expected |-> 0,
   proposed |-> DefaultRecord, evidence |-> << >>, reason |-> "VerifiedEvent"]
memory_mutation_to_json(m) ==
  Document({n \in DOMAIN m : n \in {"target", "expected"} => m[n] # 0}, m)
memory_mutation_from_json(document) ==
  [ok    |-> "id" \in document.has \ document.bad /\ document.bad \cap {"scope", "proposed"} = {},
   value |-> [m \in DOMAIN DefaultMutation |-> Read(document, DefaultMutation, m)]]

\* What is written is what is read.
RecordSurvives(r) ==
  memory_record_from_json(memory_record_to_json(r)) = [ok |-> TRUE, value |-> r]

\* A record whose document was damaged is refused, or is the record with defaults
\* in the damaged places; it is never less sensitive and never more trusted.
DamageIsContained(r, bad) ==
  LET document == memory_record_to_json(r)
      read     == memory_record_from_json([document EXCEPT !.bad = bad])
  IN  read.ok =>
        /\ \A m \in DOMAIN r \ bad : read.value[m] = r[m]
        /\ sensitivity_rank(read.value.sensitivity) >= sensitivity_rank(r.sensitivity)
        /\ memory_verification_rank(read.value.verification) <=
             memory_verification_rank(r.verification)

\* A valid mutation with one damaged member does what it said or is refused by its
\* validation: a retirement never reads as an addition. (A Noop does: the type
\* defaults to Add.)
DamagedMutationIsRefused(m, member) ==
  LET document == memory_mutation_to_json(m)
      read     == memory_mutation_from_json([document EXCEPT !.bad = {member}])
  IN  m.type # "Noop" /\ MemoryMutation_validate(m) /\ read.ok /\ MemoryMutation_validate(read.value)
        => /\ read.value.type = m.type /\ read.value.target = m.target
           /\ read.value.proposed = m.proposed
=============================================================================

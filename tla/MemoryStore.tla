---------------------------- MODULE MemoryStore ----------------------------
(***************************************************************************)
(* The tables of the SQLite memory store (sqlite_memory_store.cpp) and its *)
(* operations as functions of them: apply, query, erase, compact, sweep    *)
(* and the vector index. Every operation is one transaction on the store's *)
(* only worker; what it answers and the tables it leaves are one value.    *)
(* Erasing evidence reaches into the artifact store, outside the           *)
(* transaction: operations that erase also answer the artifact store's     *)
(* files and memory.                                                       *)
(*                                                                         *)
(* A row keeps its scope and kind columns from its first insert; all its   *)
(* other columns repeat its document. A vector is the text it was made     *)
(* from. Scores are in units of 1/600.                                     *)
(***************************************************************************)
EXTENDS MemoryContracts, ArtifactStore, SequencesExt

CONSTANTS
  Ids,            \* memory records, from 1
  MutationIds,
  KeepVersions, PurgeHorizon, MaxPerScopeKind, MaxVectorScan

NoRow == [scope |-> DefaultRecord.scope, kind |-> "", document |-> Document({}, DefaultRecord),
          updated |-> 0]
NoEntry == [scope |-> DefaultRecord.scope, type |-> "none", record |-> 0, version |-> 0]
EmptyTables ==
  LET each(value) == [i \in Ids |-> value]
  IN  [rows |-> each(NoRow), versions |-> each({}), fts |-> each({}), vectors |-> each({}),
       provenance |-> each({}), ledger |-> [m \in MutationIds |-> NoEntry], holds |-> {},
       log |-> {}]

scope_key_of(scope) == <<scope.kind, scope.subject, scope.tenant>>
Present(db, i) == i \in Ids /\ db.rows[i] # NoRow
read_record(db, i) == memory_record_from_json(db.rows[i].document).value
current_version(db, i) == read_record(db, i).version
InScope(db, i, scope) == Present(db, i) /\ scope_key_of(db.rows[i].scope) = scope_key_of(scope)
check_no_hold(db, scope) == scope_key_of(scope) \notin db.holds
SameScope(db, i, scope) == scope_key_of(read_record(db, i).scope) = scope_key_of(scope)

-----------------------------------------------------------------------------
(* Writing. *)

sync_derived_rows(db, r) ==
  [db EXCEPT !.provenance[r.id] = ToSet(r.provenance),
             !.fts[r.id] = IF r.status = "Active" THEN {r.statement} ELSE {},
             !.versions[r.id] = {d \in @ : d.value.version # r.version} \cup {memory_record_to_json(r)}]

write_record(db, r, scope, version, now) ==
  LET indexed == [r EXCEPT !.version = version]
      row == [scope |-> scope, kind |-> r.kind, document |-> memory_record_to_json(indexed),
              updated |-> now]
  IN  sync_derived_rows(
        [db EXCEPT !.rows[r.id] =
           IF Present(db, r.id) THEN [row EXCEPT !.scope = db.rows[r.id].scope,
                                                 !.kind = db.rows[r.id].kind]
           ELSE row], indexed)

drop_embedding(db, i) == [db EXCEPT !.vectors[i] = {}]

Refused(db, code) == [ok |-> FALSE, code |-> code, db |-> db, record |-> 0, version |-> 0, replay |-> FALSE]
Applied(db, i, version, replay) ==
  [ok |-> TRUE, code |-> "", db |-> db, record |-> i, version |-> version, replay |-> replay]

\* Closing the predecessor of a supersession.
ClosePredecessor(db, target, from, scope, now) ==
  LET closed == [read_record(db, target) EXCEPT !.status = "Superseded", !.until = from,
                                                !.expires = Never]
  IN  write_record(drop_embedding(db, target), closed, scope, current_version(db, target) + 1, now)

\* What is written, under which version, on top of which tables.
AddPlan(db, m, proposed) == [db |-> db, r |-> [proposed EXCEPT !.status = "Active"], version |-> 1]
TombstonePlan(db, m) ==
  [db |-> drop_embedding(db, m.target),
   r |-> [read_record(db, m.target) EXCEPT !.status = "Tombstoned", !.expires = Never],
   version |-> current_version(db, m.target) + 1]
SupersedePlan(db, m, proposed, now) ==
  [db |-> ClosePredecessor(db, m.target, proposed.from, m.scope, now),
   r |-> [proposed EXCEPT !.status = "Active", !.supersedes = m.target], version |-> 1]
UpdatePlan(db, m, proposed) ==
  [db |-> IF proposed.statement # read_record(db, m.target).statement
            THEN drop_embedding(db, m.target) ELSE db,
   r |-> [proposed EXCEPT !.id = m.target, !.status = IF @ = "Superseded" THEN "Active" ELSE @],
   version |-> current_version(db, m.target) + 1]

\* Why a mutation is refused; "" when it is not. The scope is settled before the
\* version is compared.
Refusal(db, m) ==
  IF m.type = "Add" THEN IF Present(db, m.proposed.id) THEN "VersionConflict" ELSE ""
  ELSE IF ~Present(db, m.target) THEN "VersionConflict"
  ELSE IF ~SameScope(db, m.target, m.scope) THEN "ScopeDenied"
  ELSE IF current_version(db, m.target) # m.expected THEN "VersionConflict"
  ELSE IF m.type = "Supersede" /\ m.proposed.id = m.target THEN "InvalidMutation" ELSE ""

\* A claim without a lifetime takes its kind's.
WithLifetime(m, now) ==
  [m.proposed EXCEPT !.scope = m.scope,
     !.expires = IF @ # Never \/ m.type = "Tombstone" THEN @
                 ELSE memory_default_expiry(m.proposed.kind,
                        IF m.proposed.recorded <= 0 THEN now ELSE m.proposed.recorded)]

\* Mutant: the ledger is not consulted.
Replayed_Never(db, m) == FALSE
Replayed(db, m) == db.ledger[m.id].type # "none"

apply(db, m, now) ==
  LET entry == db.ledger[m.id]
      proposed == WithLifetime(m, now)
      plan == CASE m.type = "Add"       -> AddPlan(db, m, proposed)
                [] m.type = "Tombstone" -> TombstonePlan(db, m)
                [] m.type = "Supersede" -> SupersedePlan(db, m, proposed, now)
                [] m.type = "Update"    -> UpdatePlan(db, m, proposed)
      written == write_record(plan.db, plan.r, m.scope, plan.version, now)
  IN  IF ~MemoryMutation_validate(m) THEN Refused(db, "InvalidMutation")
      ELSE IF m.type = "Noop" THEN Applied(db, m.proposed.id, 0, FALSE)
      ELSE IF ~check_no_hold(db, m.scope) THEN Refused(db, "ErasurePending")
      ELSE IF Replayed(db, m)
        THEN IF scope_key_of(entry.scope) # scope_key_of(m.scope) THEN Refused(db, "ScopeDenied")
             ELSE Applied(db, entry.record, entry.version, TRUE)
      ELSE IF Refusal(db, m) # "" THEN Refused(db, Refusal(db, m))
      ELSE Applied([written EXCEPT !.ledger[m.id] =
                      [scope |-> m.scope, type |-> m.type, record |-> plan.r.id,
                       version |-> plan.version]],
                   plan.r.id, plan.version, FALSE)

-----------------------------------------------------------------------------
(* The vector index. *)

index_embedding(db, i, text) ==
  IF Present(db, i) /\ read_record(db, i).status = "Active"
    THEN [ok |-> TRUE, db |-> [db EXCEPT !.vectors[i] = {text}]]
    ELSE [ok |-> FALSE, db |-> db]
has_embedding(db, i) == db.vectors[i] # {}
clear_embeddings(db) == [db EXCEPT !.vectors = [i \in Ids |-> {}]]

-----------------------------------------------------------------------------
(* Retrieval. A query has scopes, kinds ({} for all), a sensitivity cap, as-of *)
(* times (Never when not asked), a claim key, a term the statement must hold,  *)
(* text for the full-text leg and text for the vector leg ("" when not         *)
(* asked), and bounds. late: the deadline passed "before" or "after" the index *)
(* legs, or did not ("no").                                                    *)

Expired(r, now) == r.expires # Never /\ r.expires <= now
Live(r, now) == r.status = "Active" /\ ~Expired(r, now)

\* The rows of the scopes asked for, live ones only unless the query is as-of.
Universe(db, q, now) ==
  {i \in Ids : /\ \E k \in DOMAIN q.scopes : InScope(db, i, q.scopes[k])
               /\ q.as_recorded = Never /\ q.as_valid = Never => Live(read_record(db, i), now)
               /\ q.kinds # {} => db.rows[i].kind \in q.kinds
               /\ sensitivity_rank(read_record(db, i).sensitivity) <= sensitivity_rank(q.max_sensitivity)}

AsOf(db, i, known, at, now) ==
  LET versions == {memory_record_from_json(d).value : d \in db.versions[i]}
      seen == SetToSortSeq({r \in versions : r.recorded <= known}, LAMBDA a, b : a.version > b.version)
      closed(k) == {seen[j].until : j \in {j \in 1 .. (k - 1) : seen[j].status = "Superseded"}} \ {Never}
      limit(k) == IF closed(k) = {} THEN seen[k].until ELSE Min(closed(k))
      covers(k) == at = Never \/ (seen[k].from <= at /\ (limit(k) = Never \/ limit(k) > at))
      answers == {k \in DOMAIN seen : seen[k].status = "Tombstoned" \/
                                      (seen[k].status = "Active" /\ covers(k))}
      first == CHOOSE k \in answers : \A j \in answers : k <= j
  IN  IF answers = {} THEN {} ELSE {r \in {seen[first]} : Live(r, now)}

Candidates(db, q, now) ==
  LET known == IF q.as_recorded = Never THEN now ELSE q.as_recorded
      rows == Universe(db, q, now)
      found == IF q.as_recorded = Never /\ q.as_valid = Never
                 THEN {read_record(db, i) : i \in rows}
                 ELSE UNION {AsOf(db, i, known, q.as_valid, now) : i \in rows}
  IN  {r \in found : q.claim = "" \/ memory_claim_key(r.statement).key =
                                       memory_normalize_claim_key([word |-> q.claim, spelling |-> 0])}

\* The legs: the ids each one reached.
Words(statement) == {statement.subject, statement.value} \ {""}
ExactLeg(q, candidates) == {r.id : r \in {r \in candidates : q.term # "" /\ q.term \in Words(r.statement)}}
fts_leg(db, q) == {i \in Ids : /\ q.text # "" /\ q.late # "before"
                               /\ \E s \in db.fts[i] : q.text \in Words(s)}
semantic_eligible(kinds) == \A k \in kinds : memory_kind_policy(k).semantic
VectorLeg(db, q) == {i \in Ids : /\ q.embedding # "" /\ semantic_eligible(q.kinds) /\ q.late # "before"
                                 /\ \E s \in db.vectors[i] : q.embedding \in Words(s)}

Score(r, legs, oldest, newest) ==
  (IF r.id \in legs.exact THEN 180 ELSE 0) + (IF r.id \in legs.fts THEN 120 ELSE 0)
  + (IF r.id \in legs.vector THEN 180 ELSE 0) + 20 * memory_verification_rank(r.verification)
  + 3 * r.confidence + (IF newest > oldest THEN (30 * (r.recorded - oldest)) \div (newest - oldest) ELSE 0)

\* Statements are suppressed once seen, newest first; what is left is packed in
\* the order of the scores, under the result, diversity and token bounds.
Distinct(order) ==
  SelectSeq(order, LAMBDA r : ~ \E k \in DOMAIN order : \E j \in 1 .. (k - 1) :
                     order[k] = r /\ order[j].statement = r.statement)
Pack(q, order) ==
  LET group(r) == <<scope_key_of(r.scope), r.kind>>
      in(s, r) == Cardinality({k \in DOMAIN s : group(s[k]) = group(r)})
      fits(s, r) == /\ Len(s) < q.max_results
                    /\ q.claim = "" => in(s, r) < MaxPerScopeKind
                    /\ 16 * (Len(s) + 1) <= q.token_budget
      after[k \in 0 .. Len(order)] ==
        IF k = 0 THEN << >>
        ELSE LET s == after[k - 1] IN IF fits(s, order[k]) THEN Append(s, order[k]) ELSE s
  IN  after[Len(order)]

\* [ok, code, records]: a query that asked for ranking and matched nothing is
\* answered by nothing, never by the scope, unless it ran out of time.
query(db, q, now) ==
  LET hit(legs) == legs.exact \cup legs.fts \cup legs.vector
      taken(candidates, legs) == {r \in candidates : /\ hit(legs) # {} => r.id \in hit(legs)
                                                     /\ legs.exact # {} => r.id \in legs.exact}
      newest(records) ==
        SetToSortSeq(records, LAMBDA a, b : a.recorded > b.recorded \/ (a.recorded = b.recorded /\ a.id < b.id))
      scores(candidates, legs, times) ==
        [r \in candidates |-> Score(r, legs, Min(times), Max(times))]
      ranked(records, score) == SortSeq(Distinct(newest(records)), LAMBDA a, b : score[a] > score[b])
      ranking == \/ q.text # "" \/ q.term # ""
                 \/ q.embedding # "" /\ semantic_eligible(q.kinds)
      answer(candidates, legs) ==
        IF ranking /\ hit(legs) = {} /\ q.late = "no" THEN << >>
        ELSE Pack(q, ranked(taken(candidates, legs),
                            scores(candidates, legs, {r.recorded : r \in candidates})))
      found(candidates) == answer(candidates, [exact |-> ExactLeg(q, candidates),
                                               fts |-> fts_leg(db, q), vector |-> VectorLeg(db, q)])
  IN  IF ~MemoryQuery_validate(q) THEN [ok |-> FALSE, code |-> "InvalidQuery", records |-> << >>]
      ELSE IF \E k \in DOMAIN q.scopes : ~check_no_hold(db, q.scopes[k])
        THEN [ok |-> FALSE, code |-> "ErasurePending", records |-> << >>]
      ELSE [ok |-> TRUE, code |-> "", records |-> found(Candidates(db, q, now))]

-----------------------------------------------------------------------------
(* Erasure. art is the artifact store: its files and its memory. fails: the    *)
(* artifacts that cannot be erased this time.                                  *)

InOrder(ids) == SetToSortSeq(ids, LAMBDA a, b : a < b)
resolve_targets(db, q) ==
  IF q.scope # << >> THEN InOrder({i \in Ids : InScope(db, i, q.scope[1])}) ELSE <<q.record>>
evidence_artifact(db, i) == IF Present(db, i) THEN read_record(db, i).evidence ELSE 0
Delete(db, i) ==
  [db EXCEPT !.fts[i] = {}, !.vectors[i] = {}, !.versions[i] = {}, !.provenance[i] = {},
             !.rows[i] = NoRow]

EraseOne(s, i, artifacts, fails) ==
  LET without(e) == [db |-> Delete(s.db, i), art |-> [files |-> e.files, live |-> e.live], ok |-> e.ok]
      evidence(c) == IF ~artifacts \/ c = 0 THEN [s EXCEPT !.db = Delete(@, i)]
                     ELSE without(EraseArtifact(s.art.files, s.art.live, c, c \in fails))
  IN  IF s.ok THEN evidence(evidence_artifact(s.db, i)) ELSE s

Release(db, q, scope) == IF q.scope # << >> THEN [db EXCEPT !.holds = @ \ {scope}] ELSE db
Logged(db, scope, record, reason, status) ==
  [db EXCEPT !.log = @ \cup {[scope |-> scope, record |-> record, reason |-> reason, status |-> status]}]
HeldScope(db, q) ==
  IF q.scope # << >> THEN scope_key_of(q.scope[1])
  ELSE IF Present(db, q.record) THEN scope_key_of(db.rows[q.record].scope) ELSE << >>
erase_locked(db, art, q, fails) ==
  LET ids == resolve_targets(db, q)
      after[k \in 0 .. Len(ids)] ==
        IF k = 0 THEN [db |-> db, art |-> art, ok |-> TRUE]
        ELSE EraseOne(after[k - 1], ids[k], q.artifacts, fails)
      scope == HeldScope(db, q)
      logged(end) == Logged(end.db, scope, q.record, q.reason, IF end.ok THEN "complete" ELSE "pending")
      ended(end) == [end EXCEPT !.db = IF end.ok THEN Release(logged(end), q, scope) ELSE logged(end)]
  IN  ended(after[Len(ids)])

record_pending_hold(db, scope, reason) ==
  IF scope = << >> THEN db
  ELSE Logged([db EXCEPT !.holds = @ \cup {scope}], scope, 0, reason, "pending")

\* A failure rolls the deletions back, and then holds the scope.
erase(db, art, q, fails) ==
  LET answer(end) ==
        IF end.ok THEN [status |-> "Complete", db |-> end.db, art |-> end.art]
        ELSE [status |-> "Pending", art |-> end.art,
              db |-> record_pending_hold(db, HeldScope(db, q), q.reason)]
  IN  IF ErasureRequest_validate(q) THEN answer(erase_locked(db, art, q, fails))
      ELSE [status |-> "Invalid", db |-> db, art |-> art]

-----------------------------------------------------------------------------
(* Retention. *)

\* A purge that fails is rolled back to its savepoint and counted.
purge_record(s, i, artifacts, fails) ==
  LET q == [scope |-> << >>, record |-> i, reason |-> "retention-expiry", artifacts |-> artifacts]
      counted(end) == IF end.ok THEN [s EXCEPT !.db = end.db, !.art = end.art, !.purged = @ + 1]
                      ELSE [s EXCEPT !.art = end.art, !.failed = @ + 1]
  IN  counted(erase_locked(s.db, s.art, q, fails))
PurgeAll(s, ids, artifacts, fails) ==
  LET after[k \in 0 .. Len(ids)] ==
        IF k = 0 THEN s ELSE purge_record(after[k - 1], ids[k], artifacts, fails)
  IN  after[Len(ids)]

Old(db, i) ==
  {d \in db.versions[i] : \E e \in db.versions[i] : d.value.version <= e.value.version - KeepVersions}
Prune(db, pairs) ==
  [db EXCEPT !.versions = [i \in Ids |-> {d \in @[i] : <<i, d.value.version>> \notin pairs}]]
OldVersions(db, ids) ==
  UNION {{<<i, d.value.version>> : d \in Old(db, i)} : i \in {i \in ids : Present(db, i)}}

ExpiredRow(db, i, now) == Present(db, i) /\ Expired(read_record(db, i), now)
StaleTombstone(db, i, now) ==
  /\ PurgeHorizon > 0 /\ Present(db, i)
  /\ read_record(db, i).status = "Tombstoned" /\ db.rows[i].updated <= now - PurgeHorizon

\* One scope: expired records with their evidence, old versions, tombstones.
compact(db, art, scope, now, fails) ==
  LET mine == {i \in Ids : InScope(db, i, scope)}
      start == [db |-> db, art |-> art, purged |-> 0, failed |-> 0, more |-> FALSE]
      pruned(s) == [s EXCEPT !.db = Prune(@, OldVersions(@, mine))]
      swept(s) == PurgeAll(s, InOrder({i \in mine : StaleTombstone(s.db, i, now)}), FALSE, fails)
  IN  swept(pruned(PurgeAll(start, InOrder({i \in mine : ExpiredRow(db, i, now)}), TRUE, fails)))

\* Every scope that is not held, oldest first, within the bounds of one pass;
\* old versions are pruned in every scope.
sweep(db, art, o, now, fails) ==
  LET free(d, i) == Present(d, i) /\ check_no_hold(d, d.rows[i].scope)
      first(ids, key(_)) ==
        LET order == SetToSortSeq(ids, LAMBDA a, b : key(a) < key(b) \/ (key(a) = key(b) /\ a < b))
        IN  SubSeq(order, 1, IF Len(order) < o.max_records THEN Len(order) ELSE o.max_records)
      start == [db |-> db, art |-> art, purged |-> 0, failed |-> 0, more |-> FALSE]
      purge(s, ids, artifacts) ==
        [(IF o.late THEN s ELSE PurgeAll(s, ids, artifacts, fails)) EXCEPT
           !.more = @ \/ Len(ids) >= o.max_records \/ (o.late /\ ids # << >>)]
      expired(s) == purge(s, first({i \in Ids : free(s.db, i) /\ ExpiredRow(s.db, i, now)},
                                   LAMBDA i : read_record(s.db, i).expires), TRUE)
      some(old) == IF Cardinality(old) <= o.max_versions THEN old
                   ELSE CHOOSE part \in SUBSET old : Cardinality(part) = o.max_versions
      prune(s, old) == [s EXCEPT !.db = Prune(@, old), !.more = @ \/ Cardinality(old) >= o.max_versions]
      pruned(s) == prune(s, some(OldVersions(s.db, Ids)))
      stale(s) == purge(s, first({i \in Ids : free(s.db, i) /\ StaleTombstone(s.db, i, now)},
                                 LAMBDA i : s.db.rows[i].updated), FALSE)
  IN  IF MemorySweepOptions_validate(o) THEN stale(pruned(expired(start))) ELSE start
=============================================================================

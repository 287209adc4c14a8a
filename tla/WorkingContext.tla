--------------------------- MODULE WorkingContext ---------------------------
(***************************************************************************)
(* The snapshot of what matters to a task now, as functions                *)
(* (context_working_context.cpp and its _fork and _promotion companions):  *)
(* what a snapshot must satisfy, its document, its projection from a       *)
(* conversation checkpoint, the fork a child session starts from, the      *)
(* delta of what the child learned, the merge of a delta into the parent,  *)
(* and the memory candidates a snapshot offers.                            *)
(*                                                                         *)
(* Ids made from a seed are the seed; << >> is the nil one, as 0 is for    *)
(* the others. A content is a statement (MemoryContracts) whose subject    *)
(* tells its length. Confidence is in tenths.                              *)
(***************************************************************************)
EXTENDS MemoryConsolidation

CONSTANT promotion_record_id_from_seed(_)    \* one non-nil id for each seed

Sections == <<"constraints", "decisions", "open_issues", "active_tasks",
              "verified_facts", "failed_attempts", "important_refs", "next_actions">>
SectionNames == {Sections[k] : k \in 1 .. 8}
NoSections == [n \in SectionNames |-> << >>]

\* Bytes: none, an ordinary text, one past the projection's default bound, one
\* past the absolute bound.
Bytes(content) ==
  CASE content.subject = "" -> 0 [] content.subject = "long" -> 600
    [] content.subject = "huge" -> 9000 [] OTHER -> 20

\* WorkingContextMergeOptions and its documented defaults.
Options(items, chars, events) == [items |-> items, chars |-> chars, events |-> events]
DefaultOptions == Options(64, 512, 256)
WorkingContextMergeOptions_validate(o) ==
  o.items \in 1 .. 1024 /\ o.chars \in 16 .. 8192 /\ o.events \in 1 .. 4096

\* A schema of a later major version, or more than one major behind, is refused.
validate_schema_version(major, current) == major <= current /\ current - major <= 1

NoFork == [base |-> << >>, session |-> 0, through |-> 0]
WorkingContextSnapshot_validate(s) ==
  /\ validate_schema_version(s.schema, 1)
  /\ s.id # << >> /\ s.session # 0 /\ s.task # 0 /\ s.through # 0
  /\ Len(s.sources) \in 1 .. 64 /\ \A k \in DOMAIN s.sources : s.sources[k] # 0
  /\ \A n \in SectionNames :
       /\ Len(s.sections[n]) <= 1024
       /\ \A k \in DOMAIN s.sections[n] :
            LET item == s.sections[n][k]
            IN  Bytes(item.content) \in 1 .. 8192 /\ item.events # {} /\ item.confidence \in 0 .. 10
  /\ s.fork # NoFork => s.fork.base # << >> /\ s.fork.session # 0 /\ s.fork.through # 0

\* Everything but the id and the time of making.
state_digest(s) == [s EXCEPT !.id = << >>, !.created = 0]

-----------------------------------------------------------------------------
(* Documents, in the form of MemoryContracts. *)

DefaultSnapshot ==
  [schema |-> 1, id |-> << >>, session |-> 0, task |-> 0, epoch |-> 0, env |-> 0, through |-> 0,
   sources |-> << >>, created |-> 0, by |-> 0, sections |-> NoSections, fork |-> NoFork]

\* An item of a section: content is required; events of another type than a
\* list are passed over, a list with a damaged id is refused; a confidence out
\* of range is brought into it.
DefaultItem == [content |-> [subject |-> "", value |-> "", spelling |-> 0],
                events |-> {}, sequence |-> 0, confidence |-> 0]
Clamp(c) == IF c < 0 THEN 0 ELSE IF c > 10 THEN 10 ELSE c
items_to_json(item) == Document({"content", "events", "sequence", "confidence"}, item)
item_from_json(document) ==
  [ok    |-> /\ "content" \in document.has \ document.bad
             /\ document.bad \cap {"event_id", "sequence", "confidence"} = {},
   value |-> [content    |-> Read(document, DefaultItem, "content"),
              events     |-> Read(document, DefaultItem, "events"),
              sequence   |-> Read(document, DefaultItem, "sequence"),
              confidence |-> Clamp(Read(document, DefaultItem, "confidence"))]]

\* The provenance of a fork is written only when there is one.
working_context_to_json(s) ==
  Document({m \in DOMAIN s : m = "fork" => s.fork # NoFork}, s)

\* The ids are required. A damaged schema or time reads as the default; any
\* other damaged member is refused. What was read must be valid.
Required == {"id", "session", "task"}
Lenient == {"schema", "created"}
SnapshotOf(document) ==
  LET read(m) == Read(document, DefaultSnapshot, m)
  IN  [schema |-> read("schema"), id |-> read("id"), session |-> read("session"),
       task |-> read("task"), epoch |-> read("epoch"), env |-> read("env"),
       through |-> read("through"), sources |-> read("sources"), created |-> read("created"),
       by |-> read("by"), sections |-> read("sections"), fork |-> read("fork")]
working_context_from_json(document) ==
  LET s == SnapshotOf(document)
  IN  [ok    |-> /\ validate_schema_version(s.schema, 1)
                 /\ Required \subseteq document.has
                 /\ document.bad \subseteq Lenient
                 /\ WorkingContextSnapshot_validate(s),
       value |-> s]

\* A snapshot is read back as it was written; a damaged document is refused, or
\* differs from what was written in its schema and its time only; one that lost
\* a member is refused, or is the snapshot without what that member said.
ContextSurvives(s) ==
  working_context_from_json(working_context_to_json(s))
    = [ok |-> WorkingContextSnapshot_validate(s), value |-> s]
DamagedContextIsContained(s, member) ==
  LET document == working_context_to_json(s)
      bad      == working_context_from_json([document EXCEPT !.bad = {member}])
      lost     == working_context_from_json([document EXCEPT !.has = @ \ {member}])
  IN  /\ bad.ok => bad.value = [s EXCEPT !.schema = IF member = "schema" THEN 1 ELSE @,
                                         !.created = IF member = "created" THEN 0 ELSE @]
      /\ lost.ok => /\ member \notin Required
                    /\ \A m \in DOMAIN s \ {member} : lost.value[m] = s[m]

\* An item of a section is read back as it was written; when its document is
\* damaged or lost a member, what is still read as an item with content and
\* provenance says the same from the same events, and is no surer.
DamagedItemIsContained(item, member) ==
  LET document == items_to_json(item)
      read     == {item_from_json([document EXCEPT !.bad = {member}]),
                   item_from_json([document EXCEPT !.has = @ \ {member}])}
  IN  /\ item_from_json(document) = [ok |-> TRUE, value |-> [item EXCEPT !.confidence = Clamp(@)]]
      /\ \A r \in read : r.ok /\ Bytes(r.value.content) > 0 /\ r.value.events # {} =>
           /\ r.value.content = item.content /\ r.value.events = item.events
           /\ r.value.confidence <= Clamp(item.confidence)

-----------------------------------------------------------------------------
(* Projection. *)

ItemFits(item, o) == Bytes(item.content) <= o.chars /\ Cardinality(item.events) <= o.events

\* A checkpoint's statements become items, within the bounds or not at all.
project_items(statements, o) ==
  [ok |-> Len(statements) <= o.items /\ \A k \in DOMAIN statements : ItemFits(statements[k], o),
   items |-> statements]

StatementsValid(statements) ==
  /\ Len(statements) <= 1024
  /\ \A k \in DOMAIN statements :
       /\ Bytes(statements[k].content) \in 1 .. 8192
       /\ statements[k].events # {} /\ statements[k].confidence \in 0 .. 10
ConversationCheckpoint_validate(c) ==
  /\ validate_schema_version(c.schema, 1)
  /\ c.id # 0 /\ c.session # 0 /\ c.through # 0 /\ c.confidence \in 0 .. 10
  /\ \A n \in DOMAIN c.statements : StatementsValid(c.statements[n])

\* The identity must be the checkpoint's own.
Identity(task, epoch, env) == [task |-> task, epoch |-> epoch, env |-> env]
IdentityOf(s) == Identity(s.task, s.epoch, s.env)
working_context_from_checkpoint(c, identity, o) ==
  LET part == [n \in {"constraints", "decisions", "open_issues"} |-> project_items(c.statements[n], o)]
      s == [DefaultSnapshot EXCEPT
              !.id = <<"projection", c.session, identity, c.through>>,
              !.session = c.session, !.task = identity.task, !.epoch = identity.epoch,
              !.env = identity.env, !.through = c.through, !.sources = <<c.id>>,
              !.created = c.created,
              !.sections = [n \in SectionNames |-> IF n \in DOMAIN part THEN part[n].items ELSE << >>]]
  IN  [ok |-> /\ WorkingContextMergeOptions_validate(o) /\ ConversationCheckpoint_validate(c)
              /\ identity = IdentityOf(c)
              /\ \A n \in DOMAIN part : part[n].ok
              /\ WorkingContextSnapshot_validate(s),
       value |-> s]

-----------------------------------------------------------------------------
(* Fork, delta and merge. *)

check_item_bounds(item, o) ==
  Bytes(item.content) \in 1 .. o.chars /\ Cardinality(item.events) \in 1 .. o.events

\* The baseline of a child session: the parent's sections and checkpoints under
\* the child's identity, with the parent it came from.
fork_working_context(parent, seed, o) ==
  LET child == [parent EXCEPT
        !.schema = 1, !.by = 0,
        !.id = <<"fork", parent.id, seed.session, seed.identity, seed.through>>,
        !.session = seed.session, !.task = seed.identity.task, !.epoch = seed.identity.epoch,
        !.env = seed.identity.env, !.through = seed.through,
        !.fork = [base |-> parent.id, session |-> parent.session, through |-> parent.through]]
  IN  [ok |-> /\ WorkingContextMergeOptions_validate(o)
              /\ WorkingContextSnapshot_validate(parent)
              /\ seed.session # 0 /\ seed.identity.task # 0 /\ seed.through # 0
              /\ \A n \in SectionNames :
                   /\ Len(parent.sections[n]) <= o.items
                   /\ \A k \in DOMAIN parent.sections[n] : check_item_bounds(parent.sections[n][k], o)
              /\ WorkingContextSnapshot_validate(child),
       value |-> child]

\* The baseline's items in one numbering: section order, then their own.
canonical_base_entries(base) ==
  FlattenSeq([k \in 1 .. 8 |-> base.sections[Sections[k]]])
Offset(base, k) ==
  LET sum[j \in 0 .. 7] == IF j = 0 THEN 0 ELSE sum[j - 1] + Len(base.sections[Sections[j]])
  IN  sum[k - 1]
Least(set) == CHOOSE i \in set : \A j \in set : i <= j

\* One child item against its section of the baseline: a verbatim copy says
\* nothing, an item that shares an event supersedes the first such, any other is
\* an addition.
DeltaEntry(base, k, item) ==
  LET items  == base.sections[Sections[k]]
      shares == {i \in DOMAIN items : items[i].events \cap item.events # {}}
  IN  IF \E i \in DOMAIN items : items[i].content = item.content THEN << >>
      ELSE << [kind    |-> IF shares = {} THEN "addition" ELSE "supersede",
               index   |-> IF shares = {} THEN 0 ELSE Offset(base, k) + Least(shares),
               section |-> Sections[k], item |-> item] >>

WorkingContextDelta_validate(d) ==
  /\ validate_schema_version(d.schema, 1)
  /\ d.base # << >> /\ d.child # 0
  /\ Len(d.entries) <= DefaultOptions.items * 8
  /\ \A n \in SectionNames :
       Cardinality({k \in DOMAIN d.entries : d.entries[k].section = n}) <= DefaultOptions.items
  /\ \A k \in DOMAIN d.entries :
       /\ d.entries[k].section \in SectionNames
       /\ check_item_bounds(d.entries[k].item, DefaultOptions)
       /\ d.entries[k].item.confidence \in 0 .. 10

working_context_delta_from_fork(base, child, o) ==
  LET of(k) == FlattenSeq([i \in DOMAIN child.sections[Sections[k]] |->
                             DeltaEntry(base, k, child.sections[Sections[k]][i])])
      entries == FlattenSeq([k \in 1 .. 8 |-> of(k)])
      d == [schema |-> 1, base |-> base.id, child |-> child.session, by |-> child.by,
            entries |-> entries,
            skipped |-> Len(canonical_base_entries(child)) - Len(entries)]
  IN  [ok |-> /\ WorkingContextMergeOptions_validate(o)
              /\ WorkingContextSnapshot_validate(base) /\ WorkingContextSnapshot_validate(child)
              /\ \A k \in 1 .. 8 :
                   /\ Len(of(k)) <= o.items
                   /\ \A i \in DOMAIN child.sections[Sections[k]] :
                        check_item_bounds(child.sections[Sections[k]][i], o)
              /\ WorkingContextDelta_validate(d),
       value |-> d]

\* An entry's kind must be one of the two; a delta's ids are required, and only
\* its schema is read leniently.
DefaultDelta == [schema |-> 1, base |-> << >>, child |-> 0, by |-> 0, entries |-> << >>, skipped |-> 0]
working_context_delta_to_json(d) == Document(DOMAIN DefaultDelta, d)
working_context_delta_from_json(document) ==
  LET read(m) == Read(document, DefaultDelta, m)
      d == [schema |-> read("schema"), base |-> read("base"), child |-> read("child"),
            by |-> read("by"), entries |-> read("entries"), skipped |-> read("skipped")]
  IN  [ok    |-> /\ {"base", "child"} \subseteq document.has
                 /\ document.bad \subseteq {"schema"}
                 /\ \A k \in DOMAIN d.entries : d.entries[k].kind \in {"addition", "supersede"}
                 /\ WorkingContextDelta_validate(d),
       value |-> d]
DeltaSurvives(d) ==
  working_context_delta_from_json(working_context_delta_to_json(d))
    = [ok |-> WorkingContextDelta_validate(d), value |-> d]

\* One entry on [ok, sections, more, resolved, stale]: a supersede replaces the
\* first item of its section that still says what the baseline said; when none
\* does it becomes an addition. Additions wait in `more`.
Fold(canonical, st, entry) ==
  LET n      == entry.section
      target == canonical[entry.index].content
      hits   == {i \in DOMAIN st.sections[n] : st.sections[n][i].content = target}
      later  == [st EXCEPT !.more[n] = Append(@, entry.item)]
  IN  IF entry.kind = "addition" THEN later
      ELSE IF entry.index > Len(canonical) THEN [st EXCEPT !.ok = FALSE]
      ELSE IF hits = {} THEN [later EXCEPT !.stale = @ + 1]
      ELSE [st EXCEPT !.sections[n][Least(hits)] = entry.item, !.resolved = @ + 1]

\* The delta folded into the parent: what the parent has keeps its place,
\* additions fill what room there is, the rest is counted.
merge_working_context_delta(base, parent, d, identity, through, o) ==
  LET canonical == canonical_base_entries(base)
      after[k \in 0 .. Len(d.entries)] ==
        IF k = 0 THEN [ok |-> TRUE, sections |-> parent.sections, more |-> NoSections,
                       resolved |-> 0, stale |-> 0]
        ELSE Fold(canonical, after[k - 1], d.entries[k])
      end     == after[Len(d.entries)]
      all     == [n \in SectionNames |-> end.sections[n] \o end.more[n]]
      kept    == [n \in SectionNames |->
                    SubSeq(all[n], 1, IF Len(all[n]) > o.items THEN o.items ELSE Len(all[n]))]
      total(f(_)) == LET sum[k \in 0 .. 8] == IF k = 0 THEN 0 ELSE sum[k - 1] + f(Sections[k])
                     IN  sum[8]
      added(n) == IF Len(all[n]) <= o.items THEN Len(end.more[n])
                  ELSE IF o.items > Len(parent.sections[n]) THEN o.items - Len(parent.sections[n])
                  ELSE 0
      merged  == [parent EXCEPT !.schema = 1, !.through = through, !.fork = NoFork,
                                !.sections = kept]
      named   == [merged EXCEPT !.id = <<"merge", parent.id, base.id, through, state_digest(merged)>>]
  IN  [ok |-> /\ WorkingContextMergeOptions_validate(o)
              /\ WorkingContextSnapshot_validate(base) /\ WorkingContextSnapshot_validate(parent)
              /\ WorkingContextDelta_validate(d)
              /\ base.id = d.base /\ base.session # parent.session
              /\ identity = IdentityOf(parent)
              /\ end.ok /\ WorkingContextSnapshot_validate(named),
       value |-> named, resolved |-> end.resolved, stale |-> end.stale,
       appended |-> total(added),
       truncated |-> total(LAMBDA n : Len(all[n]) - Len(kept[n]))]

-----------------------------------------------------------------------------
(* Promotion and admission. *)

\* The sections that may become memory, and the kind each becomes. What the task
\* is doing now is not among them.
Promotable == << [section |-> "constraints", kind |-> "Preference"],
                 [section |-> "decisions", kind |-> "ApplicationFact"],
                 [section |-> "verified_facts", kind |-> "EnvironmentFact"],
                 [section |-> "failed_attempts", kind |-> "RecoveryLesson"] >>
WorkingContextPromotionPolicy_validate(p) == p.floor \in 0 .. 10 /\ p.max > 0

\* A candidate is unverified and internal whatever it came from; its id is made
\* from its scope, section and content.
PromotionCandidate(s, scope, row, item) ==
  [proposed |-> [DefaultRecord EXCEPT
      !.id = promotion_record_id_from_seed(<<scope.kind, scope.subject, row.section, item.content>>),
      !.scope = scope, !.kind = row.kind, !.statement = item.content, !.from = s.created,
      !.provenance = SetToSeq(item.events), !.confidence = item.confidence, !.ns = "working-context"],
   evidence |-> SetToSeq(item.events), reason |-> "Consolidation", model |-> TRUE]

\* Every item is judged, also past the bound on candidates.
memory_candidates_from_working_context(s, scope, p) ==
  LET rows == FlattenSeq([r \in DOMAIN Promotable |->
                [k \in DOMAIN s.sections[Promotable[r].section] |->
                   [row |-> Promotable[r], item |-> s.sections[Promotable[r].section][k]]]])
      sure == SelectSeq(rows, LAMBDA x : x.item.confidence >= p.floor)
      good == SelectSeq(sure, LAMBDA x : x.item.events # {})
      room == IF Len(good) > p.max THEN p.max ELSE Len(good)
  IN  [ok |-> WorkingContextPromotionPolicy_validate(p) /\ WorkingContextSnapshot_validate(s),
       candidates |-> [k \in 1 .. room |-> PromotionCandidate(s, scope, good[k].row, good[k].item)],
       unsure |-> Len(rows) - Len(sure), unproven |-> Len(sure) - Len(good)]

\* Promotion is consolidation of the offer: [ok, fates], each candidate's
\* disposition given the records found to make its claim.
promote_working_context_to_memory(s, scope, p, now, found) ==
  LET projection == memory_candidates_from_working_context(s, scope, p)
      examined   == Examined(projection.candidates)
      fate(c)    == IF Screen(c, scope, now) # "" THEN Screen(c, scope, now)
                    ELSE Plan(c, scope, now, found, 1, 2).disposition
  IN  [ok |-> projection.ok, fates |-> [k \in DOMAIN examined |-> fate(examined[k])]]

\* The items of a request: constraints as constraints, the rest as summaries, all
\* of them as untrusted data.
context_items_from_working_context(s) ==
  FlattenSeq([k \in 1 .. 8 |->
    [i \in DOMAIN s.sections[Sections[k]] |->
       [kind |-> IF Sections[k] = "constraints" THEN "UserConstraint" ELSE "CheckpointSummary",
        authority |-> "UntrustedExternalData", content |-> s.sections[Sections[k]][i].content,
        provenance |-> s.sections[Sections[k]][i].events, epoch |-> s.epoch, env |-> s.env]]])

-----------------------------------------------------------------------------
(* What the functions promise. *)

\* A projection says what its checkpoint says, all of it, under the checkpoint's
\* own identity; its document survives; a child can be forked from it within the
\* bounds it was made under; and it enters a request as untrusted data that names
\* the events behind every line (working_context_from_checkpoint,
\* context_items_from_working_context).
ProjectionIsFaithful(c, identity, seed, o) ==
  LET p     == working_context_from_checkpoint(c, identity, o)
      said  == c.statements["constraints"] \o c.statements["decisions"] \o c.statements["open_issues"]
      items == context_items_from_working_context(p.value)
  IN  p.ok =>
        /\ IdentityOf(p.value) = IdentityOf(c) /\ canonical_base_entries(p.value) = said
        /\ ContextSurvives(p.value)
        /\ fork_working_context(p.value, seed, o).ok
        /\ Len(items) = Len(said)
        /\ \A k \in DOMAIN items :
             /\ items[k].authority = "UntrustedExternalData" /\ items[k].provenance # {}
             /\ items[k].provenance = said[k].events /\ items[k].content = said[k].content

\* A fork inherits everything; nothing that is not new comes back as news; and
\* merging what the child learned into a parent that may have moved on loses
\* nothing of either side while there is room: every item of the parent is there
\* or was superseded by an item that is, every new item of the child is there,
\* the parent's own order is kept, and every entry is counted (unless the parent
\* itself is past the bound: its own items are then cut off as well). A merge
\* without news at the parent's own watermark is the parent
\* (fork_working_context, working_context_delta_from_fork,
\* merge_working_context_delta).
ForkRoundTrip(origin, parent, seed, edits, o) ==
  LET edited(base) == [base EXCEPT !.sections = [n \in SectionNames |-> @[n] \o edits[n]]]
      delta_of(base, child) == working_context_delta_from_fork(base, child, DefaultOptions)
      merged(base, delta, at, bounds) ==
        merge_working_context_delta(base, parent, delta, IdentityOf(parent), at, bounds)
      idle(delta, merge) ==
        /\ delta.ok /\ delta.value.entries = << >>
        /\ merge.ok => state_digest(merge.value) = state_digest([parent EXCEPT !.fork = NoFork])
      news(entries, n) ==
        {entries[k].item : k \in {j \in DOMAIN entries : entries[j].section = n}}
      complete(entries, merge) ==
        /\ merge.resolved + merge.stale
             = Cardinality({k \in DOMAIN entries : entries[k].kind = "supersede"})
        /\ (\A n \in SectionNames : Len(parent.sections[n]) <= o.items) =>
             merge.resolved + merge.appended + merge.truncated = Len(entries)
        /\ merge.truncated = 0 =>
             \A n \in SectionNames :
               LET now == merge.value.sections[n]
                   old == parent.sections[n]
               IN  /\ \A item \in news(entries, n) : \E k \in DOMAIN now : now[k] = item
                   /\ \A k \in DOMAIN old : now[k] = old[k] \/ now[k] \in news(entries, n)
      whole(entries, merge) == merge.ok => complete(entries, merge)
      round(base, delta, unchanged) ==
        delta.ok =>
          /\ idle(unchanged, merged(base, unchanged.value, parent.through, DefaultOptions))
          /\ whole(delta.value.entries, merged(base, delta.value, parent.through + 1, o))
      trip(base) == base.ok => round(base.value, delta_of(base.value, edited(base.value)),
                                     delta_of(base.value, base.value))
  IN  trip(fork_working_context(origin, seed, DefaultOptions))

\* A snapshot offers memory only what it is sure of, never what the task is doing
\* now; a kind that waits for a human is not applied; and a promotion never
\* replaces a record that says the same at least as surely, however it is spelled
\* (memory_candidates_from_working_context, promote_working_context_to_memory).
PromotionIsModest(s, scope, p, now, old) ==
  LET offer == memory_candidates_from_working_context(s, scope, p)
      fates == promote_working_context_to_memory(s, scope, p, now, <<old>>).fates
      contents(names) == UNION {{s.sections[n][k].content : k \in DOMAIN s.sections[n]} : n \in names}
      passing == {"open_issues", "active_tasks", "important_refs", "next_actions"}
  IN  offer.ok =>
        \A k \in DOMAIN fates :
          LET r == offer.candidates[k].proposed
          IN  /\ r.statement \in contents(SectionNames \ passing) /\ r.confidence >= p.floor
              /\ fates[k] = "apply" =>
                   /\ r.kind \notin ApprovalKinds
                   /\ ~ /\ old.kind = r.kind /\ old.status = "Active"
                        /\ <<old.statement.subject, old.statement.value>>
                             = <<r.statement.subject, r.statement.value>>
=============================================================================

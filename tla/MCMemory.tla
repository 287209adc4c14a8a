------------------------------ MODULE MCMemory ------------------------------
(* Long-term memory and the working context on small instances: the memory   *)
(* store in use, the artifact store under concurrent writers, the supervisor *)
(* of context and memory work, the refresh of the working context, and the   *)
(* functions on records, facts and snapshots. They share no state except the *)
(* artifact files, so a behaviour moves one part and leaves the others as    *)
(* they began. A function is checked on every input of a bounded set.        *)
EXTENDS Integers, Sequences, FiniteSets

VARIABLES
  part, case,
  db, channel, callers, clock, fate, files, live,    \* the memory store in use
  writers, told,                                     \* the artifact store
  supervisor, ops, shutters,                         \* the supervisor
  world, rings, chains, jobs, host                   \* the refresh

\* The functions on records, facts and snapshots. One candidate at a time gets its
\* id from a seed here.
SeedId(seed) == 5
Context == INSTANCE WorkingContext WITH
  Day <- 1, ApprovalKinds <- {"Preference", "Procedure"}, MaxCandidates <- 4,
  promotion_record_id_from_seed <- SeedId

-----------------------------------------------------------------------------
(* The memory store: two callers and four histories. Two consolidations of   *)
(* the same claim race; a correction is retried while the record is retired  *)
(* and swept, and its vector repaired; a scope is erased, with evidence,     *)
(* while something is learnt about it; a repair races with an erasure.       *)

Home == [kind |-> "Environment", subject |-> "home", tenant |-> ""]
Lab == [Home EXCEPT !.subject = "lab"]
Statement(value, spelling) == [subject |-> "volume", value |-> value, spelling |-> spelling]
Fact(id, scope, value, evidence, at) ==
  [Context!DefaultRecord EXCEPT
     !.id = id, !.scope = scope, !.statement = Statement(value, 0), !.evidence = evidence, !.from = at,
     !.recorded = at, !.provenance = <<id>>, !.verification = "Verified", !.confidence = 9]
Change(id, type, expected, r) ==
  [id |-> id, type |-> type, scope |-> Home, target |-> 1, expected |-> expected, proposed |-> r,
   evidence |-> <<1>>, reason |-> "HumanCorrection"]
Learn(value, mutation, fresh, at) ==
  [kind |-> "consolidate", scope |-> Home, mutation |-> mutation, fresh |-> fresh,
   candidate |-> [proposed |-> [Fact(fresh, Home, value, 0, at) EXCEPT !.provenance = <<7>>],
                  evidence |-> <<7>>, reason |-> "VerifiedEvent", model |-> FALSE]]
Job(kind, arg) == [kind |-> kind, arg |-> arg]
Erase == Job("erase", [scope |-> <<Home>>, record |-> 0, reason |-> "privacy", artifacts |-> TRUE])
Forget(i) == Job("erase", [scope |-> << >>, record |-> i, reason |-> "privacy", artifacts |-> TRUE])
Sweep == Job("sweep", [max_records |-> 1, max_versions |-> 1, deadline |-> 10, late |-> FALSE])
Around(ticks, timeouts, restarts, faults, stops) ==
  [now |-> 2, ticks |-> ticks, timeouts |-> timeouts, restarts |-> restarts, faults |-> faults,
   stops |-> stops]
History(records, artifacts, one, two, around) ==
  [records |-> records, artifacts |-> artifacts, jobs |-> <<one, two>>, clock |-> around]
MCHistories ==
  {History(<<Fact(1, Home, "30", 0, 1)>>, {},
           <<Learn("40", 1, 3, 2)>>, <<Learn("50", 2, 4, 3), Job("compact", Home)>>,
           Around(1, 1, 0, 0, 1)),
   History(<<Fact(1, Home, "30", 0, 1)>>, {},
           <<Job("apply", Change(1, "Update", 1, Fact(1, Home, "31", 0, 2))), Job("repair", Home)>>,
           <<Job("apply", Change(2, "Tombstone", 2, Fact(1, Home, "31", 0, 2))), Sweep>>,
           Around(2, 1, 1, 0, 0)),
   History(<<Fact(1, Home, "30", 1, 1), Fact(2, Home, "x", 2, 1)>>, {1, 2},
           <<Erase, Erase>>, <<Learn("40", 1, 3, 2), Forget(2)>>, Around(0, 1, 1, 1, 0)),
   History(<<Fact(1, Home, "30", 1, 1), Fact(2, Lab, "30", 2, 1)>>, {1, 2},
           <<Job("repair", Home), Job("compact", Home)>>,
           <<Forget(1), Job("clear", [all |-> TRUE]), Sweep>>, Around(2, 0, 0, 1, 1))}
NoHistory == History(<< >>, {}, << >>, << >>, Around(0, 0, 0, 0, 0))

About == [scopes |-> <<Home>>, kinds |-> {"EnvironmentFact"}, max_sensitivity |-> "Secret",
          as_recorded |-> -1, as_valid |-> -1, claim |-> "volume", term |-> "", text |-> "",
          embedding |-> "", late |-> "no", max_results |-> 16, token_budget |-> 4096]
MCQueries ==
  {About, [About EXCEPT !.kinds = {}, !.claim = "", !.text = "volume"], [About EXCEPT !.as_valid = 1],
   [About EXCEPT !.as_valid = 2], [About EXCEPT !.as_valid = 3, !.embedding = "volume"]}

\* Two writers of the artifact store; the third content fills it alone.
MCScripts ==
  {<< << <<"commit", 1>>, <<"erase", 1>>, <<"commit", 1>> >>, << <<"commit", 1>>, <<"commit", 2>> >> >>,
   << << <<"commit", 1>>, <<"erase", 1>> >>, << <<"commit", 2>>, <<"commit", 1>> >> >>,
   << << <<"commit", 1>>, <<"erase", 1>> >>, << <<"commit", 3>>, <<"commit", 3>> >> >>}

Memory == INSTANCE MemoryService WITH
  Day <- 1, Ids <- 1 .. 4, MutationIds <- {1, 2}, KeepVersions <- 1, PurgeHorizon <- 7,
  MaxPerScopeKind <- 1, MaxVectorScan <- 4, Contents <- {1, 2, 3}, SizeOf <- <<1, 1, 2>>,
  MaxTotalBytes <- 2, MaxFaults <- 1, MaxCrashes <- 1, Writers <- {1, 2}, Scripts <- MCScripts,
  Callers <- {1, 2}, Loads <- MCHistories, MaxPending <- 2, Queries <- MCQueries,
  ClockStep <- 8, ApprovalKinds <- {"Preference", "Procedure"}, MaxCandidates <- 4

-----------------------------------------------------------------------------
(* The supervisor: a critical and a deferrable operation, one slot, two      *)
(* callers of begin_shutdown. The refresh: two sessions, two refreshes, one  *)
(* tracked session, a change of epoch.                                       *)

Supervised == INSTANCE ContextSupervisor WITH
  Operations <- {1, 2}, LabelOf <- <<"mutation", "retention_sweep">>,
  ClassOf <- <<"Critical", "Deferrable">>, MutationTypeOf <- <<"Supersede", "Add">>,
  max_in_flight <- 1, Shutters <- {1, 2}, MaxFaults <- 1
Refresh == INSTANCE ContextRefresh WITH
  Sessions <- {1, 2}, Refreshes <- {1, 2}, Texts <- {1}, watermark_interval <- 1,
  event_count_interval <- 2, max_tracked_sessions <- 1, max_snapshots_per_session <- 2,
  MaxWatermark <- 2, MaxEpoch <- 2, MaxCalls <- 3

-----------------------------------------------------------------------------
(* Inputs of the functions. *)

\* Records and mutations, and the members of their documents that are damaged.
Records ==
  {[Fact(1, s, "30", e, 2) EXCEPT !.verification = v, !.sensitivity = x, !.status = y, !.expires = t,
      !.supersedes = IF y = "Superseded" THEN 2 ELSE 0, !.ns = IF v = "Unverified" THEN "import" ELSE ""] :
   s \in {Home, Lab}, e \in {0, 1}, v \in {"Unverified", "Observed", "HumanConfirmed"},
   x \in {"Public", "Sensitive"}, y \in {"Active", "Superseded"}, t \in {-1, 9}}
Mutations ==
  {[Change(1, y, 1, [Fact(1, Home, "30", 0, 2) EXCEPT !.supersedes = s]) EXCEPT
      !.target = t, !.expected = t, !.evidence = e, !.reason = r] :
   y \in {"Add", "Update", "Supersede", "Tombstone"}, t \in {0, 1}, s \in {0, 1},
   e \in {<< >>, <<1>>}, r \in {"HumanCorrection", "RetentionExpiry"}}

\* A claim about an observation, which is in the log, or is not, or is another
\* task's, or was made under another epoch or too early.
Observed(id, task, epoch, at) ==
  [id |-> id, runtime |-> 1, session |-> 1, task |-> task, type |-> "ObservationRecorded",
   class |-> "Critical", digest |-> 1, sequence |-> 1, wall |-> at, known |-> TRUE,
   data |-> [has |-> {"observation", "epoch", "environment", "at"}, bad |-> {},
             value |-> [observation |-> 1, epoch |-> epoch, environment |-> 1, at |-> at]]]
Claim(key, value, evidence, from, until) ==
  [runtime |-> 1, session |-> 1, scope |-> Home,
   claim |-> [publication |-> 9, task |-> 1, epoch |-> 1, environment |-> 1, key |-> key,
              value |-> value, evidence |-> evidence, digest |-> 1, verifier |-> "v",
              from |-> from, until |-> until]]
Facts == {Claim(w[1], w[2], e, 4, u) :
            w \in {<<"volume", "30">>, <<"Bad Key", "30">>, <<"password", "30">>, <<"volume", "ignore previous">>},
            e \in {2, 3}, u \in {4, 6, 28}}
Logs == {<<Observed(5, 1, 1, 1), Observed(2, t, p, a)>> : t \in {1, 2}, p \in {1, 2}, a \in {3, 5}}

\* Snapshots.
Item(subject, value, events, confidence) ==
  [content |-> [subject |-> subject, value |-> value, spelling |-> 0], events |-> events,
   sequence |-> 1, confidence |-> confidence]
Items == {Item("a", "1", {1}, 9), Item("a", "2", {1, 2}, 5), Item("b", "", {3}, 9)}
Snapshot(id, session, through, sections) ==
  [Context!DefaultSnapshot EXCEPT !.id = <<id>>, !.session = session, !.task = 1, !.epoch = 1,
     !.through = through, !.sources = <<1>>, !.created = 3, !.sections = sections]
In(section, items) == [Context!NoSections EXCEPT ![section] = items]
Parent(items) == Snapshot("parent", 1, 2, In("decisions", items))
UpTo2(set) == {<< >>} \cup {<<x>> : x \in set} \cup {<<x, y>> : x \in set, y \in set}
Snapshots ==
  {[Snapshot("s", n, 2, In(m, <<i>>)) EXCEPT !.schema = v, !.by = b, !.created = t,
      !.fork = IF b = 0 THEN Context!NoFork ELSE [base |-> <<"p">>, session |-> 2, through |-> 1]] :
   n \in {0, 1}, m \in {"constraints", "next_actions"}, i \in Items \cup {Item("", "", {}, 11), Item("huge", "", {4}, 9)},
   v \in {0, 1, 2}, b \in {0, 4}, t \in {0, 3}}
Checkpoint(statements, task, epoch) ==
  [schema |-> 1, id |-> 7, session |-> 1, task |-> task, epoch |-> epoch, env |-> 0, through |-> 2,
   created |-> 3, confidence |-> 9,
   statements |-> [n \in {"constraints", "decisions", "open_issues"} |->
                     IF n \in DOMAIN statements THEN statements[n] ELSE << >>]]
Seed == [session |-> 2, identity |-> Context!Identity(2, 1, 1), through |-> 1]

NoCase == [of |-> "none"]
MemoryCases(c) ==
  \/ \E r \in Records : \E bad \in {{}} \cup {{m, n} : m, n \in DOMAIN r} :
       c = [of |-> "record", record |-> r, bad |-> bad]
  \/ \E m \in Mutations : \E n \in DOMAIN m : c = [of |-> "mutation", mutation |-> m, bad |-> n]
  \/ \E s \in Snapshots : \E m \in DOMAIN s : c = [of |-> "snapshot", snapshot |-> s, bad |-> m]
  \/ \E i \in Items \cup {Item("", "", {}, 11), Item("a", "1", {1}, 11)} : \E m \in DOMAIN i \cup {"event_id"} :
       c = [of |-> "item", item |-> i, bad |-> m]
  \/ \E a, d \in UpTo2(Items \cup {Item("long", "", {4}, 9), Item("", "", {4}, 9)}), t \in {1, 2},
        o \in {Context!DefaultOptions, Context!Options(1, 16, 1), Context!Options(2, 700, 1), Context!Options(0, 512, 1)} :
       c = [of |-> "checkpoint", constraints |-> a, decisions |-> d, task |-> t, options |-> o]
  \/ \E f \in Facts, l \in Logs, x \in 1 .. 2, g \in BOOLEAN, s \in {4, 6}, e \in {5, 6}, z \in {5, 30},
        h \in {Home, Lab} :
       c = [of |-> "fact", fact |-> f, log |-> l, max |-> x, granted |-> g, start |-> s, end |-> e,
            later |-> z, scope |-> h]
  \/ \E a, b, d \in UpTo2(Items) : \E items \in {1, 2, 64} :
       c = [of |-> "fork", origin |-> a, parent |-> b, edits |-> d, items |-> items]
  \/ \E n \in Context!SectionNames, i \in Items, f \in {0, 6}, v \in {"Unverified", "HumanConfirmed"},
        p \in {0, 1}, y \in {"Active", "Superseded"} :
       c = [of |-> "promote", section |-> n, item |-> i, floor |-> f, verification |-> v,
            spelling |-> p, status |-> y]

-----------------------------------------------------------------------------
AtRest ==
  /\ Memory!StartWith(NoHistory) /\ files = Memory!EmptyFiles /\ live = Memory!NotLoaded
  /\ writers = << >> /\ told = << >>
  /\ Supervised!SupervisorInit /\ Refresh!RefreshInit
MemoryInit ==
  \/ part \in {"supervisor", "refresh"} /\ case = NoCase /\ AtRest
  \/ part = "record" /\ MemoryCases(case) /\ AtRest
  \/ /\ part = "memory" /\ case = NoCase /\ Memory!ServiceInit
     /\ writers = << >> /\ told = << >> /\ Supervised!SupervisorInit /\ Refresh!RefreshInit
  \/ /\ part = "artifact" /\ case = NoCase /\ Memory!StartWith(NoHistory) /\ Memory!ArtifactInit
     /\ Supervised!SupervisorInit /\ Refresh!RefreshInit

memoryVars ==
  <<part, case, db, channel, callers, clock, fate, files, live, writers, told, supervisor, ops,
    shutters, world, rings, chains, jobs, host>>
MemoryNext ==
  \/ /\ part = "memory" /\ Memory!ServiceNext
     /\ UNCHANGED <<part, case, writers, told, supervisor, ops, shutters, world, rings, chains, jobs, host>>
  \/ /\ part = "artifact" /\ Memory!ArtifactNext
     /\ UNCHANGED <<part, case, db, channel, callers, clock, fate, supervisor, ops, shutters, world,
                    rings, chains, jobs, host>>
  \/ /\ part = "supervisor" /\ Supervised!SupervisorNext
     /\ UNCHANGED <<part, case, db, channel, callers, clock, fate, files, live, writers, told, world,
                    rings, chains, jobs, host>>
  \/ /\ part = "refresh" /\ Refresh!RefreshNext
     /\ UNCHANGED <<part, case, db, channel, callers, clock, fate, files, live, writers, told,
                    supervisor, ops, shutters>>

MemorySpec == MemoryInit /\ [][MemoryNext]_memoryVars

-----------------------------------------------------------------------------
(* Properties. *)

\* A mutation takes effect at most once and its caller hears the truth, and no caller
\* of the store waits for ever (SqliteMemoryStore::apply, StoreChannel).
MutationsOnce == part = "memory" => Memory!MutationsOnce
\* The supervisor's counters, events and answers agree, its bound holds, and a shutdown
\* report counts what really settled (ContextMemorySupervisor).
SupervisorHonest == part = "supervisor" => Supervised!SupervisorHonest
\* Racing refreshes leave a session's ring in order, and the coordinator takes for
\* settled only what was committed (commit_working_context, WorkingContextAutoCurator).
RefreshHonest == part = "refresh" => Refresh!RefreshHonest
\* A flush that answers that nothing has to be done has a snapshot of the identity and
\* watermark it was asked for (WorkingContextAutoCurator::flush).
FlushCoversItsChain == part = "refresh" => Refresh!FlushCoversItsChain

\* Records, mutations, snapshots and deltas mean the same after they were written
\* and read; a damaged document is refused or loses no more than what was damaged,
\* and never reads as more trusted or less sensitive (memory_contracts.cpp,
\* context_working_context.cpp, context_working_context_fork.cpp).
RecordsKeepMeaning ==
  CASE case.of = "record" -> /\ case.bad = {} => Context!RecordSurvives(case.record)
                             /\ Context!DamageIsContained(case.record, case.bad)
    [] case.of = "mutation" -> Context!DamagedMutationIsRefused(case.mutation, case.bad)
    [] case.of = "snapshot" -> /\ Context!ContextSurvives(case.snapshot)
                               /\ Context!DamagedContextIsContained(case.snapshot, case.bad)
    [] case.of = "item" -> Context!DamagedItemIsContained(case.item, case.bad)
    [] case.of = "checkpoint" ->
         Context!ProjectionIsFaithful(
           Checkpoint([constraints |-> case.constraints, decisions |-> case.decisions], case.task, 1),
           Context!Identity(1, 1, 0), Seed, case.options)
    [] case.of = "fork" ->
         LET base == Context!fork_working_context(Parent(case.origin), Seed, Context!DefaultOptions).value
         IN  Context!DeltaSurvives(Context!working_context_delta_from_fork(
               base, [base EXCEPT !.sections["decisions"] = @ \o case.edits], Context!DefaultOptions).value)
    [] OTHER -> TRUE

\* What is learnt is backed: a published fact by an observation, while it is valid;
\* what a fork brings back by what its child said, without loss to the parent; what
\* a snapshot offers to memory by what it is sure of, never over a record that says
\* the same more surely (verified_fact.cpp, memory_consolidation.cpp,
\* context_working_context_fork.cpp, context_working_context_promotion.cpp).
LearningIsBacked ==
  CASE case.of = "fact" ->
         Context!FactIsBacked(case.fact, case.log,
           [session |-> 1, task |-> 1, epoch |-> 1, operation |-> 1, cancelled |-> FALSE, deadline |-> -1],
           [page |-> 1, max |-> case.max], case.granted, case.start, case.end, case.later, case.scope)
    [] case.of = "fork" ->
         Context!ForkRoundTrip(Parent(case.origin), Parent(case.parent), Seed, In("decisions", case.edits),
                               Context!Options(case.items, 512, 256))
    [] case.of = "promote" ->
         \A row \in {Context!Promotable[k] : k \in 1 .. 4} :
           Context!PromotionIsModest(
             Snapshot("s", 1, 2, In(case.section, <<case.item>>)), Home, [floor |-> case.floor, max |-> 2], 5,
             [Fact(3, Home, case.item.content.value, 0, 1) EXCEPT
                !.kind = row.kind, !.verification = case.verification, !.status = case.status,
                !.supersedes = 1, !.statement = [case.item.content EXCEPT !.spelling = case.spelling]])
    [] OTHER -> TRUE
=============================================================================

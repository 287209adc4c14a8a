---------------------------- MODULE MCKnowledge ----------------------------
(* What agents know, on small instances: the workflow library with its       *)
(* skills, the route planner and the pure functions on documents, which are  *)
(* here, and memory and the working context (MCMemory). They share no state: *)
(* a behaviour moves one part and leaves the others as they began. A         *)
(* function is checked on every input of a bounded set, one input per        *)
(* initial state.                                                            *)
EXTENDS Skills

VARIABLES part, nav, case

-----------------------------------------------------------------------------
(* The library: a plain tool and a skill of the same workflow that calls     *)
(* itself. Two publishers race with the evolution of the tool, with skill    *)
(* operations and a call, or with sealing, closing and shutdown.             *)

NoArguments == Value("object", << >>)
Bare(name) == Text(FALSE, name, FALSE, 0)
ToolStep(id, text, arguments) ==
  [id |-> id, kind |-> "ToolCall", tool |-> text, args |-> arguments]
MCDefs ==
  << [id |-> 1, digest |-> 1, minor |-> 0, waits |-> FALSE,
      steps |-> << ToolStep(1, Bare("t"), NoArguments) >>],
     [id |-> 1, digest |-> 2, minor |-> 1, waits |-> TRUE,
      steps |-> << ToolStep(1, Text(TRUE, "s", FALSE, 0), NoArguments) >>] >>

Open == object_schema(<< >>, << >>)
Needs(schema) == object_schema([key \in {"x"} |-> schema], << "x" >>)
ToolSpec(name, digest, effects, schema) ==
  [name |-> name, digest |-> digest, effects |-> effects, schema |-> schema]
MCSpecs ==
  [t |-> << ToolSpec("t", 1, FALSE, Open), ToolSpec("t", 2, TRUE, Open),
            ToolSpec("t", 3, FALSE, Needs(Type("string"))) >>]

Plain(do) == [do |-> do]
On(do, name) == [do |-> do, name |-> name]
With(do, d, version) == [do |-> do, name |-> "s", d |-> d, version |-> version]
MCLoads ==
  {[pubs |-> [a |-> 1, c |-> 1],
    plan |-> << On("evolve", "t"), With("draft", 1, 0), Plain("shutdown") >>],
   [pubs |-> [a |-> 1, b |-> 2],
    plan |-> << With("publish", 1, 1), Plain("register"), With("upgrade", 2, 2),
                Plain("register"), On("call", "s"), On("revoke", "s"), With("publish", 1, 3) >>],
   [pubs |-> [a |-> 1],
    plan |-> << With("publish", 1, 1), Plain("register"), On("evolve", "t"), On("call", "s"),
                Plain("seal"), On("revoke", "s"), Plain("register"), Plain("close") >>]}
FirstLoad == CHOOSE l \in MCLoads : Len(l.plan) = 3

-----------------------------------------------------------------------------
(* Routes over four states and six transitions; costs may be negative (and   *)
(* are refused), a guard may fail or not be decidable, an edge may lead      *)
(* nowhere, the search may be cut short.                                     *)

Ir == INSTANCE WorkflowIr WITH
  MaxString <- 3, MaxEnum <- 2, MaxAttemptsCeiling <- 2, MaxIterationsCeiling <- 3,
  MaxRetriesCeiling <- 2
N(n) == Ir!J("integer", n)
S(chars) == Ir!J("string", chars)

Confidence == [confidence |-> 50, observed_at_ms |-> 0, last_verified_ms |-> 0,
               verified_count |-> 0, failure_count |-> 0]
Costs(latency, risk) ==
  [latency_ms |-> latency, failure_probability |-> 0, risk |-> risk, energy |-> 0,
   model_cost |-> 0, agent_required |-> FALSE]
Guard(op, value) == << [signal |-> "a", op |-> op, value |-> value] >>
Edge(id, from, to, costs, guard) ==
  [id |-> id, from_state |-> from, to_state |-> to, tool |-> "tap", guard |-> guard,
   costs |-> costs, confidence |-> Confidence]
MCNavCases ==
  {[doc |->
      [states |-> [i \in 1 .. 4 |-> [id |-> i, confidence |-> Confidence]],
       transitions |->
         << Edge(1, 1, 2, Costs(c[1], 0), << >>),
            Edge(2, 1, 3, Costs(c[2], 1), IF g THEN << >> ELSE Guard("ne", N(1))),
            Edge(3, 2, 3, Costs(c[3], 0), << >>),
            Edge(4, 2, 4, [Costs(2, 0) EXCEPT !.agent_required = a], << >>),
            Edge(5, 3, far, Costs(1, 0), << >>),
            Edge(6, 1, 2, Costs(1, 0), IF g THEN << >> ELSE Guard("lt", S(<<1>>))) >>],
    from |-> 1, to |-> 4,
    weights |-> [latency |-> 1, failure |-> 1, model_cost |-> 1, risk |-> 1, energy |-> 1],
    context |-> [opaque |-> FALSE, signals |-> [a |-> N(1)]],
    options |-> [allow_agent_edges |-> FALSE, max_edge_evaluations |-> m, max_path_edges |-> p]] :
   c \in [1 .. 3 -> {-2, 0, 3}], g \in BOOLEAN, a \in BOOLEAN, far \in {4, 5}, m \in {3, 9},
   p \in {2, 9}}
Route == INSTANCE Navigation WITH
  NavCases <- MCNavCases, CountLimit <- 8, MaxString <- 3, MaxEnum <- 2,
  MaxAttemptsCeiling <- 2, MaxIterationsCeiling <- 3, MaxRetriesCeiling <- 2

-----------------------------------------------------------------------------
(* Inputs of the functions. *)

\* Workflow documents.
ParameterDocs ==
  {[name |-> S(<<1>>), type |-> t, required |-> Ir!J("boolean", r), default |-> d, minimum |-> m,
    maximum |-> Ir!Missing, min_length |-> l, max_length |-> Ir!Missing, pattern |-> p,
    enum |-> e] :
   t \in {"string", "integer", "number"}, r \in BOOLEAN,
   d \in {Ir!Missing, N(1), S(<<1, 2>>)}, m \in {Ir!Missing, N(1), S(<<1>>)},
   l \in {Ir!Missing, N(2), N(-1)}, p \in {Ir!Missing, S(<<2>>), S(<<0>>)},
   e \in {Ir!Missing, Ir!J("array", << N(1), S(<<1, 2>>) >>)}}
Inputs == {<< >>} \cup {[n \in {<<1>>} |-> v] : v \in {N(0), N(2), S(<<1>>), S(<<1, 2>>)}}
PredicateDoc(op, value) == [signal |-> "a", op |-> op, value |-> value]
StepDocs ==
  {[step_id |-> Ir!J("id", 1), kind |-> k, loop_head |-> h, arguments |-> a,
    precondition |-> p, verification |-> v, recovery |-> r, max_attempts |-> m, jump_to |-> j,
    max_iterations |-> i] :
   k \in Ir!StepKinds, h \in {Ir!Missing, Ir!J("boolean", TRUE)},
   a \in {Ir!JNull, Ir!J("object", "target")},
   p \in {Ir!Missing, Ir!J("object", PredicateDoc("eq", N(1)))},
   v \in {Ir!Missing, Ir!J("object", PredicateDoc("exists", Ir!Missing))},
   r \in {Ir!Missing, Ir!J("object", [mode |-> "retry", max_retries |-> N(2),
                                      fallback_step |-> Ir!Missing])},
   m \in {Ir!Missing, N(1), N(3)}, j \in {Ir!Missing, Ir!J("id", 2)}, i \in {Ir!Missing, N(2)}}
Contexts ==
  {[opaque |-> o, signals |-> IF v.t = "missing" THEN << >> ELSE [a |-> v]] :
   o \in BOOLEAN, v \in {Ir!Missing, Ir!JNull, N(0), N(1), S(<<1, 2>>),
                         Ir!J("array", << N(1) >>)}}

Events == INSTANCE WorkflowEvents

\* Tool references: definitions of two steps, and the tools of two moments.
Schemas == << Open, Needs(Type("string")), Needs([type |-> <<"integer">>, minimum |-> 2]) >>
Views ==
  {<< >>, << ToolSpec("t", 1, FALSE, Schemas[2]) >>, << ToolSpec("t", 2, FALSE, Schemas[1]) >>,
   << ToolSpec("t", 2, FALSE, Schemas[3]), ToolSpec("u", 1, FALSE, Schemas[1]) >>,
   << ToolSpec("t", 1, FALSE, Schemas[2]), ToolSpec("t", 2, FALSE, Schemas[1]) >>}
Texts ==
  {Bare("t"), Bare("u"), Text(TRUE, "t", FALSE, 0), Text(TRUE, "t", TRUE, 1),
   Text(TRUE, "t", TRUE, 2), Text(TRUE, "t", TRUE, Malformed), Text(TRUE, "not a name", FALSE, 0)}
Filled(v) == Value("object", [key \in {"x"} |-> v])
Skeletons == << NoArguments, Filled(Parameter("p")), Filled(Str("a", 1)) >>
Referring ==
  {[id |-> 1, digest |-> 1, minor |-> m,
    steps |-> << ToolStep(2, t, Skeletons[a]), ToolStep(1, u, NoArguments) >>] :
   m \in {0, 1}, t \in Texts, u \in Texts, a \in 1 .. 3}

\* Schemas a placeholder may stand in, and what could be put there.
LimitedSchemas ==
  {[type |-> <<"string">>, minLength |-> lo, maxLength |-> hi] :
     lo \in {-1, 0, 1, 3, 6}, hi \in {-1, 0, 1, 3, 6}}
  \cup {[type |-> <<"array">>, minItems |-> lo, maxItems |-> hi, items |-> Type("boolean")] :
     lo \in {-1, 0, 1, 3, 6}, hi \in {-1, 0, 1, 3, 6}}
  \cup {[type |-> <<t>>, minimum |-> lo, maximum |-> hi] :
     lo \in -3 .. 3, hi \in -3 .. 3, t \in {"integer", "number"}}
Instances ==
  [i \in 1 .. 7 |-> Str("a", i - 1)]
    \o [i \in 1 .. 7 |-> Value("array", [k \in 1 .. (i - 1) |-> Value("boolean", FALSE)])]
    \o [i \in 1 .. 9 |-> Value("number", i - 5)] \o [i \in 1 .. 5 |-> Whole(i - 3)]

\* Arguments of the operations that carry patch entries, from members that are
\* absent, right or wrong.
Values == << JNull, Whole(0), Str("strict", 1), Str("set", 1), Str("unset", 1), Str("skip", 1),
             Str("policy", 1), Str("execution_policy", 1), Str("step_arguments", 1) >>
EntryValue(e) ==
  Value("object", [key \in {k \in DOMAIN e : e[k] # 0} |-> Values[e[key]]])
PatchEntries ==
  [target : {0, 2, 8, 9}, op : {0, 3, 4, 6}, path : {0, 1, 7}, value : {0, 1, 3}, junk : {0, 1}]
OperationArguments(operation, entry, ids) ==
  LET patch   == operation = "patch_workflow"
      id      == IF ids THEN Str("hex", 32) ELSE Whole(1)
      entries == Value("array", << EntryValue(entry) >>)
      common  == [key \in {"workflow_id", "run_id"} |-> id]
  IN  Value("object", common @@ (IF patch THEN [patch_id |-> id, patch_entries |-> entries]
                                 ELSE [prompt |-> Str("q", 5), proposal |-> entries]))

\* Two completed runs to compile: parameters, literals that differ, overridden and
\* skipped steps.
Compile == INSTANCE WorkflowCompiler WITH
  MaxParameters <- 4, MaxString <- 3, MaxEnum <- 2, MaxAttemptsCeiling <- 2,
  MaxIterationsCeiling <- 3, MaxRetriesCeiling <- 2
CompiledSpec(name, required, default) ==
  [name |-> name, type |-> "integer", required |-> required, default |-> default,
   minimum |-> <<0>>, maximum |-> << >>, min_length |-> << >>, max_length |-> << >>,
   pattern |-> << >>, enum |-> << >>]
CompiledStep(id, kind, head, hook, goto, arguments) ==
  [id |-> id, kind |-> kind, head |-> head, hook |-> hook, goto |-> goto, tool_leaf |-> 1,
   args |-> arguments]
Tap == S(<<7>>)
Recorded(literal) ==
  [params |-> << CompiledSpec(<<1>>, TRUE, Ir!JNull), CompiledSpec(<<10>>, FALSE, N(2)) >>,
   policy |-> "Strict", allowed |-> {"Strict"},
   steps |-> << CompiledStep(1, "ToolCall", TRUE, "None", 0, << Tap, Compile!RefTo(<<1>>), N(5) >>),
                CompiledStep(2, "Verify", FALSE, "None", 0, << N(literal) >>),
                CompiledStep(3, "ToolCall", FALSE, "Fallback", 4, << Tap, Compile!RefTo(<<10>>) >>),
                CompiledStep(4, "Control", FALSE, "None", 1, << >>) >>]
Past(literal, p, q, over, skipped) ==
  [def |-> Recorded(literal), state |-> "Completed", policy |-> "Strict", skipped |-> skipped,
   values |-> [n \in {<<1>>, <<10>>} |-> IF n = <<1>> THEN N(p) ELSE N(q)],
   over |-> << over, << >>, << >>, << >> >>]
Overrides == {<< >>, << << Tap, N(1), N(6) >> >>, << << Tap, N(9), N(5) >> >>}
PastRuns ==
  {<< Past(1, p, q, o, k), Past(l, r, 2, << >>, k) >> :
   p \in {1, 2}, q \in {2, 3}, l \in {1, 2}, r \in {1, 2}, o \in Overrides,
   k \in SUBSET {1, 2, 3, 4}}

NoCase == [of |-> "none"]
Cases(c) ==
  \/ \E d \in ParameterDocs, i \in Inputs : c = [of |-> "parameter", doc |-> d, input |-> i]
  \/ \E d \in StepDocs : c = [of |-> "step", doc |-> d]
  \/ \E op \in Ir!Ops, v \in {N(1), S(<<1>>), Ir!JNull}, x \in Contexts :
       c = [of |-> "predicate", doc |-> PredicateDoc(op, v), context |-> x]
  \/ \E type \in Events!EventTypes, level \in {1, 2} :
       c = [of |-> "event", type |-> type, level |-> level]
  \/ \E d \in Referring, v \in Views, w \in Views, m \in Modes :
       c = [of |-> "refs", def |-> d, view |-> v, later |-> w, mode |-> m]
  \/ \E s \in LimitedSchemas : c = [of |-> "schema", schema |-> s]
  \/ \E op \in {"patch_workflow", "request_user_input"}, e \in PatchEntries, ids \in BOOLEAN :
       c = [of |-> "operation", operation |-> op, arguments |-> OperationArguments(op, e, ids)]
  \/ \E v, f \in 0 .. 5 :
       c = [of |-> "edge", record |-> [Confidence EXCEPT !.verified_count = v, !.failure_count = f]]
  \/ \E runs \in PastRuns, induced \in BOOLEAN :
       c = [of |-> "compile", runs |-> runs, induced |-> induced]

-----------------------------------------------------------------------------
LibraryInit ==
  /\ part \in {"library", "route", "function"}
  /\ SkillInit /\ (part # "library" => host.load = FirstLoad)
  /\ IF part = "route" THEN Route!NavInit ELSE nav = NoCase
  /\ IF part = "function" THEN Cases(case) ELSE case = NoCase

LibraryNext ==
  \/ part = "library" /\ SkillNext /\ UNCHANGED <<part, nav, case>>
  \/ part = "route" /\ Route!NavNext /\ UNCHANGED <<part, skillVars, case>>

LibraryVars == <<part, skillVars, nav, case>>
LibrarySpec == LibraryInit /\ [][LibraryNext]_LibraryVars

-----------------------------------------------------------------------------
(* Properties. *)

\* The plan the search returns is a cheapest route of those the model admits, and
\* there is none when it reports that there is none; and an outcome moves the
\* confidence of an edge its own way (Navigation).
PlanIsLeast ==
  /\ part = "route" => Route!PlanIsLeast
  /\ case.of = "edge" => Route!OutcomeMovesConfidence(case.record)

\* A document means the same after it was written and read: parameters, steps,
\* audit events, tool references and projections; a document that is none is
\* refused; and values that were bound satisfy their parameters (WorkflowIr,
\* WorkflowEvents, ToolReference).
DocumentsKeepMeaning ==
  CASE case.of = "parameter" -> /\ Ir!ParameterSurvives(case.doc)
                                /\ Ir!BindingsConform(<< case.doc >>, case.input)
    [] case.of = "step" -> Ir!StepSurvives(case.doc)
    [] case.of = "predicate" -> Ir!ComplementsDisagree(case.doc, case.context)
    [] case.of = "event" ->
         /\ Events!ReadsBack(case.type, TRUE, case.level)
         /\ Events!RefusesShape(case.type, case.level)
         /\ \A k \in Events!Keys[case.type], j \in Events!ForeignJson :
              Events!RefusesForeign(case.type, case.level, k, j)
    [] case.of = "refs" -> DocumentsSurvive(case.def, case.view, case.later, case.mode)
    [] OTHER -> TRUE


\* A workflow compiled from recorded runs, run with its defaults, makes the calls
\* of the run it was compiled from, when no referenced argument of that run had
\* been overridden (WorkflowCompiler).
CompiledReplaysItsRun ==
  case.of = "compile" /\ (case.induced => Compile!FaithfulSource(case.runs[1]))
    => Compile!ReplaysAnchor(case.runs, "Strict", case.induced)

-----------------------------------------------------------------------------
(* Both together. *)

VARIABLES
  db, channel, callers, clock, fate, files, live, writers, told, supervisor, ops, shutters,
  world, rings, chains, jobs, refresher

Known == INSTANCE MCMemory WITH host <- refresher
knownVars == <<db, channel, callers, clock, fate, files, live, writers, told, supervisor, ops,
               shutters, world, rings, chains, jobs, refresher>>

KnowledgeInit ==
  \/ LibraryInit /\ Known!AtRest
  \/ Known!MemoryInit /\ SkillInit /\ host.load = FirstLoad /\ nav = NoCase
KnowledgeNext ==
  \/ LibraryNext /\ UNCHANGED knownVars
  \/ Known!MemoryNext /\ UNCHANGED <<skillVars, nav>>
KnowledgeSpec == KnowledgeInit /\ [][KnowledgeNext]_<<LibraryVars, knownVars>>

-----------------------------------------------------------------------------
(* Properties. *)


\* What is learnt is backed (MCMemory).
LearningIsBacked == Known!LearningIsBacked



\* A mutation takes effect at most once and its caller is told the truth
\* (MemoryService).
MutationsOnce == Known!MutationsOnce



\* The supervisor's accounts and reports tell what happened (ContextSupervisor).
SupervisorHonest == Known!SupervisorHonest

\* The working context never goes back, and the refresher knows what is settled
\* (ContextRefresh).
RefreshHonest == Known!RefreshHonest
=============================================================================

------------------------------ MODULE Navigation ------------------------------
(***************************************************************************)
(* App models and the route planner (workflow_navigation): decoding of a   *)
(* model, the confidence bookkeeping of its edges, and plan_navigation,    *)
(* the uniform-cost search over the states, one popped node per step.      *)
(* States and transitions are numbered, which gives their ids an order.    *)
(***************************************************************************)
EXTENDS WorkflowIr, FiniteSets

CONSTANTS NavCases,       \* [doc, from, to, weights, context, options]
          CountLimit      \* the counters of a confidence record are below this

VARIABLE nav

-----------------------------------------------------------------------------
(* Decoding (app_model_from_json): probabilities are in percent. *)

CostNames == {"latency_ms", "failure_probability", "risk", "energy", "model_cost"}

parse_confidence(c) ==
  /\ c.confidence \in 0 .. 100 /\ c.observed_at_ms >= 0 /\ c.last_verified_ms >= 0
  /\ c.verified_count \in 0 .. CountLimit - 1 /\ c.failure_count \in 0 .. CountLimit - 1

NavigationCostProfile_valid(weights) == \A k \in DOMAIN weights : weights[k] >= 0

(* Mutant: a cost may be negative. *)
parse_costs_Any(costs) ==
  \A k \in {"failure_probability", "risk", "energy"} : costs[k] <= 100

parse_costs(costs) ==
  /\ \A k \in CostNames : costs[k] >= 0
  /\ \A k \in {"failure_probability", "risk", "energy"} : costs[k] <= 100

\* The edge's action names a tool, its guard is absent or well formed.
parse_transition(t) ==
  /\ t.tool # "" /\ parse_costs(t.costs) /\ parse_confidence(t.confidence)
  /\ t.guard # << >> => parse_predicate(t.guard[1]) # << >>

Distinct(seq) == \A i, k \in DOMAIN seq : seq[i].id = seq[k].id => i = k
StateIds(model) == {model.states[i].id : i \in DOMAIN model.states}

app_model_from_json(doc) ==
  /\ \A i \in DOMAIN doc.states : parse_confidence(doc.states[i].confidence)
  /\ \A i \in DOMAIN doc.transitions : parse_transition(doc.transitions[i])
  /\ Distinct(doc.states) /\ Distinct(doc.transitions)
  /\ \A i \in DOMAIN doc.transitions :
       {doc.transitions[i].from_state, doc.transitions[i].to_state} \subseteq StateIds(doc)

-----------------------------------------------------------------------------
(* The order of the search. *)

navigation_edge_cost(costs, weights) ==
    weights.latency * costs.latency_ms + weights.failure * costs.failure_probability
  + weights.model_cost * costs.model_cost + weights.risk * costs.risk
  + weights.energy * costs.energy

step_less(l, r) ==
  \/ l.cost < r.cost
  \/ l.cost = r.cost /\ l.id < r.id
  \/ l.cost = r.cost /\ l.id = r.id /\ l.to < r.to

path_less(l, r) ==
  LET differ == {i \in DOMAIN l \cap DOMAIN r : step_less(l[i], r[i]) # step_less(r[i], l[i])}
  IN  IF differ = {} THEN Len(l) < Len(r)
      ELSE LET i == CHOOSE k \in differ : \A j \in differ : k <= j IN step_less(l[i], r[i])

Before(l, r) == l.cost < r.cost \/ (l.cost = r.cost /\ path_less(l.path, r.path))

-----------------------------------------------------------------------------
(* plan_navigation. *)

Outgoing(model, state) == SelectSeq(model.transitions, LAMBDA t : t.from_state = state)

\* How an edge fares: "use", or the reason it is passed over.
EdgeVerdict(case, t) ==
  IF t.costs.agent_required /\ ~case.options.allow_agent_edges THEN "agent"
  ELSE IF t.guard = << >> THEN "use"
  ELSE LET verdict == evaluate_workflow_predicate(t.guard[1], case.context)
       IN  CASE verdict = "Satisfied" -> "use" [] verdict = "NotSatisfied" -> "blocked"
             [] OTHER -> "unevaluable"

Extend(case, node, t) ==
  LET cost == navigation_edge_cost(t.costs, case.weights)
  IN  [cost |-> node.cost + cost, state |-> t.to_state,
       path |-> Append(node.path, [cost |-> cost, id |-> t.id, to |-> t.to_state])]

NavInit ==
  nav \in {[case |-> c, pc |-> "decode", frontier |-> {}, settled |-> {}, evaluations |-> 0,
            capped |-> FALSE, blocked |-> 0, unevaluable |-> 0, path |-> << >>, error |-> "none"]
           : c \in NavCases}

\* validate_app_model, then the checks before the search.
EarlyError(case) ==
  CASE ~app_model_from_json(case.doc) -> "InvalidModel"
    [] ~NavigationCostProfile_valid(case.weights) -> "BudgetExceeded"
    [] case.from \notin StateIds(case.doc) -> "UnknownFromState"
    [] case.to \notin StateIds(case.doc) -> "UnknownToState"
    [] OTHER -> "none"

plan_begin ==
  LET error == EarlyError(nav.case)
  IN  /\ nav.pc = "decode"
      /\ nav' = IF error # "none" THEN [nav EXCEPT !.pc = "failed", !.error = error]
                ELSE IF nav.case.from = nav.case.to THEN [nav EXCEPT !.pc = "planned"]
                ELSE [nav EXCEPT !.pc = "search", !.frontier =
                        {[cost |-> 0, path |-> << >>, state |-> nav.case.from]}]

\* The edges of a settled node, each against the evaluation budget.
Expanded(node) ==
  LET case == nav.case
      edges == Outgoing(case.doc, node.state)
      room == case.options.max_edge_evaluations - nav.evaluations
      count(v) == Cardinality({i \in DOMAIN edges : EdgeVerdict(case, edges[i]) = v})
  IN  IF Len(edges) > room THEN [nav EXCEPT !.pc = "failed", !.error = "BudgetExceeded"]
      ELSE [nav EXCEPT !.frontier = (@ \ {node}) \cup
              {Extend(case, node, edges[i]) :
                 i \in {k \in DOMAIN edges : EdgeVerdict(case, edges[k]) = "use"}},
              !.settled = @ \cup {node.state}, !.evaluations = @ + Len(edges),
              !.blocked = @ + count("blocked"), !.unevaluable = @ + count("unevaluable")]

\* One turn of the loop: pop the least node.
plan_pop ==
  /\ nav.pc = "search" /\ nav.frontier # {}
  /\ LET node == CHOOSE n \in nav.frontier : \A m \in nav.frontier : m = n \/ Before(n, m)
     IN  nav' = IF node.state \in nav.settled
                  THEN [nav EXCEPT !.frontier = @ \ {node}]
                ELSE IF node.state = nav.case.to
                  THEN [nav EXCEPT !.pc = "planned", !.path = node.path]
                ELSE IF Len(node.path) >= nav.case.options.max_path_edges
                  THEN [nav EXCEPT !.capped = TRUE, !.frontier = @ \ {node},
                                   !.settled = @ \cup {node.state}]
                ELSE Expanded(node)

plan_exhausted ==
  /\ nav.pc = "search" /\ nav.frontier = {}
  /\ nav' = [nav EXCEPT !.pc = "failed",
                          !.error = IF nav.capped THEN "BudgetExceeded" ELSE "NoPath"]

NavNext == plan_begin \/ plan_pop \/ plan_exhausted

-----------------------------------------------------------------------------
(* What a plan promises. *)

\* The walks over usable edges that visit no state twice.
Routes(case) ==
  LET model == case.doc
      grow[n \in 0 .. Len(model.states)] ==
        IF n = 0 THEN {[cost |-> 0, path |-> << >>, state |-> case.from, seen |-> {case.from}]}
        ELSE LET shorter == grow[n - 1]
             IN  shorter \cup
                 UNION {{[cost |-> e.cost, path |-> e.path, state |-> e.state,
                          seen |-> r.seen \cup {e.state}]
                         : e \in {Extend(case, r, model.transitions[i]) :
                                    i \in {k \in DOMAIN model.transitions :
                                       /\ model.transitions[k].from_state = r.state
                                       /\ model.transitions[k].to_state \notin r.seen
                                       /\ EdgeVerdict(case, model.transitions[k]) = "use"}}}
                        : r \in shorter}
  IN  {r \in grow[Len(model.states)] : r.state = case.to}

\* A plan walks declared states over usable edges and no cheaper walk exists,
\* equal costs settled by the order of the edges, unless the length cap cut the
\* search; "no path" is said only when there is none.
PlanIsLeast ==
  /\ nav.pc = "planned" =>
       LET mine == {r \in Routes(nav.case) : r.path = nav.path}
       IN  /\ {nav.path[i].to : i \in DOMAIN nav.path} \subseteq StateIds(nav.case.doc)
           /\ Len(nav.path) <= nav.case.options.max_path_edges
           /\ nav.case.from # nav.case.to => mine # {}
           /\ ~nav.capped => \A r \in Routes(nav.case) : \A m \in mine : r = m \/ Before(m, r)
  /\ nav.error = "NoPath" => Routes(nav.case) = {}

-----------------------------------------------------------------------------
(* Confidence: what an edge earns, as a fraction num/den. *)

\* The counters are 32 bits wide, and so is the sum under the fraction.
note_transition_outcome(record, success, now) ==
  LET v == IF success THEN (record.verified_count + 1) % CountLimit ELSE record.verified_count
      f == IF success THEN record.failure_count ELSE (record.failure_count + 1) % CountLimit
  IN  [record EXCEPT !.verified_count = v, !.failure_count = f, !.observed_at_ms = now,
         !.last_verified_ms = IF success THEN now ELSE @,
         !.confidence = [num |-> (v + 1) % CountLimit, den |-> (v + f + 2) % CountLimit]]

\* An outcome moves an edge's confidence its own way and keeps it a fraction
\* strictly between 0 and 1, as long as the counters do not wrap.
OutcomeMovesConfidence(record) ==
  record.verified_count + record.failure_count + 3 < CountLimit =>
    LET up == note_transition_outcome(record, TRUE, 9).confidence
        down == note_transition_outcome(record, FALSE, 9).confidence
        old == [num |-> record.verified_count + 1,
                den |-> record.verified_count + record.failure_count + 2]
        less(a, b) == a.num * b.den < b.num * a.den
    IN  /\ 0 < down.num /\ less(down, old) /\ less(old, up) /\ up.num < up.den
=============================================================================

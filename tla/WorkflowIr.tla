------------------------------ MODULE WorkflowIr ------------------------------
(***************************************************************************)
(* The decoder and encoder of workflow documents (workflow_ir): parameter  *)
(* specifications and the binding of parameters, steps with their          *)
(* predicates and recovery hooks, and the evaluation of a predicate.       *)
(*                                                                         *)
(* A JSON value is [t, v]: "integer"/"number" with a number, "string" with *)
(* a sequence of characters, "boolean", "array" with a sequence of values, *)
(* "id", "object", "null"; a member that is not there is Missing.  A value *)
(* the code keeps in a std::optional is a sequence of at most one element. *)
(***************************************************************************)
EXTENDS Integers, Sequences, SequencesExt

CONSTANTS MaxString, MaxEnum, MaxAttemptsCeiling, MaxIterationsCeiling, MaxRetriesCeiling

J(t, v) == [t |-> t, v |-> v]
Missing == J("missing", 0)
JNull == J("null", 0)
Present(json) == json.t # "missing"
Given(json) == json.t \notin {"missing", "null"}
IsNumber(json) == json.t \in {"integer", "number"}
IsScalar(json) == json.t \notin {"array", "object"}
JsonEqual(a, b) == a.t = b.t /\ a.v = b.v
HasPart(text, part) ==
  \E i \in 1 .. (Len(text) - Len(part) + 1) : SubSeq(text, i, i + Len(part) - 1) = part

bounded_string(json) == json.t = "string" /\ Len(json.v) \in 1 .. MaxString
Option(ok, value) == IF ok THEN <<value>> ELSE << >>

-----------------------------------------------------------------------------
(* Parameters. *)

ParameterTypes == {"string", "integer", "number", "boolean"}
NumericTypes == {"integer", "number"}

value_matches_type(value, type) ==
  CASE type = "number" -> IsNumber(value) [] OTHER -> value.t = type

\* A malformed regular expression is written <<0>>; others match by search.
ValidPattern(p) == p # <<0>>

check_constraint(spec, value) ==
  LET text == spec.type = "string"
      number == spec.type \in NumericTypes
  IN  CASE ~value_matches_type(value, spec.type) -> "TypeMismatch"
        [] \/ text /\ \E n \in Range(spec.min_length) : Len(value.v) < n
           \/ text /\ \E n \in Range(spec.max_length) : Len(value.v) > n
           \/ text /\ \E p \in Range(spec.pattern) : ~HasPart(value.v, p)
           \/ number /\ \E n \in Range(spec.minimum) : value.v < n
           \/ number /\ \E n \in Range(spec.maximum) : value.v > n
           \/ spec.enum # << >> /\ ~\E i \in DOMAIN spec.enum : JsonEqual(spec.enum[i], value)
             -> "ConstraintViolated"
        [] OTHER -> "ok"

\* A bound of the wrong JSON type is passed over, not refused; one on a
\* parameter of the wrong type is refused.
parse_parameter(doc) ==
  LET number(json) == Option(IsNumber(json), json.v)
      length(json) == Option(json.t = "integer", json.v)
      pattern == Option(doc.pattern.t = "string", doc.pattern.v)
      bad == \/ ~bounded_string(doc.name)
             \/ doc.type \notin ParameterTypes
             \/ doc.required.t # "boolean"
             \/ Present(doc.default) /\ doc.required.v
             \/ /\ number(doc.minimum) \o number(doc.maximum) # << >>
                /\ doc.type \notin NumericTypes
             \/ /\ length(doc.min_length) \o length(doc.max_length) \o pattern # << >>
                /\ doc.type # "string"
             \/ \E n \in Range(length(doc.min_length) \o length(doc.max_length)) : n < 0
             \/ \E p \in Range(pattern) : ~ValidPattern(p)
             \/ /\ Present(doc.enum)
                /\ \/ doc.enum.t # "array"
                   \/ Len(doc.enum.v) \notin 1 .. MaxEnum
                   \/ \E i \in DOMAIN doc.enum.v : ~IsScalar(doc.enum.v[i])
  IN  Option(~bad,
        [name |-> doc.name.v, type |-> doc.type, required |-> doc.required.v,
         default |-> IF Given(doc.default) THEN doc.default ELSE JNull,
         minimum |-> number(doc.minimum), maximum |-> number(doc.maximum),
         min_length |-> length(doc.min_length), max_length |-> length(doc.max_length),
         pattern |-> pattern, enum |-> IF Present(doc.enum) THEN doc.enum.v ELSE << >>])

parameter_to_json(spec) ==
  LET from(opt, t) == IF opt = << >> THEN Missing ELSE J(t, opt[1])
  IN  [name |-> J("string", spec.name), type |-> spec.type, required |-> J("boolean", spec.required),
       default |-> IF spec.required \/ spec.default.t = "null" THEN Missing ELSE spec.default,
       minimum |-> from(spec.minimum, "number"), maximum |-> from(spec.maximum, "number"),
       min_length |-> from(spec.min_length, "integer"),
       max_length |-> from(spec.max_length, "integer"), pattern |-> from(spec.pattern, "string"),
       enum |-> IF spec.enum = << >> THEN Missing ELSE J("array", spec.enum)]


\* Every default passes the constraints of its own parameter.
validate_workflow_parameter_specs(specs) ==
  \A i \in DOMAIN specs :
    specs[i].default.t = "null" \/ check_constraint(specs[i], specs[i].default) = "ok"

\* input: name -> value, for the members given. The bindings, or an error.
bind_workflow_parameters(specs, input) ==
  LET named(n) == {i \in DOMAIN specs : specs[i].name = n}
      unknown == \E n \in DOMAIN input : named(n) = {}
      invalid == \E n \in DOMAIN input, i \in DOMAIN specs :
                   specs[i].name = n /\ check_constraint(specs[i], input[n]) # "ok"
      default(i) == specs[i].default.t # "null"
      open == {i \in DOMAIN specs : specs[i].name \notin DOMAIN input}
      bound == DOMAIN input \cup {specs[i].name : i \in {k \in open : default(k)}}
  IN  IF unknown \/ invalid \/ \E i \in open : ~default(i) /\ specs[i].required THEN << >>
      ELSE << [n \in bound |-> IF n \in DOMAIN input THEN input[n]
                               ELSE specs[CHOOSE i \in named(n) : TRUE].default] >>

\* What a step may rely on: a run that got its bindings has a value for every
\* required parameter, and every value satisfies the constraints.
BindingsConform(docs, input) ==
  LET parsed == [i \in DOMAIN docs |-> parse_parameter(docs[i])]
      specs == [i \in DOMAIN docs |-> parsed[i][1]]
      bound == bind_workflow_parameters(specs, input)
  IN  /\ \A i \in DOMAIN docs : parsed[i] # << >>
      /\ \A i, k \in DOMAIN docs : i # k => docs[i].name.v # docs[k].name.v
      /\ validate_workflow_parameter_specs(specs)
      /\ bound # << >>
      => \A i \in DOMAIN specs :
           /\ specs[i].required => specs[i].name \in DOMAIN bound[1]
           /\ specs[i].name \in DOMAIN bound[1]
                => check_constraint(specs[i], bound[1][specs[i].name]) = "ok"

-----------------------------------------------------------------------------
(* Predicates. *)

Ops == {"eq", "ne", "lt", "le", "gt", "ge", "contains", "exists"}

\* A signal is "kind:ref"; kinds come from a closed set, the reference is not
\* empty. Signals that do not have that form are written "malformed".
validate_workflow_predicate(predicate) == predicate.signal # "malformed"

parse_predicate(doc) ==
  LET bad == \/ doc.op \notin Ops
             \/ doc.op = "exists" /\ Given(doc.value)
             \/ doc.op # "exists" /\ (~Present(doc.value) \/ ~IsScalar(doc.value))
             \/ ~validate_workflow_predicate(doc)
  IN  Option(~bad, [signal |-> doc.signal, op |-> doc.op,
                    value |-> IF doc.op = "exists" THEN JNull ELSE doc.value])

predicate_to_json(predicate) ==
  [predicate EXCEPT !.value = IF predicate.op = "exists" THEN Missing ELSE @]

\* context: signal -> value for the signals that are known; "opaque" when the
\* context is not an object.
evaluate_workflow_predicate(predicate, context) ==
  LET known == predicate.signal \in DOMAIN context.signals
      left == context.signals[predicate.signal]
      right == predicate.value
      verdict(b) == IF b THEN "Satisfied" ELSE "NotSatisfied"
      op == predicate.op
  IN  CASE context.opaque -> "NotEvaluable"
        [] op = "exists" -> verdict(known /\ left.t # "null")
        [] ~known -> "NotEvaluable"
        [] op = "eq" -> verdict(JsonEqual(left, right))
        [] op = "ne" -> verdict(~JsonEqual(left, right))
        [] op \in {"lt", "le", "gt", "ge"} ->
             IF ~IsNumber(left) \/ ~IsNumber(right) THEN "NotEvaluable"
             ELSE verdict(CASE op = "lt" -> left.v < right.v [] op = "le" -> left.v <= right.v
                            [] op = "gt" -> left.v > right.v [] op = "ge" -> left.v >= right.v)
        [] left.t = "string" ->
             IF right.t # "string" THEN "NotEvaluable" ELSE verdict(HasPart(left.v, right.v))
        [] left.t = "array" -> verdict(\E i \in DOMAIN left.v : JsonEqual(left.v[i], right))
        [] OTHER -> "NotEvaluable"

\* Complementary operators never agree, and they are undecided together.
Complement == [eq |-> "ne", lt |-> "ge", le |-> "gt", ne |-> "eq", ge |-> "lt", gt |-> "le"]
ComplementsDisagree(predicate, context) ==
  predicate.op \in DOMAIN Complement =>
    LET one == evaluate_workflow_predicate(predicate, context)
        two == evaluate_workflow_predicate([predicate EXCEPT !.op = Complement[@]], context)
    IN  (one = "NotEvaluable") = (two = "NotEvaluable") /\ (one = two => one = "NotEvaluable")

-----------------------------------------------------------------------------
(* Recovery hooks and steps. *)

parse_recovery(doc) ==
  LET retries == doc.max_retries.t = "integer" /\ doc.max_retries.v \in 1 .. MaxRetriesCeiling
      none(json) == ~Present(json)
      ok == CASE doc.mode \in {"none", "agent_escalation"} ->
                   none(doc.max_retries) /\ none(doc.fallback_step)
              [] doc.mode = "retry" -> retries /\ none(doc.fallback_step)
              [] doc.mode = "fallback_step" -> doc.fallback_step.t = "id" /\ none(doc.max_retries)
              [] OTHER -> FALSE
  IN  Option(ok, doc)

StepKinds == {"tool_call", "navigate", "verify", "control"}

parse_step(doc) ==
  LET pre == IF Given(doc.precondition) THEN parse_predicate(doc.precondition.v) ELSE << >>
      ver == IF Given(doc.verification) THEN parse_predicate(doc.verification.v) ELSE << >>
      rec == IF Given(doc.recovery) THEN parse_recovery(doc.recovery.v) ELSE << >>
      within(json, high) == ~Present(json) \/ (json.t = "integer" /\ json.v \in 1 .. high)
      bad == \/ doc.step_id.t # "id"
             \/ doc.kind \notin StepKinds
             \/ Present(doc.loop_head) /\ doc.loop_head.t # "boolean"
             \/ Given(doc.arguments) /\ doc.arguments.t # "object"
             \/ Given(doc.precondition) /\ pre = << >>
             \/ Given(doc.verification) /\ ver = << >>
             \/ Given(doc.recovery) /\ rec = << >>
             \/ ~within(doc.max_attempts, MaxAttemptsCeiling)
             \/ Given(doc.jump_to) /\ doc.jump_to.t # "id"
             \/ ~within(doc.max_iterations, MaxIterationsCeiling)
             \/ doc.kind = "verify" /\ ver = << >>
             \/ doc.kind = "navigate" /\ (doc.arguments.t # "object" \/ doc.arguments.v # "target")
             \/ (doc.kind = "control") # Given(doc.jump_to)
      number(json) == IF Present(json) THEN json.v ELSE 1
  IN  Option(~bad,
        [id |-> doc.step_id.v, kind |-> doc.kind, head |-> Present(doc.loop_head) /\ doc.loop_head.v,
         arguments |-> IF Given(doc.arguments) THEN doc.arguments ELSE JNull,
         precondition |-> pre, verification |-> ver, recovery |-> rec,
         attempts |-> number(doc.max_attempts),
         jump |-> Option(Given(doc.jump_to), doc.jump_to.v),
         iterations |-> number(doc.max_iterations)])

\* Defaults are left out; the iteration cap is written with a jump only.
step_to_json(step) ==
  LET from(opt, t) == IF opt = << >> THEN Missing ELSE J(t, opt[1])
      pred(opt) == IF opt = << >> THEN Missing ELSE J("object", predicate_to_json(opt[1]))
  IN  [step_id |-> J("id", step.id), kind |-> step.kind,
       loop_head |-> IF step.head THEN J("boolean", TRUE) ELSE Missing,
       arguments |-> IF step.arguments.t = "null" THEN Missing ELSE step.arguments,
       precondition |-> pred(step.precondition), verification |-> pred(step.verification),
       recovery |-> from(step.recovery, "object"),
       max_attempts |-> IF step.attempts = 1 THEN Missing ELSE J("integer", step.attempts),
       jump_to |-> from(step.jump, "id"),
       max_iterations |-> IF step.jump = << >> THEN Missing ELSE J("integer", step.iterations)]

\* What a document means survives encoding (the digest of a definition is taken
\* of the encoding): a step comes back the same, but for an iteration cap that a
\* step without a jump does not use; a parameter comes back the same.
StepSurvives(doc) ==
  LET step == parse_step(doc)
      again == parse_step(step_to_json(step[1]))
  IN  step # << >> =>
        again = <<[step[1] EXCEPT !.iterations = IF step[1].jump = << >> THEN 1 ELSE @]>>
ParameterSurvives(doc) ==
  LET spec == parse_parameter(doc)
  IN  spec # << >> => parse_parameter(parameter_to_json(spec[1])) = spec
=============================================================================

------------------------------- MODULE Schema -------------------------------
(***************************************************************************)
(* JSON values, the schema subset that tools and decisions are validated   *)
(* with (model_schema.cpp), the probe a stored tool call is checked with   *)
(* when the tool has changed (Materializer in tool_reference.cpp), and the *)
(* schemas of the workflow operations (workflow_tools.cpp).                *)
(*                                                                         *)
(* A value has a kind k and a content v. Numbers are counted in halves, so *)
(* an integer has an even content. A string is a class of texts and a      *)
(* length; a pattern asks for one class and, unless it is 0, one length.   *)
(***************************************************************************)
EXTENDS Integers, Sequences, FiniteSets

CONSTANTS MaxDepth, MaxProperties, MaxEnumValues, ProbeCap, ProbeItems

Value(k, v) == [k |-> k, v |-> v]
JNull == Value("null", 0)
Whole(n) == Value("integer", 2 * n)
Str(class, len) == Value("string", <<class, len>>)
JsonEqual(a, b) == a.k = b.k /\ a.v = b.v
IsNumber(j) == j.k \in {"integer", "number"}
Has(o, key) == key \in DOMAIN o
Member(o, key) == IF Has(o, key) THEN o[key] ELSE << >>

Keywords == {"type", "properties", "required", "additionalProperties", "items", "enum", "const",
             "minimum", "maximum", "minLength", "maxLength", "minItems", "maxItems", "pattern",
             "description"}

instance_matches_type(j, type) == IF type = "number" THEN IsNumber(j) ELSE j.k = type

\* A length bound is read as an unsigned number: a negative one is enormous.
Unsigned(n) == IF n < 0 THEN 1000000 + n ELSE n
Matches(text, pattern) == text[1] = pattern.class /\ pattern.len \in {0, text[2]}

RECURSIVE gate_schema_subset(_, _)
gate_schema_subset(schema, depth) ==
  /\ depth < MaxDepth
  /\ DOMAIN schema \subseteq Keywords
  /\ Has(schema, "enum") => Len(schema.enum) <= MaxEnumValues
  /\ Has(schema, "properties") =>
       /\ Cardinality(DOMAIN schema.properties) <= MaxProperties
       /\ \A p \in DOMAIN schema.properties : gate_schema_subset(schema.properties[p], depth + 1)
  /\ Has(schema, "items") => gate_schema_subset(schema.items, depth + 1)

\* Validator::validate finds no violation. The instance is walked together with
\* the schema; the depth of the walk is bounded.
RECURSIVE Validator(_, _, _)
Validator(j, schema, depth) ==
  /\ depth < MaxDepth
  /\ Has(schema, "type") => \E i \in DOMAIN schema.type : instance_matches_type(j, schema.type[i])
  /\ j.k = "object" =>
       /\ Has(schema, "required") => \A i \in DOMAIN schema.required : Has(j.v, schema.required[i])
       /\ Has(schema, "properties") =>
            \A key \in DOMAIN j.v :
              IF Has(schema.properties, key)
                THEN Validator(j.v[key], schema.properties[key], depth + 1)
                ELSE Has(schema, "additionalProperties") /\ schema.additionalProperties
  /\ j.k = "array" =>
       /\ Has(schema, "items") => \A i \in DOMAIN j.v : Validator(j.v[i], schema.items, depth + 1)
       /\ Has(schema, "minItems") => Len(j.v) >= Unsigned(schema.minItems)
       /\ Has(schema, "maxItems") => Len(j.v) <= Unsigned(schema.maxItems)
  /\ j.k = "string" =>
       /\ Has(schema, "minLength") => j.v[2] >= Unsigned(schema.minLength)
       /\ Has(schema, "maxLength") => j.v[2] <= Unsigned(schema.maxLength)
       /\ Has(schema, "pattern") => Matches(j.v, schema.pattern)
  /\ IsNumber(j) =>
       /\ Has(schema, "minimum") => j.v >= schema.minimum
       /\ Has(schema, "maximum") => j.v <= schema.maximum
  /\ Has(schema, "enum") => \E i \in DOMAIN schema.enum : JsonEqual(schema.enum[i], j)
  /\ Has(schema, "const") => JsonEqual(schema.const, j)

validate_instance_against_schema(j, schema) == Validator(j, schema, 0)

-----------------------------------------------------------------------------
(* The probe: placeholders become the least value their schema admits. *)

Parameter(name) == Value("object", [key \in {"$param"} |-> Str(name, 1)])
is_placeholder(j) ==
  j.k = "object" /\ DOMAIN j.v = {"$param"} /\ j.v["$param"].k = "string"

Least(a, b) == IF a < b THEN a ELSE b

materialized_string(schema) ==
  LET given == Has(schema, "minLength") /\ schema.minLength > 0
      most  == IF Has(schema, "maxLength") /\ schema.maxLength >= 0 THEN schema.maxLength ELSE ProbeCap
      least == IF given THEN schema.minLength ELSE 1
  IN  Str("a", Least(Least(least, most), Least(most, ProbeCap)))

materialized_number(schema, integral) ==
  LET raised  == IF Has(schema, "minimum") /\ 0 < schema.minimum THEN schema.minimum ELSE 0
      value   == IF Has(schema, "maximum") /\ raised > schema.maximum THEN schema.maximum ELSE raised
      whole   == IF value < 0 THEN -(((-value) \div 2) * 2) ELSE (value \div 2) * 2
  IN  IF integral THEN Value("integer", whole) ELSE Value("number", value)

RECURSIVE minimal_instance(_)
minimal_instance(schema) ==
  CASE Has(schema, "const") -> schema.const
    [] ~Has(schema, "const") /\ Has(schema, "enum") /\ Len(schema.enum) > 0 -> schema.enum[1]
    [] OTHER ->
       LET type  == IF Has(schema, "type") /\ Len(schema.type) > 0 THEN schema.type[1] ELSE "null"
           keys  == IF Has(schema, "required")
                      THEN {schema.required[i] : i \in DOMAIN schema.required} ELSE {}
           props == IF Has(schema, "properties") THEN schema.properties ELSE << >>
           count == IF Has(schema, "maxItems") /\ schema.maxItems <= 0 THEN 0
                    ELSE IF Has(schema, "minItems") /\ schema.minItems > 0
                      THEN Least(schema.minItems, ProbeItems) ELSE 1
       IN  CASE type = "object"  -> Value("object", [key \in keys |->
                                      minimal_instance(Member(props, key))])
             [] type = "array"   -> Value("array", [i \in 1 .. count |->
                                      minimal_instance(Member(schema, "items"))])
             [] type = "string"  -> materialized_string(schema)
             [] type = "integer" -> materialized_number(schema, TRUE)
             [] type = "number"  -> materialized_number(schema, FALSE)
             [] type = "boolean" -> Value("boolean", FALSE)
             [] OTHER            -> JNull

RECURSIVE materialize(_, _, _)
materialize(j, schema, depth) ==
  IF depth >= MaxDepth THEN JNull
  ELSE IF is_placeholder(j) THEN minimal_instance(schema)
  ELSE IF j.k = "object"
    THEN Value("object", [key \in DOMAIN j.v |->
           materialize(j.v[key], Member(Member(schema, "properties"), key), depth + 1)])
  ELSE IF j.k = "array"
    THEN Value("array", [i \in DOMAIN j.v |->
           materialize(j.v[i], Member(schema, "items"), depth + 1)])
  ELSE j

\* A stored call still binds to the tool's present schema; the member that
\* names the tool is not an argument.
skeleton_violation(arguments, schema) ==
  LET input == Value("object", [key \in DOMAIN arguments.v \ {"tool"} |-> arguments.v[key]])
  IN  ~(/\ gate_schema_subset(schema, 0)
        /\ validate_instance_against_schema(materialize(input, schema, 0), schema))

-----------------------------------------------------------------------------
(* The tools through which an agent operates workflows. *)

Type(name) == [type |-> <<name>>]
Enum(names) == [type |-> <<"string">>, enum |-> [i \in DOMAIN names |-> Str(names[i], 1)]]
id_pattern == [type |-> <<"string">>, pattern |-> [class |-> "hex", len |-> 32]]
digest_pattern == [type |-> <<"string">>, pattern |-> [class |-> "hex", len |-> 64]]
object_schema(properties, required) ==
  [type |-> <<"object">>, properties |-> properties, required |-> required,
   additionalProperties |-> FALSE]
bounded_array_schema(items, least, most) ==
  [type |-> <<"array">>, minItems |-> least, maxItems |-> most, items |-> items]

PatchTargets == <<"run_parameters", "step_arguments", "execution_policy">>
PatchOps == <<"set", "unset", "skip">>
PolicyNames == <<"strict", "recoverable", "agent_assisted", "interactive", "dry_run">>

patch_entry_schema ==
  object_schema([target |-> Enum(PatchTargets), op |-> Enum(PatchOps),
                 path |-> [type |-> <<"string">>, minLength |-> 1, maxLength |-> 256],
                 value |-> [description |-> "any"]],
                <<"target", "op", "path">>)

run_workflow_parameters_schema ==
  object_schema([workflow_id |-> id_pattern, ir_digest |-> digest_pattern,
                 parameters |-> Type("object"), policy |-> Enum(PolicyNames)],
                <<"workflow_id", "ir_digest">>)
control_parameters_schema ==
  object_schema([workflow_id |-> id_pattern, run_id |-> id_pattern], <<"workflow_id", "run_id">>)
patch_workflow_parameters_schema ==
  object_schema([workflow_id |-> id_pattern, run_id |-> id_pattern, patch_id |-> id_pattern,
                 patch_entries |-> bounded_array_schema(patch_entry_schema, 1, 32)],
                <<"workflow_id", "run_id", "patch_id", "patch_entries">>)
request_user_input_parameters_schema ==
  object_schema([workflow_id |-> id_pattern, run_id |-> id_pattern,
                 prompt |-> [type |-> <<"string">>, minLength |-> 1, maxLength |-> 2048],
                 proposal |-> bounded_array_schema(patch_entry_schema, 0, 32)],
                <<"workflow_id", "run_id", "prompt">>)

Operations == {"run_workflow", "patch_workflow", "pause_workflow", "resume_workflow",
               "cancel_workflow", "request_user_input"}
workflow_operation_spec(operation) ==
  CASE operation = "run_workflow"       -> run_workflow_parameters_schema
    [] operation = "patch_workflow"     -> patch_workflow_parameters_schema
    [] operation = "request_user_input" -> request_user_input_parameters_schema
    [] OTHER                            -> control_parameters_schema

validate_workflow_patch_entry(e) ==
  LET value == Member(e, "value")
      null  == ~Has(e, "value") \/ e.value.k = "null"
      target == e.target.v[1]
      op == e.op.v[1]
  IN  /\ e.path.v[2] \in 1 .. 4096
      /\ target = "run_parameters" => op # "skip"
      /\ target = "execution_policy" =>
           /\ op = "set" /\ e.path.v[1] = "policy"
           /\ ~null /\ value.k = "string"
           /\ \E i \in DOMAIN PolicyNames : value.v[1] = PolicyNames[i]
      /\ (op = "set") = ~null

\* Parsing reads the three required members of every entry without looking;
\* "crash" stands for the null dereference that would be.
parse_workflow_patch_entries(items) ==
  LET whole(e) == /\ e.k = "object"
                  /\ \A key \in {"target", "op", "path"} : Has(e.v, key) /\ e.v[key].k = "string"
      known(e) == /\ \E i \in DOMAIN PatchTargets : e.v.target.v[1] = PatchTargets[i]
                  /\ \E i \in DOMAIN PatchOps : e.v.op.v[1] = PatchOps[i]
      verdict(e) == IF ~whole(e) THEN "crash"
                    ELSE IF known(e) /\ validate_workflow_patch_entry(e.v) THEN "ok" ELSE "refused"
      bad == {i \in DOMAIN items.v : verdict(items.v[i]) # "ok"}
  IN  IF items.k # "array" THEN "crash"
      ELSE IF bad = {} THEN "ok"
      ELSE verdict(items.v[CHOOSE i \in bad : \A k \in bad : i <= k])

\* validate_workflow_operation and validate_request_user_input_arguments.
validate_workflow_operation(operation, arguments) ==
  LET schema  == workflow_operation_spec(operation)
      entries == IF operation = "patch_workflow" THEN "patch_entries" ELSE "proposal"
  IN  IF ~(gate_schema_subset(schema, 0) /\ validate_instance_against_schema(arguments, schema))
        THEN "refused"
      ELSE IF operation \in {"patch_workflow", "request_user_input"} /\ Has(arguments.v, entries)
        THEN parse_workflow_patch_entries(arguments.v[entries])
      ELSE "ok"
-----------------------------------------------------------------------------
(* Properties. *)

\* An admitted operation can be parsed: whatever the arguments, the schema stands
\* between them and the parser that dereferences members unchecked
\* (parse_workflow_patch_entries).
OperationArgumentsSafe(operation, arguments) ==
  validate_workflow_operation(operation, arguments) # "crash"

\* The reference for the probe: some instance of the bounded set satisfies the
\* schema.
Satisfiable(schema, instances) ==
  \E i \in DOMAIN instances : validate_instance_against_schema(instances[i], schema)

\* What the probe can reach: lengths and counts up to its caps, whole bounds for
\* whole numbers, no pattern, no negative count (which the validator reads as an
\* enormous one and the probe as none).
WithinProbe(schema) ==
  /\ ~Has(schema, "pattern")
  /\ Has(schema, "minLength") => schema.minLength <= ProbeCap
  /\ Has(schema, "minItems") => schema.minItems <= ProbeItems
  /\ Has(schema, "maxItems") => schema.maxItems >= 0
  /\ Has(schema, "type") /\ schema.type = <<"integer">> =>
       \A key \in {"minimum", "maximum"} : Has(schema, key) => schema[key] % 2 = 0

\* Within the probe's reach, a stored call whose argument is a placeholder still
\* binds exactly when the placeholder's schema has an instance: the projection
\* neither condemns a workflow that can run nor admits one that cannot
\* (skeleton_violation, Materializer).
PlaceholderBinds(schema, instances) ==
  LET tool == object_schema([arg |-> schema], <<"arg">>)
      call == Value("object", [key \in {"tool", "arg"} |->
                IF key = "tool" THEN Str("t", 1) ELSE Parameter("p")])
  IN  WithinProbe(schema) => (~skeleton_violation(call, tool) <=> Satisfiable(schema, instances))
=============================================================================

---------------------------- MODULE WorkflowEvents ----------------------------
(***************************************************************************)
(* The payload codec of the twenty workflow event types (workflow_events)  *)
(* and what the emitters hand to it.  An event is a record of abstract     *)
(* values; a payload is the type and a function from keys to JSON values   *)
(* [t |-> kind of JSON value, v |-> class of its content].  The encoders,  *)
(* the key sets and the parsers are three separate pieces of code, and     *)
(* they are three separate tables here.                                    *)
(*                                                                         *)
(* Value classes: ids "id"/"nil", digests "digest", text "empty"/"short"/  *)
(* "long" (over the bound of the member), integers "zero"/"some"/"wide"    *)
(* (over 32 bits)/"negative", numbers "unit"/"over1"/"negative", optional  *)
(* values "absent".                                                        *)
(***************************************************************************)
EXTENDS Naturals, Sequences

Json(t, v) == [t |-> t, v |-> v]
Null == Json("null", "null")
Error == Json("error", "error")

\* encode_payload and the members the encoders write: key -> kind of member.
EncodedRun ==
  [ WorkflowRunStarted   |-> [run_id |-> "id", workflow_id |-> "id", ir_digest |-> "digest",
                              parameters_digest |-> "digest", policy |-> "name"],
    WorkflowStepStarted  |-> [run_id |-> "id", step_id |-> "id", kind |-> "name", attempt |-> "count"],
    WorkflowStepSettled  |-> [run_id |-> "id", step_id |-> "id", disposition |-> "name",
                              verification |-> "text", safe_summary |-> "text"],
    WorkflowRunSettled   |-> [run_id |-> "id", terminal_state |-> "name", run_epoch |-> "count",
                              safe_summary |-> "text"],
    WorkflowPatchProposed |-> [patch_id |-> "id", run_id |-> "id", patch_digest |-> "digest",
                              target |-> "name", reason_code |-> "text"],
    WorkflowPatchApplied |-> [patch_id |-> "id", run_id |-> "id", run_patch_epoch |-> "count"],
    WorkflowPatchRejected |-> [patch_id |-> "id", run_id |-> "id", reason_code |-> "text"],
    WorkflowPolicySwitched |-> [run_id |-> "id", from |-> "name", to |-> "name"],
    WorkflowDecisionRaised |-> [run_id |-> "id", decision_id |-> "id", payload_digest |-> "digest"],
    WorkflowDecisionResolved |-> [run_id |-> "id", decision_id |-> "id", resolution |-> "name"] ]
EncodedPublish ==
  [ WorkflowPublishProposed |-> [workflow_id |-> "id", ir_digest |-> "digest", source_run_id |-> "opt"],
    WorkflowPublishApplied |-> [workflow_id |-> "id", ir_digest |-> "digest", evidence |-> "digest",
                                dry_run_id |-> "id"],
    WorkflowPublishRejected |-> [workflow_id |-> "id", ir_digest |-> "digest", reason_code |-> "text"] ]
EncodedNavigation ==
  [ WorkflowNavigationPlanned |-> [run_id |-> "id", step_id |-> "id", from_state |-> "text",
        to_state |-> "text", edge_count |-> "count", plan_digest |-> "digest",
        total_cost |-> "number", guards_blocked |-> "count", guards_unevaluable |-> "count"],
    WorkflowNavigationObserved |-> [run_id |-> "id", step_id |-> "id", transition_id |-> "text",
        from_state |-> "text", to_state |-> "text", success |-> "flag", confidence |-> "number"] ]
EncodedEpisode ==
  [WorkflowEpisodeRecorded |-> [run_id |-> "id", workflow_id |-> "id", episode_digest |-> "digest",
                                outcome |-> "name", reason_code |-> "text"]]
EncodedLesson ==
  [WorkflowLessonRecorded |-> [run_id |-> "id", workflow_id |-> "id", lesson_digest |-> "digest",
                               outcome |-> "name", reason_code |-> "text"]]
EncodedRecovery ==
  [WorkflowRecoveryAttempted |-> [run_id |-> "id", workflow_id |-> "id", ordinal |-> "count",
     task_id |-> "id", outcome |-> "name", reason_code |-> "text", decision_digest |-> "opt",
     patch_id |-> "opt", model_request_id |-> "opt", lessons_offered |-> "count",
     lessons_stale |-> "count", lessons_unparseable |-> "count", lessons_kept |-> "count"]]
EncodedTools ==
  [ WorkflowToolCompatDegraded |-> [run_id |-> "id", workflow_id |-> "id", ir_digest |-> "digest",
                                    projection |-> "artifact"],
    WorkflowProceduresSynced |-> [procedure_index_digest |-> "digest", published_count |-> "count"] ]

Join(f, g) == [x \in DOMAIN f \cup DOMAIN g |-> IF x \in DOMAIN f THEN f[x] ELSE g[x]]
Encoded == Join(EncodedRun, Join(EncodedPublish, Join(EncodedNavigation,
             Join(EncodedEpisode, Join(EncodedLesson, Join(EncodedRecovery, EncodedTools))))))

\* is_workflow_event_type.
EventTypes == DOMAIN Encoded

\* One member as the encoder writes it.
EncodeMember(kind, value) ==
  CASE kind = "count"    -> Json("integer", value)
    [] kind = "number"   -> Json("number", value)
    [] kind = "flag"     -> Json("boolean", value)
    [] kind = "artifact" -> Json("object", value)
    [] kind = "opt"      -> IF value = "absent" THEN Null ELSE Json("string", value)
    [] OTHER             -> Json("string", value)

to_event_payload(type, event) ==
  [type |-> type,
   data |-> [key \in DOMAIN event \cup {"schema"} |->
               IF key = "schema" THEN Json("string", type)
               ELSE EncodeMember(Encoded[type][key], event[key])]]

-----------------------------------------------------------------------------
(* Parsing: the exact key sets, and the check each member goes through. *)

\* The k...Keys arrays, without "schema".
Keys ==
  [ WorkflowRunStarted |-> {"run_id", "workflow_id", "ir_digest", "parameters_digest", "policy"},
    WorkflowStepStarted |-> {"run_id", "step_id", "kind", "attempt"},
    WorkflowStepSettled |-> {"run_id", "step_id", "disposition", "verification", "safe_summary"},
    WorkflowRunSettled |-> {"run_id", "terminal_state", "run_epoch", "safe_summary"},
    WorkflowPatchProposed |-> {"patch_id", "run_id", "patch_digest", "target", "reason_code"},
    WorkflowPatchApplied |-> {"patch_id", "run_id", "run_patch_epoch"},
    WorkflowPatchRejected |-> {"patch_id", "run_id", "reason_code"},
    WorkflowPolicySwitched |-> {"run_id", "from", "to"},
    WorkflowDecisionRaised |-> {"run_id", "decision_id", "payload_digest"},
    WorkflowDecisionResolved |-> {"run_id", "decision_id", "resolution"},
    WorkflowPublishProposed |-> {"workflow_id", "ir_digest", "source_run_id"},
    WorkflowPublishApplied |-> {"workflow_id", "ir_digest", "evidence", "dry_run_id"},
    WorkflowPublishRejected |-> {"workflow_id", "ir_digest", "reason_code"},
    WorkflowNavigationPlanned |-> {"run_id", "step_id", "from_state", "to_state", "edge_count",
       "plan_digest", "total_cost", "guards_blocked", "guards_unevaluable"},
    WorkflowNavigationObserved |-> {"run_id", "step_id", "transition_id", "from_state", "to_state",
       "success", "confidence"},
    WorkflowEpisodeRecorded |-> {"run_id", "workflow_id", "episode_digest", "outcome", "reason_code"},
    WorkflowLessonRecorded |-> {"run_id", "workflow_id", "lesson_digest", "outcome", "reason_code"},
    WorkflowRecoveryAttempted |-> {"run_id", "workflow_id", "ordinal", "task_id", "outcome",
       "reason_code", "decision_digest", "patch_id", "model_request_id", "lessons_offered",
       "lessons_stale", "lessons_unparseable", "lessons_kept"},
    WorkflowToolCompatDegraded |-> {"run_id", "workflow_id", "ir_digest", "projection"},
    WorkflowProceduresSynced |-> {"procedure_index_digest", "published_count"} ]

\* The check of each member that is not an id, a digest or a name.
ParsedRun ==
  [ WorkflowStepStarted |-> [attempt |-> "positive"],
    WorkflowStepSettled |-> [verification |-> "summary", safe_summary |-> "summary"],
    WorkflowRunSettled  |-> [terminal_state |-> "terminal", run_epoch |-> "count",
                             safe_summary |-> "summary"] ]
ParsedPatch ==
  [ WorkflowPatchProposed |-> [reason_code |-> "reason"],
    WorkflowPatchApplied  |-> [run_patch_epoch |-> "count"],
    WorkflowPatchRejected |-> [reason_code |-> "reason"] ]
ParsedPublish ==
  [ WorkflowPublishProposed |-> [source_run_id |-> "lenient"],
    WorkflowPublishRejected |-> [reason_code |-> "reason"] ]
ParsedNavigation ==
  [ WorkflowNavigationPlanned |-> [from_state |-> "reason", to_state |-> "reason",
      edge_count |-> "count", total_cost |-> "cost", guards_blocked |-> "count",
      guards_unevaluable |-> "count"],
    WorkflowNavigationObserved |-> [transition_id |-> "reason", from_state |-> "reason",
      to_state |-> "reason", success |-> "flag", confidence |-> "unit"] ]
ParsedLearning ==
  [ WorkflowEpisodeRecorded |-> [reason_code |-> "text"],
    WorkflowLessonRecorded  |-> [reason_code |-> "text"] ]
ParsedRecovery ==
  [WorkflowRecoveryAttempted |-> [ordinal |-> "count32", reason_code |-> "text",
     decision_digest |-> "opt", patch_id |-> "opt", model_request_id |-> "opt",
     lessons_offered |-> "count32", lessons_stale |-> "count32",
     lessons_unparseable |-> "count32", lessons_kept |-> "count32"]]
ParsedTools ==
  [ WorkflowToolCompatDegraded |-> [projection |-> "artifact"],
    WorkflowProceduresSynced   |-> [published_count |-> "count"] ]
Parsed == Join(ParsedRun, Join(ParsedPatch, Join(ParsedPublish, Join(ParsedNavigation,
            Join(ParsedLearning, Join(ParsedRecovery, ParsedTools))))))

\* parse_member_id, parse_member_digest, parse_member_name for the rest.
Check(type, key) ==
  IF type \in DOMAIN Parsed /\ key \in DOMAIN Parsed[type] THEN Parsed[type][key]
  ELSE Encoded[type][key]

\* One member as the parser reads it: Json("ok", value) or Error.
ParseMember(check, json) ==
  LET ok == CASE check = "id"       -> json.t = "string" /\ json.v = "id"
              [] check = "digest"   -> json.t = "string" /\ json.v = "digest"
              [] check = "name"     -> json.t = "string" /\ json.v \in {"member", "final"}
              [] check = "terminal" -> json.t = "string" /\ json.v = "final"
              [] check = "text"     -> json.t = "string"
              [] check = "summary"  -> json.t = "string" /\ json.v # "long"
              [] check = "reason"   -> json.t = "string" /\ json.v \notin {"empty", "long"}
              [] check = "count"    -> json.t = "integer" /\ json.v # "negative"
              [] check = "count32"  -> json.t = "integer" /\ json.v \notin {"negative", "wide"}
              [] check = "positive" -> json.t = "integer" /\ json.v \notin {"negative", "zero"}
              [] check = "cost"     -> json.t = "number" /\ json.v # "negative"
              [] check = "unit"     -> json.t = "number" /\ json.v = "unit"
              [] check = "flag"     -> json.t = "boolean"
              [] check = "opt"      -> \/ json.t = "null"
                                       \/ json.t = "string" /\ json.v \in {"id", "digest", "nil"}
              [] check = "lenient"  -> json.t = "string" => json.v = "id"
              [] check = "artifact" -> json.t = "object" /\ json.v = "compat"
  IN  IF ~ok THEN Error
      ELSE Json("ok", IF check \in {"opt", "lenient"} /\ json.t # "string" THEN "absent"
                      ELSE json.v)

\* parse_payload, check_exact_keys, then the members: a record or <<>>.
parse(type, payload) ==
  LET data == payload.data
      keys == DOMAIN data \ {"schema"}
      member == [key \in keys |-> ParseMember(Check(type, key), data[key])]
  IN  IF \/ payload.type # type \/ "schema" \notin DOMAIN data
         \/ data["schema"] # Json("string", type) \/ keys # Keys[type]
         \/ \E key \in keys : member[key] = Error
        THEN << >> ELSE [key \in keys |-> member[key].v]

-----------------------------------------------------------------------------
(* What the emitters put into the events. *)

\* The classes an emitter gives a member, low and high: ids and digests are
\* real ones, summaries are cut to the bound (bounded_summary) and may be empty,
\* reason codes come from short closed sets.
EmittedMember(type, key) ==
  LET kind == Encoded[type][key]
      same(v) == <<v, v>>
  IN  CASE kind = "id"     -> same("id")
        [] kind = "digest" -> same("digest")
        [] kind = "name"   -> same(IF key = "terminal_state" THEN "final" ELSE "member")
        [] kind = "text"   -> <<IF Check(type, key) = "reason" THEN "short" ELSE "empty", "short">>
        [] kind = "count"  -> <<IF Check(type, key) = "positive" THEN "some" ELSE "zero", "some">>
        [] kind = "number" -> same("unit")
        [] kind = "flag"   -> <<"false", "true">>
        [] kind = "opt"    -> <<"absent", "id">>
        [] OTHER           -> same("compat")

\* emit_attempt names the carrier task of the attempt: nil when the pipeline is
\* turned away before it looked the run up or because the run has moved on.
emit_attempt_carrier(waiting) == IF waiting THEN "id" ELSE "nil"

EmittedEvent(type, waiting, level) ==
  [key \in DOMAIN Encoded[type] |->
     IF type = "WorkflowRecoveryAttempted" /\ key = "task_id" THEN emit_attempt_carrier(waiting)
     ELSE EmittedMember(type, key)[level]]

\* Contents a damaged or foreign log may hold in place of a member.
ForeignJson ==
  {Null, Json("boolean", "true"), Json("object", "compat"), Json("object", "other")}
    \cup [t : {"string"}, v : {"id", "nil", "digest", "member", "final", "empty", "short", "long"}]
    \cup [t : {"integer"}, v : {"zero", "some", "wide", "negative"}]
    \cup [t : {"number"}, v : {"unit", "over1", "negative"}]

\* Members whose parser accepts more than the encoder writes: the optional
\* source run of a proposal, and counters narrowed to 32 bits unchecked.
Narrowed == {<<"WorkflowStepStarted", "attempt">>, <<"WorkflowPatchApplied", "run_patch_epoch">>}
Lenient(type, key, json) ==
  \/ Check(type, key) = "lenient" /\ json.t # "string"
  \/ <<type, key>> \in Narrowed /\ json.v = "wide"

\* What an emitter appended, a reader gets back.
ReadsBack(type, waiting, level) ==
  LET same(event) == parse(type, to_event_payload(type, event)) = event
  IN  same(EmittedEvent(type, waiting, level))

\* A payload that differs in one member is either refused or means what it says:
\* it is the encoding of the event the reader gets.
RefusesForeign(type, level, key, json) ==
  LET means(event, other) ==
        event = << >> \/ to_event_payload(type, event) = other \/ Lenient(type, key, json)
      read(other) == means(parse(type, other), other)
      changed(payload) == read([payload EXCEPT !.data[key] = json])
  IN  changed(to_event_payload(type, EmittedEvent(type, TRUE, level)))

\* One key less or one key more is refused, and so is any other event type.
RefusesShape(type, level) ==
  LET only(payload, ks) ==
        [payload EXCEPT !.data = [k \in ks |-> IF k \in DOMAIN @ THEN @[k] ELSE Null]]
      refused(payload, keys) ==
        /\ \A key \in keys : parse(type, only(payload, keys \ {key})) = << >>
        /\ parse(type, only(payload, keys \cup {"extra"})) = << >>
        /\ \A t \in EventTypes \ {type} : parse(t, payload) = << >>
      shapes(payload) == refused(payload, DOMAIN payload.data)
  IN  shapes(to_event_payload(type, EmittedEvent(type, TRUE, level)))
=============================================================================

---------------------------- MODULE ToolReference ----------------------------
(***************************************************************************)
(* References from workflows to tools (tool_reference.cpp): the text form, *)
(* the manifest taken when a workflow is published, the projection of a    *)
(* manifest on the tools of the moment, and the codecs of both.            *)
(*                                                                         *)
(* A digest is a number, 0 when there is none and Malformed when the text  *)
(* is not a digest; the digest of a document is its content. A view is a   *)
(* sequence of [name, digest, effects, schema]; a definition has an id, a  *)
(* digest, a minor schema version and steps [id, kind, tool, args], where  *)
(* tool is the text in the reserved member.                                *)
(***************************************************************************)
EXTENDS Schema, SequencesExt

CONSTANT MaxEntries
Malformed == 99
Modes == {"pinned_digest", "follow_latest"}
is_valid_vocabulary_id(name) == name \notin {"", "not a name"}

Text(scheme, name, at, hex) == [scheme |-> scheme, name |-> name, at |-> at, hex |-> hex]
Refused == [ok |-> FALSE]
Reference(name, mode, pin) == [ok |-> TRUE, name |-> name, mode |-> mode, pin |-> pin]

parse_tool_reference(text) ==
  IF ~text.scheme \/ ~is_valid_vocabulary_id(text.name) THEN Refused
  ELSE IF ~text.at THEN Reference(text.name, "follow_latest", 0)
  ELSE IF text.hex \in {0, Malformed} THEN Refused
  ELSE Reference(text.name, "pinned_digest", text.hex)

tool_reference_to_string(r) ==
  LET pinned == r.mode = "pinned_digest" /\ r.pin # 0
  IN  Text(TRUE, r.name, pinned, IF pinned THEN r.pin ELSE 0)

\* A view must not name a tool twice.
indexed_view(view) == \A i, j \in DOMAIN view : view[i].name = view[j].name => i = j
InView(view, name) == \E i \in DOMAIN view : view[i].name = name
Found(view, name) == view[CHOOSE i \in DOMAIN view : view[i].name = name]

ByStep(entries) == SortSeq(entries, LAMBDA a, b : a.step < b.step)
ToolSteps(def) == SelectSeq(def.steps, LAMBDA s : s.kind = "ToolCall")

-----------------------------------------------------------------------------
(* Extraction. *)

\* What one step refers to; a reference form brings its own mode and digest.
EntryOf(def, step, view, mode) ==
  LET explicit == def.minor >= 1 /\ step.tool.scheme
      r        == parse_tool_reference(step.tool)
      entry(name, m, pin) == [ok |-> TRUE, step |-> step.id, name |-> name, mode |-> m, pin |-> pin]
  IN  IF explicit
        THEN IF ~r.ok \/ ~InView(view, r.name) THEN Refused ELSE entry(r.name, r.mode, r.pin)
      ELSE IF step.tool.scheme \/ ~is_valid_vocabulary_id(step.tool.name)
                \/ ~InView(view, step.tool.name)
        THEN Refused
      ELSE entry(step.tool.name, mode,
                 IF mode = "pinned_digest" THEN Found(view, step.tool.name).digest ELSE 0)

refs_content_to_json(m) == <<m.id, m.def, m.entries>>

extract_workflow_tool_references(def, view, mode) ==
  LET manifest(entries) ==
        [ok |-> TRUE, id |-> def.id, def |-> def.digest, entries |-> entries,
         digest |-> refs_content_to_json([id |-> def.id, def |-> def.digest, entries |-> entries])]
      collected(found) ==
        IF \E i \in DOMAIN found : ~found[i].ok THEN Refused
        ELSE manifest(ByStep([i \in DOMAIN found |->
               [step |-> found[i].step, name |-> found[i].name, mode |-> found[i].mode,
                pin |-> found[i].pin]]))
      of(steps) ==
        IF ~indexed_view(view) \/ Len(steps) > MaxEntries THEN Refused
        ELSE collected([i \in DOMAIN steps |-> EntryOf(def, steps[i], view, mode)])
  IN  of(ToolSteps(def))

verify_workflow_tool_refs(m, id, digest) == m.id = id /\ m.def = digest

-----------------------------------------------------------------------------
(* Projection and admission. *)


EntryStatus(def, entry, view) ==
  LET tool  == Found(view, entry.name)
      steps == {i \in DOMAIN def.steps : def.steps[i].id = entry.step}
      step  == def.steps[CHOOSE i \in steps : TRUE]
  IN  [status |-> CASE ~InView(view, entry.name) -> "unresolved"
                    [] InView(view, entry.name)
                         /\ (entry.mode = "follow_latest" \/ entry.pin = tool.digest) -> "resolved"
                    [] OTHER -> IF steps = {} THEN "no step"
                                ELSE IF skeleton_violation(step.args, tool.schema)
                                  THEN "evolved_incompatible" ELSE "evolved_compatible",
       current |-> IF InView(view, entry.name) THEN tool.digest ELSE 0]

compat_content_to_json(p) == <<p.id, p.def, p.state, p.entries>>

project_workflow_tool_compatibility(def, refs, view) ==
  LET some(status, S) == \E i \in DOMAIN status : status[i].status \in S
      state(status) == IF some(status, {"unresolved", "evolved_incompatible"}) THEN "invalid"
                       ELSE IF some(status, {"evolved_compatible"}) THEN "degraded" ELSE "runnable"
      entries(status) ==
        [i \in DOMAIN status |->
           [step |-> refs.entries[i].step, name |-> refs.entries[i].name,
            mode |-> refs.entries[i].mode, pin |-> refs.entries[i].pin,
            status |-> status[i].status, current |-> status[i].current]]
      content(status) == [id |-> refs.id, def |-> refs.def, state |-> state(status),
                          entries |-> entries(status)]
      projected(status) ==
        IF some(status, {"no step"}) THEN Refused
        ELSE [ok |-> TRUE, id |-> refs.id, def |-> refs.def, state |-> state(status),
              entries |-> entries(status), digest |-> compat_content_to_json(content(status))]
  IN  IF \/ ~verify_workflow_tool_refs(refs, def.id, def.digest)
         \/ Len(refs.entries) > MaxEntries \/ ~indexed_view(view)
        THEN Refused
      ELSE projected([i \in DOMAIN refs.entries |-> EntryStatus(def, refs.entries[i], view)])

admit_workflow_run_by_tool_compat(projection) == projection.state # "invalid"

-----------------------------------------------------------------------------
(* The documents: absent members are "absent" or 0, wrong ones "bad" or     *)
(* Malformed, unknown ones are marked by extra.                            *)

EntryJson(e) == [step |-> e.step, name |-> e.name, mode |-> e.mode, pin |-> e.pin, extra |-> FALSE]
workflow_tool_refs_to_json(m) ==
  [schema |-> "refs", extra |-> FALSE, id |-> m.id, def |-> m.def, digest |-> m.digest,
   entries |-> [i \in DOMAIN m.entries |-> EntryJson(m.entries[i])]]

digest_field(hex) == hex \notin {0, Malformed}
Readable(e) ==
  /\ ~e.extra /\ e.step # 0 /\ is_valid_vocabulary_id(e.name) /\ e.mode \in Modes

workflow_tool_refs_from_json(doc) ==
  LET good(e) == /\ Readable(e)
                 /\ IF e.mode = "pinned_digest" THEN digest_field(e.pin) ELSE e.pin = 0
      entries == ByStep([i \in DOMAIN doc.entries |->
                   [step |-> doc.entries[i].step, name |-> doc.entries[i].name,
                    mode |-> doc.entries[i].mode, pin |-> doc.entries[i].pin]])
      content == refs_content_to_json([id |-> doc.id, def |-> doc.def, entries |-> entries])
  IN  IF \/ doc.schema # "refs" \/ doc.extra \/ doc.id = 0 \/ ~digest_field(doc.def)
         \/ (\E i \in DOMAIN doc.entries : ~good(doc.entries[i]))
         \/ doc.digest # content
        THEN Refused
      ELSE [ok |-> TRUE, id |-> doc.id, def |-> doc.def, entries |-> entries, digest |-> content]

workflow_tool_compat_to_json(p) ==
  [schema |-> "compat", extra |-> FALSE, id |-> p.id, def |-> p.def, state |-> p.state,
   digest |-> p.digest,
   entries |-> [i \in DOMAIN p.entries |->
                  [extra |-> FALSE, step |-> p.entries[i].step, name |-> p.entries[i].name,
                   mode |-> p.entries[i].mode, pin |-> p.entries[i].pin,
                   status |-> p.entries[i].status, current |-> p.entries[i].current]]]

workflow_tool_compat_from_json(doc) ==
  LET good(e) == /\ Readable(e) /\ e.pin # Malformed /\ e.current # Malformed
                 /\ e.status \in {"resolved", "evolved_compatible", "evolved_incompatible",
                                  "unresolved"}
      entries == ByStep([i \in DOMAIN doc.entries |->
                   [step |-> doc.entries[i].step, name |-> doc.entries[i].name,
                    mode |-> doc.entries[i].mode, pin |-> doc.entries[i].pin,
                    status |-> doc.entries[i].status, current |-> doc.entries[i].current]])
      content == compat_content_to_json([id |-> doc.id, def |-> doc.def, state |-> doc.state,
                                         entries |-> entries])
  IN  IF \/ doc.schema # "compat" \/ doc.extra \/ doc.id = 0 \/ ~digest_field(doc.def)
         \/ doc.state \notin {"runnable", "degraded", "invalid"}
         \/ (\E i \in DOMAIN doc.entries : ~good(doc.entries[i]))
         \/ doc.digest # content
        THEN Refused
      ELSE [ok |-> TRUE, id |-> doc.id, def |-> doc.def, state |-> doc.state, entries |-> entries,
            digest |-> content]

-----------------------------------------------------------------------------
(* Properties. *)

\* What extraction produced, and what a projection of it on any view gave, are
\* read back as they were; a manifest edited in one entry under its old digest is
\* refused (the strict readers workflow_tool_refs_from_json and
\* workflow_tool_compat_from_json).
DocumentsSurvive(def, view, later, mode) ==
  LET compat(p) == p.ok => workflow_tool_compat_from_json(workflow_tool_compat_to_json(p)) = p
      edited(doc) ==
        doc.entries # << >> /\ doc.entries[1].pin \in {1, 2}
          => ~workflow_tool_refs_from_json([doc EXCEPT !.entries[1].pin = 3 - @]).ok
      text(r) == parse_tool_reference(tool_reference_to_string(r)) = r
      manifest(refs) ==
        refs.ok =>
          /\ workflow_tool_refs_from_json(workflow_tool_refs_to_json(refs)) = refs
          /\ compat(project_workflow_tool_compatibility(def, refs, later))
          /\ edited(workflow_tool_refs_to_json(refs))
          /\ \A i \in DOMAIN refs.entries :
               text(Reference(refs.entries[i].name, refs.entries[i].mode, refs.entries[i].pin))
  IN  manifest(extract_workflow_tool_references(def, view, mode))

\* A run is admitted without complaint only if every tool it pinned is the one it
\* was published with and every other one is still there, and it is admitted at
\* all only if every tool it names can still take the call.
AdmissionIsHonest(def, view, later, mode) ==
  LET unchanged(e) == /\ InView(later, e.name)
                      /\ e.mode = "pinned_digest" => Found(later, e.name).digest = e.pin
      fits(e, args) == /\ InView(later, e.name)
                       /\ unchanged(e) \/ ~skeleton_violation(args, Found(later, e.name).schema)
      honest(entries, compat) ==
        compat.ok =>
          /\ compat.state = "runnable" => \A i \in DOMAIN entries : unchanged(entries[i])
          /\ admit_workflow_run_by_tool_compat(compat) =>
               \A i \in DOMAIN def.steps : def.steps[i].kind = "ToolCall" =>
                 \E k \in DOMAIN entries : /\ entries[k].step = def.steps[i].id
                                           /\ fits(entries[k], def.steps[i].args)
      admitted(refs) ==
        refs.ok => honest(refs.entries, project_workflow_tool_compatibility(def, refs, later))
  IN  admitted(extract_workflow_tool_references(def, view, mode))
=============================================================================

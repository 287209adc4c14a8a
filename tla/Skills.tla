------------------------------- MODULE Skills -------------------------------
(***************************************************************************)
(* The workflow library and what is built on it: version histories         *)
(* (workflow_versioning.cpp), the publish gate of the workflow runtime,    *)
(* the table of mounted tool references, the registry of published skills  *)
(* (tool_skill.cpp) and skill calls, which run one workflow inside a tool  *)
(* call of another (tool_runtime_wiring.cpp).                              *)
(*                                                                         *)
(* One workflow id; a definition is known by its digest. The tools of the  *)
(* moment are a function from names to specs, where a skill's spec is its  *)
(* descriptor as it was when the host last registered skills. Publishers   *)
(* work between locks, the host changes tools and skills meanwhile, and a  *)
(* chain of nested skill calls runs on executor threads.                   *)
(***************************************************************************)
EXTENDS ToolReference

CONSTANTS Defs,             \* digest -> [id, digest, minor, steps, waits]
          Specs,            \* tool name -> the specs the host may expose under it
          SkillNames,
          Loads,            \* [pubs: publisher -> digest, plan: the host's operations]
          VersionModulus,   \* 2^16: the patch number of a version
          MaxMounts, MaxSkills, MaxSuperseded, MaxDepthOfCalls, MaxActiveRuns

VARIABLES tools, lib, pub, reg, host, calls
skillVars == <<tools, lib, pub, reg, host, calls>>

Nothing == [name |-> "", digest |-> 0, effects |-> FALSE, schema |-> << >>]
Exposed ==
  LET names == SetToSeq({n \in DOMAIN tools : tools[n].name # ""})
  IN  [i \in DOMAIN names |-> tools[names[i]]]
HasTools(d) == ToolSteps(Defs[d]) # << >>

-----------------------------------------------------------------------------
(* Version histories. *)

workflow_version_is_runnable(r) == r.validation \in {"DryRunPassed", "Validated"}

\* The checks of an append; a nil digest is 0.
append_workflow_version(records, r) ==
  /\ r.digest # 0
  /\ (r.validation = "NotValidated") = (r.evidence = 0)
  /\ IF records = << >> THEN r.parent = 0
     ELSE r.version > Last(records).version /\ r.parent = Last(records).digest

\* The newest record of a digest gives its present state.
OfDigest(records, d) == {i \in DOMAIN records : records[i].digest = d}
resolve_workflow_version(records, d) ==
  records[CHOOSE i \in OfDigest(records, d) : \A j \in OfDigest(records, d) : j <= i]
Runnable(d) ==
  OfDigest(lib.records, d) # {} /\ workflow_version_is_runnable(resolve_workflow_version(lib.records, d))


append_version_record(d, validation, evidence, dedupe) ==
  LET head == Last(lib.records)
      r    == [version |-> (Len(lib.records) + 1) % VersionModulus, digest |-> d,
               validation |-> validation, evidence |-> evidence,
               parent |-> IF lib.records = << >> THEN 0 ELSE head.digest]
  IN  IF dedupe /\ lib.records # << >> /\ head.digest = d /\ head.validation = validation
           /\ head.evidence = evidence
        THEN [ok |-> TRUE, same |-> TRUE, records |-> lib.records]
      ELSE IF append_workflow_version(lib.records, r)
        THEN [ok |-> TRUE, same |-> FALSE, records |-> Append(lib.records, r)]
      ELSE [ok |-> FALSE, same |-> FALSE, records |-> lib.records]

-----------------------------------------------------------------------------
(* The publish gate. *)

Idle == [pc |-> "idle", d |-> 0, refs |-> Refused, evidence |-> 0, out |-> "none", added |-> FALSE]
Reject(p, reason) == pub' = [pub EXCEPT ![p].pc = "done", ![p].out = reason]

SkillInit ==
  /\ tools = [n \in DOMAIN Specs \cup SkillNames |->
                IF n \in DOMAIN Specs THEN Specs[n][1] ELSE Nothing]
  /\ lib = [records |-> << >>, mounts |-> [d \in DOMAIN Defs |-> Refused], accepting |-> TRUE,
            active |-> 0, left |-> 0]
  /\ reg = [rec |-> [n \in SkillNames |-> [status |-> "none"]], sealed |-> FALSE, closed |-> FALSE]
  /\ host \in [at : {1}, load : Loads]
  /\ pub = [p \in DOMAIN host.load.pubs |-> Idle]
  /\ calls = << >>

\* Admission, the proposal and the references the tools of the moment give.
publish_begin(p) ==
  /\ pub[p].pc = "idle"
  /\ LET d == host.load.pubs[p]
     IN  \E refs \in {extract_workflow_tool_references(Defs[d], Exposed, "pinned_digest")} :
           IF ~lib.accepting THEN Reject(p, "unavailable")
           ELSE IF HasTools(d) /\ ~refs.ok THEN Reject(p, "tool-refs-unresolvable")
           ELSE pub' = [pub EXCEPT ![p].pc = "gate", ![p].d = d,
                                   ![p].refs = IF HasTools(d) THEN refs ELSE Refused]
  /\ UNCHANGED <<tools, lib, reg, host, calls>>

\* The dry run over the draft; its evidence is a function of the definition and
\* of the number of steps it could not verify.
publish_gate(p) ==
  /\ pub[p].pc = "gate"
  /\ \/ Reject(p, "gate-run-failed")
     \/ lib.accepting /\ lib.active < MaxActiveRuns /\ Reject(p, "publish-dryrun-failed")
     \/ /\ lib.accepting /\ lib.active < MaxActiveRuns
        /\ pub' = [pub EXCEPT ![p].pc = "append", ![p].evidence = pub[p].d]
  /\ UNCHANGED <<tools, lib, reg, host, calls>>

publish_append(p) ==
  /\ pub[p].pc = "append"
  /\ LET a == append_version_record(pub[p].d, "DryRunPassed", pub[p].evidence, TRUE)
     IN  IF ~a.ok THEN Reject(p, "append-failed") /\ UNCHANGED lib
         ELSE /\ lib' = [lib EXCEPT !.records = a.records]
              /\ pub' = [pub EXCEPT ![p].pc = IF pub[p].refs.ok THEN "attach" ELSE "done",
                                    ![p].out = IF pub[p].refs.ok THEN "none" ELSE "published",
                                    ![p].added = ~a.same]
  /\ UNCHANGED <<tools, reg, host, calls>>

\* Mutant: the later manifest wins.
Mountable_Last(refs) == lib.accepting /\ OfDigest(lib.records, refs.def) # {}

\* Mounting is first come, first kept: an equal manifest is a no-op, another one
\* an error.
Mountable(refs) ==
  /\ lib.accepting /\ OfDigest(lib.records, refs.def) # {}
  /\ \/ lib.mounts[refs.def].ok /\ lib.mounts[refs.def].digest = refs.digest
     \/ /\ ~lib.mounts[refs.def].ok
        /\ Cardinality({d \in DOMAIN Defs : lib.mounts[d].ok}) < MaxMounts

publish_attach(p) ==
  /\ pub[p].pc = "attach"
  /\ IF Mountable(pub[p].refs)
       THEN /\ lib' = [lib EXCEPT !.mounts[pub[p].d] = pub[p].refs]
            /\ pub' = [pub EXCEPT ![p].pc = "done", ![p].out = "published"]
       ELSE Reject(p, "refs-mount-failed") /\ UNCHANGED lib
  /\ UNCHANGED <<tools, reg, host, calls>>

-----------------------------------------------------------------------------
(* Skills. A descriptor is named by its version. *)

\* The surface of a workflow under the tools of the moment.
RefsFor(d) ==
  IF lib.mounts[d].ok THEN lib.mounts[d]
  ELSE extract_workflow_tool_references(Defs[d], Exposed, "pinned_digest")
derive_skill_surface(d) ==
  LET surface(refs) ==
        IF ~refs.ok \/ ~indexed_view(Exposed)
             \/ (\E i \in DOMAIN refs.entries : ~InView(Exposed, refs.entries[i].name))
          THEN [ok |-> FALSE, effects |-> FALSE]
        ELSE [ok |-> TRUE,
              effects |-> \E i \in DOMAIN refs.entries : Found(Exposed, refs.entries[i].name).effects]
  IN  surface(RefsFor(d))
Descriptor(d, version) ==
  [version |-> version, source |-> d, effects |-> derive_skill_surface(d).effects]
check_publish_inputs(d) == Runnable(d) /\ derive_skill_surface(d).ok

Published(name) == reg.rec[name].status = "Published"

publish_skill(name, d, version) ==
  LET desc == Descriptor(d, version)
  IN  IF /\ ~reg.sealed /\ ~reg.closed /\ check_publish_inputs(d)
         /\ reg.rec[name].status = "none"
         /\ Cardinality({n \in SkillNames : reg.rec[n].status # "none"}) < MaxSkills
        THEN reg' = [reg EXCEPT !.rec[name] = [status |-> "Published", desc |-> desc, old |-> << >>]]
        ELSE UNCHANGED reg

upgrade_skill(name, d, version) ==
  IF /\ ~reg.sealed /\ ~reg.closed /\ Published(name)
     /\ d # reg.rec[name].desc.source /\ check_publish_inputs(d)
     /\ version > reg.rec[name].desc.version
     /\ Len(reg.rec[name].old) < MaxSuperseded
    THEN reg' = [reg EXCEPT !.rec[name].desc = Descriptor(d, version),
                            !.rec[name].old = Append(@, reg.rec[name].desc.version)]
    ELSE UNCHANGED reg

revoke_skill(name) ==
  IF ~reg.closed /\ Published(name)
    THEN reg' = [reg EXCEPT !.rec[name].status = "Revoked"] ELSE UNCHANGED reg

\* What skill_tool_registrations gives the host to register: published skills
\* only, each with the descriptor of that moment.
SkillSpec(name) ==
  [name |-> name, digest |-> 10 + reg.rec[name].desc.version,
   effects |-> reg.rec[name].desc.effects, schema |-> object_schema(<< >>, << >>)]
skill_tool_registrations ==
  tools' = [n \in DOMAIN tools |->
              IF n \notin SkillNames THEN tools[n]
              ELSE IF Published(n) THEN SkillSpec(n) ELSE Nothing]

-----------------------------------------------------------------------------
(* The host works through its plan, one operation at a time. *)

host_step ==
  /\ host.at <= Len(host.load.plan)
  /\ host' = [host EXCEPT !.at = @ + 1]
  /\ LET op == host.load.plan[host.at]
     IN  \/ /\ op.do = "evolve" /\ UNCHANGED <<lib, reg, calls>>
            /\ \E i \in DOMAIN Specs[op.name] : tools' = [tools EXCEPT ![op.name] = Specs[op.name][i]]
         \/ /\ op.do = "draft" /\ UNCHANGED <<tools, reg, calls>>
            /\ lib' = [lib EXCEPT !.records =
                         append_version_record(op.d, "NotValidated", 0, FALSE).records]
         \/ /\ op.do = "publish" /\ UNCHANGED <<tools, lib, calls>>
            /\ publish_skill(op.name, op.d, op.version)
         \/ /\ op.do = "upgrade" /\ UNCHANGED <<tools, lib, calls>>
            /\ upgrade_skill(op.name, op.d, op.version)
         \/ op.do = "revoke" /\ revoke_skill(op.name) /\ UNCHANGED <<tools, lib, calls>>
         \/ op.do = "seal" /\ reg' = [reg EXCEPT !.sealed = TRUE] /\ UNCHANGED <<tools, lib, calls>>
         \/ /\ op.do = "close" /\ UNCHANGED <<tools, lib, calls>>
            /\ reg' = [reg EXCEPT !.sealed = TRUE, !.closed = TRUE]
         \/ op.do = "register" /\ skill_tool_registrations /\ UNCHANGED <<lib, reg, calls>>
         \/ /\ op.do = "shutdown" /\ UNCHANGED <<tools, reg, calls>>
            /\ lib' = [lib EXCEPT !.accepting = FALSE]
         \/ /\ op.do = "call" /\ UNCHANGED <<tools, lib, reg>>
            /\ calls' = IF calls = << >> /\ tools[op.name].name # ""
                          THEN << [pc |-> "check", name |-> op.name,
                                   digest |-> tools[op.name].digest, depth |-> 0, d |-> 0] >>
                          ELSE calls
  /\ UNCHANGED pub

-----------------------------------------------------------------------------
(* A chain of skill calls: the last frame is the one that runs. *)

Top == calls[Len(calls)]
Under == SubSeq(calls, 1, Len(calls) - 1)
\* The call returns; the run that made it goes on to its end.
Return(ok) ==
  calls' = IF Under = << >> THEN << >>
           ELSE [Under EXCEPT ![Len(Under)].pc = IF ok THEN "settle" ELSE "fail"]

TooDeep(frame) == frame.depth >= MaxDepthOfCalls

\* The registration must still be the published descriptor.
execute_skill_tool_call ==
  /\ calls # << >> /\ Top.pc = "check"
  /\ LET name == Top.name
     IN  IF /\ lib.accepting /\ Published(name)
            /\ 10 + reg.rec[name].desc.version = Top.digest
            /\ ~TooDeep(Top)
           THEN calls' = [calls EXCEPT ![Len(calls)].pc = "create",
                                       ![Len(calls)].d = reg.rec[name].desc.source]
           ELSE Return(FALSE)
  /\ UNCHANGED <<tools, lib, pub, reg, host>>

\* evaluate_tool_compat_gate and the registry checks of admission.
evaluate_tool_compat_gate(d) ==
  LET passes(p) == p.ok /\ admit_workflow_run_by_tool_compat(p)
      gate(refs) == refs.ok /\ passes(project_workflow_tool_compatibility(Defs[d], refs, Exposed))
  IN  IF lib.mounts[d].ok THEN gate(lib.mounts[d])
      ELSE Defs[d].minor >= 1 /\ HasTools(d) =>
             gate(extract_workflow_tool_references(Defs[d], Exposed, "follow_latest"))
resolve_tool_reference_member(step) == step.tool.name
Admitted(d) ==
  /\ evaluate_tool_compat_gate(d)
  /\ \A i \in DOMAIN Defs[d].steps :
       Defs[d].steps[i].kind = "ToolCall"
         => InView(Exposed, resolve_tool_reference_member(Defs[d].steps[i]))

create_skill_child_run ==
  /\ calls # << >> /\ Top.pc = "create"
  /\ IF Runnable(Top.d) /\ Admitted(Top.d) /\ lib.accepting /\ lib.active < MaxActiveRuns
       THEN /\ lib' = [lib EXCEPT !.active = @ + 1]
            /\ calls' = [calls EXCEPT ![Len(calls)].pc = "drive"]
       ELSE Return(FALSE) /\ UNCHANGED lib
  /\ UNCHANGED <<tools, pub, reg, host>>

\* The child's tool step: the tool is looked up again; a skill opens a frame of
\* its own, whose depth is one more than that of the call above.
skill_child_step ==
  /\ calls # << >> /\ Top.pc = "drive"
  /\ LET steps == ToolSteps(Defs[Top.d])
         name  == resolve_tool_reference_member(steps[1])
         at    == Len(calls)
     IN  calls' = IF steps = << >> THEN [calls EXCEPT ![at].pc = "settle"]
                  ELSE IF ~InView(Exposed, name) THEN [calls EXCEPT ![at].pc = "fail"]
                  ELSE IF name \in SkillNames
                    THEN Append([calls EXCEPT ![at].pc = "wait"],
                                [pc |-> "check", name |-> name, digest |-> tools[name].digest,
                                 depth |-> Top.depth + 1, d |-> 0])
                  ELSE [calls EXCEPT ![at].pc = "settle"]
  /\ UNCHANGED <<tools, lib, pub, reg, host>>

\* The child settles, or it stops for an agent and is left as it is.
skill_call_returns ==
  /\ calls # << >> /\ Top.pc \in {"settle", "fail"}
  /\ \/ Return(Top.pc = "settle") /\ lib' = [lib EXCEPT !.active = @ - 1]
     \/ /\ Top.pc = "fail" /\ Defs[Top.d].waits
        /\ Return(FALSE) /\ lib' = [lib EXCEPT !.left = @ + 1]
  /\ UNCHANGED <<tools, pub, reg, host>>

SkillNext ==
  \/ host_step
  \/ execute_skill_tool_call \/ create_skill_child_run \/ skill_child_step \/ skill_call_returns
  \/ \E p \in DOMAIN pub :
       publish_begin(p) \/ publish_gate(p) \/ publish_append(p) \/ publish_attach(p)

-----------------------------------------------------------------------------
(* Properties. *)

\* A skill that calls skills, itself included, stops at the configured depth, and
\* every run slot in use belongs to a call in progress or to a child that stopped
\* for an agent (max_skill_call_depth).
SkillCallsBounded ==
  /\ Cardinality({i \in DOMAIN calls : calls[i].pc \in {"drive", "wait", "settle", "fail"}})
       <= MaxDepthOfCalls
  /\ lib.active = lib.left
                    + Cardinality({i \in DOMAIN calls : calls[i].pc \in {"drive", "wait", "settle", "fail"}})


\* A mounted manifest is never replaced, no record is ever rewritten, and a revoked
\* skill is never published again.
LibraryOnlyGrows ==
  [][ /\ IsPrefix(lib.records, lib'.records)
      /\ \A d \in DOMAIN Defs : lib.mounts[d].ok => lib'.mounts[d] = lib.mounts[d]
      /\ \A n \in SkillNames : reg.rec[n].status = "Revoked" => reg'.rec[n] = reg.rec[n]
    ]_skillVars

=============================================================================

--------------------------- MODULE WorkflowCompiler ---------------------------
(***************************************************************************)
(* From finished runs back to a definition: capture_trajectory, parameter  *)
(* induction over several trajectories, and compile_workflow.  Arguments   *)
(* are the leaves of their tree (a function from leaf pointers to values); *)
(* a leaf of the source form may be a reference to a parameter.            *)
(***************************************************************************)
EXTENDS WorkflowIr, WorkflowRun

CONSTANT MaxParameters

RefTo(name) == J("$param", name)
IsScalarLeaf(json) == json.t \in {"string", "integer", "number", "boolean"}

\* resolve_references: every reference has a bound value.
Resolved(args, values) ==
  Option(\A leaf \in DOMAIN args : args[leaf].t = "$param" => args[leaf].v \in DOMAIN values,
         [leaf \in DOMAIN args |->
            IF args[leaf].t = "$param" THEN values[args[leaf].v] ELSE args[leaf]])

\* A run: its source definition and what patches made of it. over[i] holds the
\* overriding arguments of step i, none when << >>.
capture_trajectory(run) ==
  LET kept == SelectSeq([i \in DOMAIN run.def.steps |-> i], LAMBDA i : i \notin run.skipped)
      step(i) == [source |-> run.def.steps[i],
                  raw    |-> run.def.steps[i].args,
                  args   |-> IF run.over[i] # << >> THEN run.over[i][1]
                             ELSE Resolved(run.def.steps[i].args, run.values)[1]]
  IN  Option(run.state = "Completed" /\ workflow_policy_dispatches_side_effects(run.policy),
        [steps |-> [k \in DOMAIN kept |-> step(kept[k])], values |-> run.values,
         params |-> run.def.params, policy |-> run.def.policy, allowed |-> run.def.allowed])

-----------------------------------------------------------------------------
(* Induction. *)

check_shape(left, right) == DOMAIN left = DOMAIN right

\* The leaves whose source form is a reference, with the name referred to.
collect_provenance(step) ==
  [leaf \in {l \in DOMAIN step.raw \cap DOMAIN step.args : step.raw[l].t = "$param"}
     |-> step.raw[leaf].v]

Candidate(name, index, leaf, provenance, observed) ==
  [name |-> name, step_index |-> index, leaf |-> leaf, provenance |-> provenance,
   observed |-> observed]

\* The sites of all steps in walk order; leaves are numbered. The serial of a
\* generated name skips the declared names; names are sequences, generated ones
\* <<10>> on.
induce_parameters(trajectories) ==
  LET anchor == trajectories[1]
      count == Len(anchor.steps)
      skeleton == \A t \in DOMAIN trajectories :
                    /\ Len(trajectories[t].steps) = count
                    /\ \A i \in 1 .. count :
                         /\ trajectories[t].steps[i].source.kind = anchor.steps[i].source.kind
                         /\ check_shape(anchor.steps[i].args, trajectories[t].steps[i].args)
      sites == FlattenSeq([i \in 1 .. count |->
                 SelectSeq([l \in 1 .. 3 |-> <<i, l>>],
                           LAMBDA s : s[2] \in DOMAIN anchor.steps[i].args)])
      value(t, s) == trajectories[t].steps[s[1]].args[s[2]]
      mixed == \E k \in DOMAIN sites, t \in DOMAIN trajectories :
                 value(t, sites[k]).t # value(1, sites[k]).t
      differs(s) == /\ IsScalarLeaf(value(1, s))
                    /\ \E t \in DOMAIN trajectories : ~JsonEqual(value(t, s), value(1, s))
      chosen == SelectSeq(sites, differs)
      declared == {anchor.params[i].name : i \in DOMAIN anchor.params}
      named(s) == s[2] \in DOMAIN collect_provenance(anchor.steps[s[1]])
      fresh(n) == CHOOSE m \in 10 .. 20 : /\ m > n /\ <<m>> \notin declared
                                          /\ \A o \in (n + 1) .. (m - 1) : <<o>> \in declared
      after[k \in 0 .. Len(chosen)] ==
        IF k = 0 THEN [list |-> << >>, serial |-> 9]
        ELSE LET st == after[k - 1]
                 s == chosen[k]
                 serial == IF named(s) THEN st.serial ELSE fresh(st.serial)
                 name == IF named(s) THEN collect_provenance(anchor.steps[s[1]])[s[2]]
                         ELSE <<serial>>
             IN  [list |-> Append(st.list,
                    Candidate(name, s[1], s[2], IF named(s) THEN "provenance" ELSE "structural",
                              [t \in DOMAIN trajectories |-> value(t, s)])), serial |-> serial]
  IN  Option(Len(trajectories) \in 2 .. 16 /\ skeleton /\ ~mixed /\ Len(chosen) <= MaxParameters,
             after[Len(chosen)].list)

-----------------------------------------------------------------------------
(* Compilation. *)

\* Observed values become the defaults of the source parameters.
Baked(trajectory) ==
  [i \in DOMAIN trajectory.params |->
     LET spec == trajectory.params[i]
     IN  IF spec.name \in DOMAIN trajectory.values
           THEN [spec EXCEPT !.default = trajectory.values[spec.name], !.required = FALSE]
           ELSE spec]

InducedSpec(candidate, value) ==
  [name |-> candidate.name, type |-> value.t, required |-> FALSE, default |-> value,
   minimum |-> << >>, maximum |-> << >>, min_length |-> << >>, max_length |-> << >>,
   pattern |-> << >>, enum |-> << >>]

CandidateValid(trajectory, c) ==
  /\ c.step_index \in DOMAIN trajectory.steps
  /\ LET step == trajectory.steps[c.step_index]
     IN  /\ c.leaf \in DOMAIN step.args /\ IsScalarLeaf(step.args[c.leaf])
         /\ ~(step.source.kind = "ToolCall" /\ c.leaf = step.source.tool_leaf)

\* A group of candidates with one name: all of provenance for a declared
\* parameter, or a single one with a new name.
GroupValid(trajectory, candidates, name) ==
  LET group == {k \in DOMAIN candidates : candidates[k].name = name}
      provenance == \A k \in group : candidates[k].provenance = "provenance"
      declared == \E i \in DOMAIN trajectory.params : trajectory.params[i].name = name
  IN  IF provenance THEN declared ELSE ~declared /\ \A k, m \in group : k = m

(* Mutant: a parameter keeps the default it was declared with. *)
compile_parameters_Declared(trajectory, candidates) ==
  LET new == SelectSeq(candidates, LAMBDA c : c.provenance # "provenance")
      value(c) == IF c.observed # << >> THEN c.observed[1]
                  ELSE trajectory.steps[c.step_index].args[c.leaf]
  IN  trajectory.params \o [k \in DOMAIN new |-> InducedSpec(new[k], value(new[k]))]

compile_parameters(trajectory, candidates) ==
  LET new == SelectSeq(candidates, LAMBDA c : c.provenance # "provenance")
      value(c) == IF c.observed # << >> THEN c.observed[1]
                  ELSE trajectory.steps[c.step_index].args[c.leaf]
  IN  Baked(trajectory) \o [k \in DOMAIN new |-> InducedSpec(new[k], value(new[k]))]

\* The compiled steps in the form valid_definition looks at: targets by
\* position among the steps kept, 0 for one that was dropped.
Structure(steps) ==
  LET at(id) == LET hits == {i \in DOMAIN steps : steps[i].source.id = id}
                IN  IF hits = {} THEN 0 ELSE CHOOSE i \in hits : TRUE
  IN  [i \in DOMAIN steps |-> [kind |-> steps[i].source.kind, head |-> steps[i].source.head,
         hook |-> steps[i].source.hook, goto |-> at(steps[i].source.goto)]]

compile_workflow(trajectory, candidates, policy) ==
  LET rewritten(i) ==
        [leaf \in DOMAIN trajectory.steps[i].args |->
           LET mine == {k \in DOMAIN candidates :
                          candidates[k].step_index = i /\ candidates[k].leaf = leaf}
           IN  IF mine = {} THEN trajectory.steps[i].args[leaf]
               ELSE RefTo(candidates[CHOOSE k \in mine : \A m \in mine : m <= k].name)]
      allowed == IF trajectory.allowed = {} THEN {policy} ELSE trajectory.allowed
      params == compile_parameters(trajectory, candidates)
      ok == /\ policy \in allowed
            /\ \A i \in DOMAIN trajectory.steps : trajectory.steps[i].source.kind = "ToolCall"
                 => trajectory.steps[i].source.tool_leaf \in DOMAIN trajectory.steps[i].args
            /\ \A k \in DOMAIN candidates :
                 /\ CandidateValid(trajectory, candidates[k])
                 /\ GroupValid(trajectory, candidates, candidates[k].name)
            /\ Len(params) <= MaxParameters
            /\ valid_definition([steps |-> Structure(trajectory.steps), policy |-> policy,
                                 allowed |-> allowed])
            /\ validate_workflow_parameter_specs(params)
  IN  Option(ok, [steps |-> [i \in DOMAIN trajectory.steps |-> rewritten(i)], params |-> params,
                  policy |-> policy, allowed |-> allowed])

-----------------------------------------------------------------------------

\* The arguments a run of the compiled definition gets when it is given no
\* parameters: one per step.
DefaultRun(def) ==
  LET none == [n \in {} |-> JNull]
      bound == bind_workflow_parameters(def.params, none)
  IN  IF bound = << >> THEN << >>
      ELSE [i \in DOMAIN def.steps |-> Resolved(def.steps[i], bound[1])]

\* Compiled from a captured run, the definition run on its own does what the
\* captured (anchor) run did.
ReplaysAnchor(runs, policy, induced) ==
  LET captured == [k \in DOMAIN runs |-> capture_trajectory(runs[k])]
      all == \A k \in DOMAIN runs : captured[k] # << >>
      trajectories == [k \in DOMAIN runs |-> captured[k][1]]
      candidates == IF induced THEN induce_parameters(trajectories) ELSE << << >> >>
      def == compile_workflow(trajectories[1], candidates[1], policy)
  IN  all /\ candidates # << >> /\ def # << >> =>
        DefaultRun(def[1]) = [i \in DOMAIN trajectories[1].steps |-> <<trajectories[1].steps[i].args>>]

\* No override hides a reference of the anchor: what induction takes the name
\* of a leaf from is what the leaf was resolved from.
FaithfulSource(run) ==
  \A i \in DOMAIN run.over : run.over[i] # << >> =>
    \A leaf \in DOMAIN run.def.steps[i].args : run.def.steps[i].args[leaf].t # "$param"
=============================================================================

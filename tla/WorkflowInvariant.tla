-------------------------- MODULE WorkflowInvariant --------------------------
(***************************************************************************)
(* The invariant of the workflow runtime, what a step may do to the run    *)
(* and to its process, and that the steps of the drive and of the callers  *)
(* other than the making of a run and the launch of a drive do no more.    *)
(***************************************************************************)
EXTENDS Workflow, TLAPS

RunFields == {"state", "epoch", "decision", "request", "eff", "queue", "applied",
              "patch_epoch", "cursor", "attempts", "retries", "jumps", "executions",
              "escalations", "interrupted", "active", "unsure"}
ProcFields == {"pc", "ret", "wd", "fresh", "prev", "async", "queue", "patch", "new",
               "target", "seen", "edges", "todo"}
TableFields == {"accepting", "shut", "active", "async", "rest"}
Procs == Drives \cup Callers

\* A caller inside create_run, between its admission and the insertion.
Making == {"submit_task", "insert"}
\* Where a process may be while there is no run.
AbsentPcs == {"none", "idle", "sh_cancel", "sh_settle", "sh_wait"} \cup Making

Shapes ==
  /\ load \in Loads
  /\ DOMAIN run = RunFields /\ DOMAIN table = TableFields /\ DOMAIN proc = Procs
  /\ \A p \in Procs : DOMAIN proc[p] = ProcFields
  /\ \A c \in Callers : proc[c].todo \in Seq(WorkOf(load))
  /\ run.state \in RunStates \cup {"Absent"}

\* The run is made once: whoever makes it took the only create call there is.
MadeOnce ==
  /\ \A c1, c2 \in Callers :
       \A i \in 1 .. Len(proc[c1].todo), j \in 1 .. Len(proc[c2].todo) :
         proc[c1].todo[i].op = "create" /\ proc[c2].todo[j].op = "create" => c1 = c2 /\ i = j
  /\ \A c1, c2 \in Callers : proc[c1].pc \in Making /\ proc[c2].pc \in Making => c1 = c2
  /\ (run.state # "Absent" \/ \E c \in Callers : proc[c].pc \in Making)
       => \A c \in Callers : \A i \in 1 .. Len(proc[c].todo) : proc[c].todo[i].op # "create"
  /\ \A c \in Callers :
       /\ proc[c].pc \in Making => run.state = "Absent"
       /\ proc[c].ret \notin Making /\ proc[c].target \notin Making

\* Before the run is made nothing has happened to it, and nobody is where the
\* transition table is consulted.
NothingBefore ==
  run.state = "Absent" =>
    run.epoch = 0 /\ \A p \in Procs : proc[p].pc \in AbsentPcs

\* Only drive_fin frees a drive: where a drive goes on to its return place it has
\* one.
Returns == {"write", "close"}

\* A free drive is not asynchronous; the counters are exact.
Counted ==
  /\ \A d \in Drives :
       /\ proc[d].pc = "none" => proc[d].async = FALSE
       /\ proc[d].pc \in Returns => proc[d].ret \notin Returns \cup {"none"}
  /\ table.active \in Int /\ table.rest \in Int /\ table.async \in Int
  /\ CountersExact

ViewInv == Shapes /\ MadeOnce /\ NothingBefore /\ Counted

-----------------------------------------------------------------------------
(* What one step may do to the run, to the table and to a process. *)

\* The view stays, or moves along the transition table; a run that settles
\* gives its slot back in the same step.
RunEffect ==
  /\ DOMAIN run' = RunFields /\ DOMAIN table' = TableFields
  /\ table'.async = table.async /\ table'.rest = table.rest
  /\ \/ run'.state = run.state /\ run'.epoch = run.epoch /\ table'.active = table.active
     \/ \E t \in RunStates :
          /\ run.state # "Absent" /\ CanCommit(t)
          /\ run'.state = t /\ run'.epoch = run.epoch + 1
          /\ table'.active = IF t \in TerminalRun THEN table.active - 1 ELSE table.active

\* One process goes on, nowhere near the making of the run.
ProcEffect(p) ==
  /\ load' = load
  /\ DOMAIN proc' = Procs /\ DOMAIN proc'[p] = ProcFields
  /\ \A q \in Procs \ {p} : proc'[q] = proc[q]
  /\ proc'[p].async = proc[p].async
  /\ p \in Drives =>
       /\ proc'[p].pc # "none"
       /\ proc'[p].pc \in Returns => proc'[p].ret \notin Returns \cup {"none"}
  /\ p \in Callers =>
       /\ \/ proc'[p].todo = proc[p].todo
          \/ proc[p].todo # << >> /\ proc'[p].todo = Tail(proc[p].todo)
       /\ proc'[p].pc \notin Making
       /\ proc'[p].ret \notin Making /\ proc'[p].target \notin Making
  /\ run.state = "Absent" => proc'[p].pc \in AbsentPcs

-----------------------------------------------------------------------------
(* Lemmas about the operators. *)

\* The first call is taken off a list of calls: the others move up by one.
LEMMA TailAt ==
  ASSUME NEW S, NEW q \in Seq(S), q # << >>
  PROVE  /\ Head(q) = q[1] /\ q[1] \in S /\ 1 \in 1 .. Len(q)
         /\ Tail(q) \in Seq(S) /\ Len(q) \in Nat /\ Len(Tail(q)) = Len(q) - 1
         /\ \A i \in 1 .. Len(Tail(q)) : i + 1 \in 1 .. Len(q) /\ Tail(q)[i] = q[i + 1]
<1>1. Len(q) \in Nat /\ Len(q) # 0
  OBVIOUS
<1>2. Head(q) = q[1] /\ q[1] \in S /\ 1 \in 1 .. Len(q)
  BY <1>1
<1>3. Tail(q) \in Seq(S) /\ Len(Tail(q)) = Len(q) - 1
  BY <1>1
<1>4. \A i \in 1 .. Len(Tail(q)) : i + 1 \in 1 .. Len(q) /\ Tail(q)[i] = q[i + 1]
  BY <1>1, <1>3
<1> QED
  BY <1>1, <1>2, <1>3, <1>4

\* A target the table allows is a state of a run, and no terminal run has one.
LEMMA SuccessorsAre ==
  ASSUME NEW s \in RunStates, NEW t, valid_workflow_run_transition(s, t)
  PROVE  /\ s \notin TerminalRun /\ t \in RunStates /\ t # "Created"
         /\ \/ t = "Cancelled"
            \/ t = "Running" /\ s # "Running"
            \/ s = "Running" /\ t \in {"Paused", "WaitingUser", "WaitingAgent"} \cup TerminalRun
            \/ s = "WaitingAgent" /\ t \in {"WaitingUser", "Failed"}
<1>1. t \in RunSuccessors[s]
  BY DEF valid_workflow_run_transition
<1>2. CASE s \in {"Created", "Running", "Paused"}
  BY <1>1, <1>2 DEF RunSuccessors, RunStates, TerminalRun
<1>3. CASE s \in {"WaitingUser", "WaitingAgent"}
  BY <1>1, <1>3 DEF RunSuccessors, RunStates, TerminalRun
<1>4. CASE s \in TerminalRun
  BY <1>1, <1>4 DEF RunSuccessors, TerminalRun
<1> QED
  BY <1>2, <1>3, <1>4 DEF RunStates

\* A commit moves the view to its target and counts it.
LEMMA CommitMoves ==
  ASSUME Shapes, NEW t, CanCommit(t)
  PROVE  /\ DOMAIN Committed(t) = RunFields
         /\ Committed(t).state = t /\ Committed(t).epoch = run.epoch + 1
<1> DEFINE r == [run EXCEPT !.state = t, !.epoch = @ + 1,
                    !.decision = IF run.state = "WaitingUser" THEN 0 ELSE @]
<1>1. apply_workflow_run_transition(run, t).view = r
  BY DEF CanCommit, apply_workflow_run_transition
<1>2. DOMAIN r = RunFields /\ r.state = t /\ r.epoch = run.epoch + 1
  BY DEF Shapes, RunFields
<1>3. Committed(t) = [r EXCEPT !.request = IF run.state = "WaitingUser" THEN NoRequest ELSE @]
  BY <1>1 DEF Committed
<1> HIDE DEF r
<1> QED
  BY <1>2, <1>3 DEF RunFields

\* Writing one field of one process leaves the shape of the others.
LEMMA GoEffect ==
  ASSUME Shapes, NEW p \in Procs, NEW pc, Go(p, pc)
  PROVE  /\ DOMAIN proc' = Procs /\ DOMAIN proc'[p] = ProcFields
         /\ \A q \in Procs \ {p} : proc'[q] = proc[q]
         /\ proc'[p].async = proc[p].async /\ proc'[p].todo = proc[p].todo
         /\ proc'[p].pc = pc /\ proc'[p].ret = proc[p].ret /\ proc'[p].target = proc[p].target
BY DEF Shapes, Go, ProcFields

\* settle_terminal is a commit with its slot, or nothing.
LEMMA SettleEffect ==
  ASSUME Shapes, NEW p \in Procs, NEW t, NEW k, settle_terminal(p, t, k),
         t \in TerminalRun, run.state # "Absent"
  PROVE  /\ RunEffect
         /\ DOMAIN proc' = Procs /\ DOMAIN proc'[p] = ProcFields
         /\ \A q \in Procs \ {p} : proc'[q] = proc[q]
         /\ proc'[p].async = proc[p].async /\ proc'[p].todo = proc[p].todo
         /\ \/ proc'[p].pc = "close" /\ proc'[p].ret = k /\ proc'[p].target = t
            \/ proc'[p].pc = k /\ proc'[p].ret = proc[p].ret /\ proc'[p].target = proc[p].target
<1>1. CASE CanCommit(t)
  <2>1. /\ run' = Committed(t) /\ table' = [table EXCEPT !.active = @ - 1]
        /\ proc' = [proc EXCEPT ![p].pc = "close", ![p].target = t, ![p].ret = k]
    BY <1>1 DEF settle_terminal
  <2>2. t \in RunStates
    BY DEF RunStates
  <2>3. RunEffect
    BY <1>1, <2>1, <2>2, CommitMoves DEF RunEffect, Shapes, TableFields
  <2>4. /\ DOMAIN proc' = Procs /\ DOMAIN proc'[p] = ProcFields
        /\ \A q \in Procs \ {p} : proc'[q] = proc[q]
        /\ proc'[p].async = proc[p].async /\ proc'[p].todo = proc[p].todo
        /\ proc'[p].pc = "close" /\ proc'[p].ret = k /\ proc'[p].target = t
    BY <2>1 DEF Shapes, ProcFields
  <2> QED
    BY <2>3, <2>4
<1>2. CASE ~CanCommit(t)
  <2>1. Go(p, k) /\ run' = run /\ table' = table
    BY <1>2 DEF settle_terminal
  <2>2. RunEffect
    BY <2>1 DEF RunEffect, Shapes
  <2> QED
    BY <2>1, <2>2, GoEffect
<1> QED
  BY <1>1, <1>2

-----------------------------------------------------------------------------
(* A step with those effects keeps the invariant. *)

\* The counter of runs is exact again after the view moved or stayed.
LEMMA RunEffectCounts ==
  ASSUME Shapes, Counted, RunEffect
  PROVE  /\ run'.state \in RunStates \cup {"Absent"}
         /\ run'.state = "Absent" <=> run.state = "Absent"
         /\ table'.active \in Int /\ table'.rest \in Int /\ table'.async \in Int
         /\ table'.active = table'.rest
              + IF run'.state \in TerminalRun \cup {"Absent"} THEN 0 ELSE 1
         /\ table'.active <= MaxActive
<1>1. /\ table.active \in Int /\ table.rest \in Int /\ table.async \in Int
      /\ table.active = table.rest + IF run.state \in TerminalRun \cup {"Absent"} THEN 0 ELSE 1
      /\ table.active <= MaxActive /\ run.state \in RunStates \cup {"Absent"}
      /\ table'.async = table.async /\ table'.rest = table.rest /\ MaxActive \in Nat
  BY ActiveAssumption DEF Counted, CountersExact, Shapes, RunEffect
<1>2. CASE run'.state = run.state /\ run'.epoch = run.epoch /\ table'.active = table.active
  BY <1>1, <1>2
<1>3. ASSUME NEW t \in RunStates, run.state # "Absent", CanCommit(t), run'.state = t,
             table'.active = IF t \in TerminalRun THEN table.active - 1 ELSE table.active
      PROVE  /\ run'.state \in RunStates \cup {"Absent"}
             /\ run'.state = "Absent" <=> run.state = "Absent"
             /\ table'.active \in Int
             /\ table'.active = table'.rest
                  + IF run'.state \in TerminalRun \cup {"Absent"} THEN 0 ELSE 1
             /\ table'.active <= MaxActive
  <2>1. run.state \in RunStates /\ run.state \notin TerminalRun
    BY <1>1, <1>3, SuccessorsAre DEF CanCommit
  <2>2. t # "Absent"
    BY <1>3 DEF RunStates, TerminalRun
  <2> QED
    BY <1>1, <1>3, <2>1, <2>2
<1> QED
  BY <1>1, <1>2, <1>3 DEF RunEffect

\* The processes keep their shape, and only one of them went on.
LEMMA ProcEffectShapes ==
  ASSUME Shapes, NEW p \in Procs, ProcEffect(p)
  PROVE  /\ load' = load /\ DOMAIN proc' = Procs
         /\ \A q \in Procs : DOMAIN proc'[q] = ProcFields
         /\ \A c \in Callers : proc'[c].todo \in Seq(WorkOf(load))
<1>1. /\ load' = load /\ DOMAIN proc' = Procs /\ DOMAIN proc'[p] = ProcFields
      /\ \A q \in Procs \ {p} : proc'[q] = proc[q]
  BY DEF ProcEffect
<1>2. \A q \in Procs : DOMAIN proc'[q] = ProcFields
  BY <1>1 DEF Shapes
<1>3. ASSUME NEW c \in Callers PROVE proc'[c].todo \in Seq(WorkOf(load))
  <2>1. proc[c].todo \in Seq(WorkOf(load)) /\ c \in Procs
    BY DEF Shapes, Procs
  <2>2. CASE c # p
    BY <1>1, <2>1, <2>2
  <2>3. CASE c = p
    <3>1. \/ proc'[c].todo = proc[c].todo
          \/ proc[c].todo # << >> /\ proc'[c].todo = Tail(proc[c].todo)
      BY <2>3 DEF ProcEffect
    <3> QED
      BY ZenonT(60), <2>1, <3>1, TailAt
  <2> QED
    BY <2>2, <2>3
<1> QED
  BY <1>1, <1>2, <1>3

\* No process starts to make the run, and the calls left over only get fewer.
LEMMA ProcEffectMadeOnce ==
  ASSUME Shapes, MadeOnce, NEW p \in Procs, ProcEffect(p),
         run'.state = "Absent" <=> run.state = "Absent"
  PROVE  MadeOnce'
<1>1. /\ load' = load /\ \A q \in Procs \ {p} : proc'[q] = proc[q]
      /\ Callers' = Callers
  BY DEF ProcEffect, Callers
<1>2. ASSUME NEW c \in Callers
      PROVE  \E k \in {0, 1} : \A i \in 1 .. Len(proc'[c].todo) :
               i + k \in 1 .. Len(proc[c].todo) /\ proc'[c].todo[i] = proc[c].todo[i + k]
  <2>1. proc[c].todo \in Seq(WorkOf(load)) /\ c \in Procs
    BY DEF Shapes, Procs
  <2>2. CASE proc'[c].todo = proc[c].todo
    BY <2>1, <2>2
  <2>3. CASE proc[c].todo # << >> /\ proc'[c].todo = Tail(proc[c].todo)
    <3>1. \A i \in 1 .. Len(proc'[c].todo) :
             i + 1 \in 1 .. Len(proc[c].todo) /\ proc'[c].todo[i] = proc[c].todo[i + 1]
      BY <2>1, <2>3, TailAt
    <3> QED
      BY <3>1
  <2>4. \/ proc'[c].todo = proc[c].todo
        \/ proc[c].todo # << >> /\ proc'[c].todo = Tail(proc[c].todo)
    BY <1>1, <2>1 DEF ProcEffect
  <2> QED
    BY <2>2, <2>3, <2>4
<1>3. \A c \in Callers : /\ proc'[c].pc \in Making => proc[c].pc \in Making
                         /\ proc'[c].ret \notin Making /\ proc'[c].target \notin Making
  BY <1>1 DEF ProcEffect, MadeOnce, Procs
<1>4. \A c1, c2 \in Callers :
        \A i \in 1 .. Len(proc'[c1].todo), j \in 1 .. Len(proc'[c2].todo) :
          proc'[c1].todo[i].op = "create" /\ proc'[c2].todo[j].op = "create" => c1 = c2 /\ i = j
  <2> SUFFICES ASSUME NEW c1 \in Callers, NEW c2 \in Callers,
                      NEW i \in 1 .. Len(proc'[c1].todo), NEW j \in 1 .. Len(proc'[c2].todo),
                      proc'[c1].todo[i].op = "create", proc'[c2].todo[j].op = "create"
               PROVE  c1 = c2 /\ i = j
    OBVIOUS
  <2>1. PICK k \in {0, 1} : \A m \in 1 .. Len(proc'[c1].todo) :
          m + k \in 1 .. Len(proc[c1].todo) /\ proc'[c1].todo[m] = proc[c1].todo[m + k]
    BY ZenonT(60), <1>2
  <2>2. PICK l \in {0, 1} : \A m \in 1 .. Len(proc'[c2].todo) :
          m + l \in 1 .. Len(proc[c2].todo) /\ proc'[c2].todo[m] = proc[c2].todo[m + l]
    BY <1>2
  <2>3. /\ i + k \in 1 .. Len(proc[c1].todo) /\ proc[c1].todo[i + k].op = "create"
        /\ j + l \in 1 .. Len(proc[c2].todo) /\ proc[c2].todo[j + l].op = "create"
    BY ZenonT(60), <2>1, <2>2
  <2>4. \A m \in 1 .. Len(proc[c1].todo), n \in 1 .. Len(proc[c2].todo) :
          proc[c1].todo[m].op = "create" /\ proc[c2].todo[n].op = "create" => c1 = c2 /\ m = n
    BY DEF MadeOnce
  <2>5. c1 = c2
    BY <2>3, <2>4
  <2>6. j + k \in 1 .. Len(proc[c1].todo) /\ proc[c1].todo[j + k].op = "create"
    BY ZenonT(60), <2>1, <2>5
  <2>7. i + k = j + k
    BY SMTT(60), <2>3, <2>4, <2>5, <2>6
  <2>8. i \in Int /\ j \in Int /\ k \in Int
    BY <2>1
  <2> QED
    BY <2>5, <2>7, <2>8
<1>5. (run'.state # "Absent" \/ \E c \in Callers : proc'[c].pc \in Making)
        => \A c \in Callers : \A i \in 1 .. Len(proc'[c].todo) : proc'[c].todo[i].op # "create"
  <2>1. SUFFICES ASSUME run'.state # "Absent" \/ \E c \in Callers : proc'[c].pc \in Making,
                        NEW c \in Callers, NEW i \in 1 .. Len(proc'[c].todo)
                 PROVE  proc'[c].todo[i].op # "create"
    OBVIOUS
  <2>2. \A n \in 1 .. Len(proc[c].todo) : proc[c].todo[n].op # "create"
    BY <1>3, <2>1 DEF MadeOnce
  <2>3. PICK k \in {0, 1} : \A m \in 1 .. Len(proc'[c].todo) :
          m + k \in 1 .. Len(proc[c].todo) /\ proc'[c].todo[m] = proc[c].todo[m + k]
    BY <1>2
  <2> QED
    BY SMTT(60), <2>2, <2>3
<1>6. /\ \A c1, c2 \in Callers : proc'[c1].pc \in Making /\ proc'[c2].pc \in Making => c1 = c2
      /\ \A c \in Callers : proc'[c].pc \in Making => run'.state = "Absent"
  BY <1>3 DEF MadeOnce
<1> QED
  BY <1>1, <1>3, <1>4, <1>5, <1>6 DEF MadeOnce

\* An effect of one process on itself and on the run keeps the invariant.
LEMMA EffectKeeps ==
  ASSUME ViewInv, NEW p \in Procs, ProcEffect(p), RunEffect
  PROVE  ViewInv'
<1>1. /\ Shapes /\ MadeOnce /\ NothingBefore /\ Counted
      /\ load' = load /\ Callers' = Callers /\ Procs' = Procs
  BY DEF ViewInv, ProcEffect, Callers, Procs
<1>2. Shapes'
  BY <1>1, RunEffectCounts, ProcEffectShapes DEF Shapes, RunEffect
<1>3. MadeOnce'
  BY <1>1, RunEffectCounts, ProcEffectMadeOnce
<1>4. NothingBefore'
  <2>1. SUFFICES ASSUME run'.state = "Absent"
                 PROVE  run'.epoch = 0 /\ \A q \in Procs : proc'[q].pc \in AbsentPcs
    BY <1>1 DEF NothingBefore
  <2>2. run.state = "Absent"
    BY <1>1, <2>1, RunEffectCounts
  <2>3. run'.epoch = 0
    BY <1>1, <2>2 DEF RunEffect, NothingBefore
  <2> QED
    BY <1>1, <2>2, <2>3 DEF ProcEffect, NothingBefore
<1>5. Counted'
  <2>1. \A d \in Drives : /\ proc'[d].async = proc[d].async
                          /\ proc'[d].pc = "none" => proc[d].pc = "none"
                          /\ proc'[d].pc \in Returns
                               => proc'[d].ret \notin Returns \cup {"none"}
    BY <1>1 DEF ProcEffect, Procs, Counted
  <2>2. {d \in Drives : proc'[d].async} = {d \in Drives : proc[d].async}
    BY <2>1
  <2>3. table'.async = Cardinality({d \in Drives : proc'[d].async})
    BY ZenonT(60), <1>1, <2>2 DEF RunEffect, Counted, CountersExact
  <2> QED
    BY ZenonT(60), <1>1, <2>1, <2>3, RunEffectCounts DEF Counted, CountersExact
<1> QED
  BY <1>2, <1>3, <1>4, <1>5 DEF ViewInv

-----------------------------------------------------------------------------
(* The steps that have those effects: every one but the making of the run and  *)
(* the launch and the end of a drive.                                          *)

\* Whoever got past the lookup of the run sees it in a state of the table.
LEMMA NotAbsent ==
  ASSUME ViewInv, NEW p \in Procs, proc[p].pc \notin AbsentPcs
  PROVE  run.state # "Absent" /\ run.state \in RunStates
BY DEF ViewInv, NothingBefore, Shapes

\* A drive is a process of its own.
LEMMA DrivesAreNotCallers ==
  ASSUME ViewInv, NEW d \in Drives
  PROVE  d \in Procs /\ d \notin Callers
BY LoadsAssumption DEF ViewInv, Shapes, Drives, Callers, Procs

\* A process goes from a place only a made run has to another place.
LEMMA GoKeeps ==
  ASSUME ViewInv, NEW p \in Procs, NEW pc, Go(p, pc), load' = load,
         proc[p].pc \notin AbsentPcs, pc \notin Making \cup Returns \cup {"none"}
  PROVE  ProcEffect(p)
<1>1. Shapes /\ MadeOnce /\ run.state # "Absent"
  BY NotAbsent DEF ViewInv
<1> QED
  BY <1>1, GoEffect DEF ProcEffect, MadeOnce

\* The same for settle_terminal, which goes to close or straight to k.
LEMMA SettleKeeps ==
  ASSUME ViewInv, NEW p \in Procs, NEW t \in TerminalRun, NEW k, settle_terminal(p, t, k),
         load' = load, proc[p].pc \notin AbsentPcs, k \notin Making \cup Returns \cup {"none"}
  PROVE  ProcEffect(p) /\ RunEffect
<1>1. Shapes /\ MadeOnce /\ run.state # "Absent"
  BY NotAbsent DEF ViewInv
<1>2. t \notin Making
  BY DEF TerminalRun, Making
<1>3. /\ RunEffect
      /\ DOMAIN proc' = Procs /\ DOMAIN proc'[p] = ProcFields
      /\ \A q \in Procs \ {p} : proc'[q] = proc[q]
      /\ proc'[p].async = proc[p].async /\ proc'[p].todo = proc[p].todo
      /\ \/ proc'[p].pc = "close" /\ proc'[p].ret = k /\ proc'[p].target = t
         \/ proc'[p].pc = k /\ proc'[p].ret = proc[p].ret /\ proc'[p].target = proc[p].target
  BY <1>1, SettleEffect
<1>4. "close" \notin Making
  BY DEF Making
<1> QED
  BY <1>1, <1>2, <1>3, <1>4 DEF ProcEffect, MadeOnce

\* What leaves state and epoch alone is no move.
LEMMA RunStays ==
  ASSUME ViewInv, DOMAIN run' = RunFields, run'.state = run.state, run'.epoch = run.epoch,
         table' = table
  PROVE  RunEffect
BY DEF ViewInv, Shapes, RunEffect

\* A commit that settles nothing is a move.
LEMMA RunCommits ==
  ASSUME ViewInv, run.state # "Absent", NEW t \in RunStates \ TerminalRun, CanCommit(t),
         run' = Committed(t), table' = table
  PROVE  RunEffect
BY CommitMoves DEF ViewInv, Shapes, RunEffect

\* The steps drives and callers share.
LEMMA SharedEffect ==
  ASSUME ViewInv, NEW p \in Procs, patch_write(p) \/ raise(p) \/ park(p) \/ close(p)
  PROVE  ProcEffect(p) /\ RunEffect
<1>1. /\ Shapes /\ MadeOnce
      /\ DOMAIN run = RunFields /\ DOMAIN proc = Procs /\ DOMAIN proc[p] = ProcFields
  BY DEF ViewInv, Shapes
<1>2. /\ proc[p].pc \in {"write", "raise", "park", "close"} /\ proc[p].pc \notin AbsentPcs
      /\ load' = load
  BY DEF patch_write, raise, park, close, At, AbsentPcs, Making
<1>3. run.state # "Absent"
  BY <1>2, NotAbsent
<1>4. CASE patch_write(p)
  <2>1. ProcEffect(p)
    BY SMTT(60), <1>1, <1>2, <1>3, <1>4
       DEF patch_write, At, ProcEffect, MadeOnce, ProcFields, Making, Returns, ViewInv, Counted
  <2>2. RunEffect
    BY <1>1, <1>4, RunStays DEF patch_write, RunFields
  <2> QED
    BY SMTT(60), <2>1, <2>2
<1>5. CASE raise(p)
  <2>1. ProcEffect(p)
    BY <1>2, <1>5, GoKeeps DEF raise, Making, Returns
  <2>2. RunEffect
    BY ZenonT(60), <1>1, <1>3, <1>5, RunStays, RunCommits DEF raise, RunFields, RunStates, TerminalRun
  <2> QED
    BY <2>1, <2>2
<1>6. CASE park(p)
  BY <1>1, <1>2, <1>6, GoKeeps, RunStays DEF park, Making, Returns
<1>7. CASE close(p)
  <2>1. ProcEffect(p)
    BY <1>1, <1>2, <1>3, <1>7
       DEF close, At, ProcEffect, MadeOnce, ProcFields, Making, Returns, ViewInv, Counted
  <2> QED
    BY <1>1, <1>7, <2>1, RunStays DEF close
<1> QED
  BY <1>4, <1>5, <1>6, <1>7

\* Every step of a drive but the last, and the poll of its monitor.
LEMMA DriveEffect ==
  ASSUME ViewInv, NEW d \in Drives, DriveStep(d) \/ withdrawal_tick(d), ~drive_fin(d)
  PROVE  ProcEffect(d) /\ RunEffect
<1>1. /\ Shapes /\ MadeOnce /\ d \in Procs /\ d \notin Callers
      /\ DOMAIN run = RunFields /\ DOMAIN proc = Procs /\ DOMAIN proc[d] = ProcFields
  BY DrivesAreNotCallers DEF ViewInv, Shapes
<1>2. patch_write(d) \/ raise(d) \/ park(d) \/ close(d) => ProcEffect(d) /\ RunEffect
  BY <1>1, SharedEffect
<1>3. CASE drive_begin(d)
  <2>1. proc[d].pc \notin AbsentPcs /\ load' = load /\ table' = table
    BY <1>3 DEF drive_begin, At, AbsentPcs, Making
  <2>2. run.state # "Absent" /\ run.state \in RunStates
    BY <1>1, <2>1, NotAbsent
  <2>3. CASE run.state = "Created"
    <3>1. /\ run' = Committed("Running")
          /\ proc' = [proc EXCEPT ![d].pc = "snap", ![d].fresh = TRUE]
      BY <1>3, <2>3 DEF drive_begin
    <3>2. CanCommit("Running") /\ "Running" \in RunStates \ TerminalRun
      BY <2>3 DEF CanCommit, valid_workflow_run_transition, RunSuccessors, RunStates, TerminalRun
    <3>3. ProcEffect(d)
      BY <1>1, <2>1, <2>2, <3>1 DEF ProcEffect, ProcFields, Returns
    <3> QED
      BY <2>1, <2>2, <3>1, <3>2, <3>3, RunCommits
  <2>4. CASE run.state # "Created"
    BY <1>1, <1>3, <2>1, <2>4, GoKeeps, RunStays DEF drive_begin, Making, Returns
  <2> QED
    BY <2>3, <2>4
<1>4. CASE drive_snap(d) \/ drive_wake(d) \/ begin_task_recovery(d)
  <2>1. /\ proc[d].pc \notin AbsentPcs /\ load' = load /\ table' = table /\ run' = run
        /\ Go(d, "wake") \/ Go(d, "top") \/ Go(d, "fin")
    BY <1>4 DEF drive_snap, drive_wake, begin_task_recovery, At, AbsentPcs, Making
  <2> QED
    BY <1>1, <2>1, GoKeeps, RunStays DEF Making, Returns
<1>5. CASE withdrawal_tick(d)
  <2>1. /\ proc[d].pc # "none" /\ load' = load /\ table' = table /\ run' = run
        /\ proc' = [proc EXCEPT ![d].wd = TRUE]
    BY <1>5 DEF withdrawal_tick
  <2>2. ProcEffect(d)
    BY <1>1, <2>1 DEF ProcEffect, ProcFields, ViewInv, Counted, NothingBefore
  <2> QED
    BY <1>1, <2>1, <2>2, RunStays
<1>6. CASE drive_top(d)
  <2>1. proc[d].pc \notin AbsentPcs /\ load' = load /\ table' = table
    BY <1>6 DEF drive_top, At, AbsentPcs, Making
  <2>2. CASE run.state # "Running"
    BY <1>1, <1>6, <2>1, <2>2, GoKeeps, RunStays DEF drive_top, Making, Returns
  <2>3. CASE run.state = "Running"
    <3>1. /\ proc' = [proc EXCEPT ![d].pc = "drain", ![d].queue = run.queue]
          /\ run' = [run EXCEPT !.queue = << >>]
      BY <1>6, <2>3 DEF drive_top
    <3>2. ProcEffect(d)
      BY <1>1, <2>1, <2>3, <3>1 DEF ProcEffect, ProcFields, Returns
    <3>3. DOMAIN run' = RunFields /\ run'.state = run.state /\ run'.epoch = run.epoch
      BY <1>1, <3>1 DEF RunFields
    <3> QED
      BY <2>1, <3>2, <3>3, RunStays
  <2> QED
    BY <2>2, <2>3
<1>7. CASE drain_pending_patches(d)
  <2>1. proc[d].pc = "drain" /\ proc[d].pc \notin AbsentPcs /\ load' = load /\ table' = table /\ run' = run
    BY <1>7 DEF drain_pending_patches, At, AbsentPcs, Making
  <2>2. run.state # "Absent"
    BY <1>1, <2>1, NotAbsent
  <2>3. ProcEffect(d)
    <3> DEFINE rest == [proc EXCEPT ![d].queue = Tail(@)]
               patch == Head(proc[d].queue)
               new == Patched(Def, run.eff, patch.entries)
    <3>1. \/ proc' = [proc EXCEPT ![d].pc = "check"]
          \/ proc' = rest
          \/ proc' = [rest EXCEPT ![d].pc = "write", ![d].ret = "drain", ![d].patch = patch,
                                  ![d].new = new]
      BY <1>7 DEF drain_pending_patches
    <3> HIDE DEF patch, new
    <3> QED
      BY SMTT(60), <1>1, <2>1, <2>2, <3>1 DEF ProcEffect, ProcFields, Returns
  <2> QED
    BY SMTT(60), <1>1, <2>1, <2>3, RunStays
<1>8. CASE drive_check(d)
  <2>1. proc[d].pc \notin AbsentPcs /\ load' = load
    BY <1>8 DEF drive_check, At, AbsentPcs, Making
  <2>2. run.state # "Absent" /\ "Paused" \in RunStates \ TerminalRun
    BY <1>1, <2>1, NotAbsent DEF RunStates, TerminalRun
  <2>3. \/ /\ run' = IF CanCommit("Paused") THEN Committed("Paused") ELSE run
           /\ Go(d, "fin") /\ table' = table
        \/ \E t \in TerminalRun : settle_terminal(d, t, "fin")
        \/ run' = [run EXCEPT !.cursor = @ + 1] /\ Go(d, "top") /\ table' = table
        \/ Go(d, "enter") /\ run' = run /\ table' = table
    BY <1>8 DEF drive_check, TerminalRun
  <2>4. CASE /\ run' = IF CanCommit("Paused") THEN Committed("Paused") ELSE run
             /\ Go(d, "fin") /\ table' = table
    BY <1>1, <2>1, <2>2, <2>4, GoKeeps, RunStays, RunCommits DEF Making, Returns
  <2>5. CASE \E t \in TerminalRun : settle_terminal(d, t, "fin")
    BY <1>1, <2>1, <2>5, SettleKeeps DEF Making, Returns
  <2>6. CASE /\ run' = [run EXCEPT !.cursor = @ + 1] \/ run' = run
             /\ Go(d, "top") \/ Go(d, "enter")
             /\ table' = table
    <3>1. DOMAIN run' = RunFields /\ run'.state = run.state /\ run'.epoch = run.epoch
      BY <1>1, <2>6 DEF RunFields
    <3> QED
      BY <1>1, <2>1, <2>6, <3>1, GoKeeps, RunStays DEF Making, Returns
  <2> QED
    BY <2>3, <2>4, <2>5, <2>6
<1>9. CASE drive_enter(d)
  <2>1. proc[d].pc \notin AbsentPcs /\ load' = load /\ table' = table
    BY <1>9 DEF drive_enter, At, AbsentPcs, Making
  <2>2. run.state # "Absent"
    BY <1>1, <2>1, NotAbsent
  <2>3. /\ \/ run' = run
           \/ run' = [run EXCEPT !.cursor = @ + 1]
           \/ run' = [run EXCEPT !.attempts[run.cursor] = @ + 1, !.executions = @ + 1]
        /\ \/ Go(d, "fail") \/ Go(d, "top")
           \/ \E pc \in {"agent", "exec"} :
                proc' = [proc EXCEPT ![d].pc = pc, ![d].prev = run.cursor]
    BY <1>9 DEF drive_enter
  <2>4. DOMAIN run' = RunFields /\ run'.state = run.state /\ run'.epoch = run.epoch
    BY ZenonT(60), <1>1, <2>3 DEF RunFields
  <2>5. ProcEffect(d)
    <3>1. CASE Go(d, "fail") \/ Go(d, "top")
      BY <1>1, <2>1, <3>1, GoKeeps DEF Making, Returns
    <3>2. CASE \E pc \in {"agent", "exec"} :
                 proc' = [proc EXCEPT ![d].pc = pc, ![d].prev = run.cursor]
      BY <1>1, <2>1, <2>2, <3>2 DEF ProcEffect, ProcFields, Returns
    <3> QED
      BY <2>3, <3>1, <3>2
  <2> QED
    BY <2>1, <2>4, <2>5, RunStays
<1>10. CASE drive_exec(d) \/ drive_tool(d)
  <2>1. proc[d].pc \notin AbsentPcs /\ load' = load /\ table' = table
    BY <1>10 DEF drive_exec, drive_tool, At, AbsentPcs, Making
  <2>2. /\ \E pc \in {"fail", "top", "route", "tool"} : Go(d, pc)
        /\ \/ run' = run
           \/ run' = [run EXCEPT !.jumps[run.cursor] = @ + 1, !.cursor = Step.goto]
           \/ run' = [run EXCEPT !.cursor = @ + 1]
           \/ run' = [run EXCEPT !.interrupted = TRUE,
                                 !.unsure = IF Effectful(run.cursor) THEN run.cursor ELSE @]
    <3>1. CASE drive_exec(d)
      BY <3>1 DEF drive_exec, Advance
    <3>2. CASE drive_tool(d)
      BY <3>2 DEF drive_tool, Advance
    <3> QED
      BY <1>10, <3>1, <3>2
  <2>3. DOMAIN run' = RunFields /\ run'.state = run.state /\ run'.epoch = run.epoch
    BY ZenonT(60), <1>1, <2>2 DEF RunFields
  <2> QED
    BY <1>1, <2>1, <2>2, <2>3, GoKeeps, RunStays DEF Making, Returns
<1>11. CASE navigate_plan(d) \/ navigate_edge(d)
  <2>1. proc[d].pc \notin AbsentPcs /\ load' = load /\ table' = table
    BY <1>11 DEF navigate_plan, navigate_edge, At, AbsentPcs, Making
  <2>2. run.state # "Absent"
    BY <1>1, <2>1, NotAbsent
  <2>3. /\ \E pc \in {"fail", "top", "edge"} :
             \/ Go(d, pc)
             \/ \E n : proc' = [proc EXCEPT ![d].pc = pc, ![d].edges = n]
        /\ \/ run' = run
           \/ run' = [run EXCEPT !.cursor = @ + 1]
           \/ run' = [run EXCEPT !.executions = @ + 1]
           \/ run' = [run EXCEPT !.interrupted = TRUE]
           \/ run' = [[run EXCEPT !.executions = @ + 1] EXCEPT !.interrupted = TRUE]
    <3>1. CASE navigate_plan(d)
      BY <3>1 DEF navigate_plan
    <3>2. CASE navigate_edge(d)
      BY ZenonT(60), <3>2 DEF navigate_edge, Advance
    <3> QED
      BY <1>11, <3>1, <3>2
  <2>4. DOMAIN run' = RunFields /\ run'.state = run.state /\ run'.epoch = run.epoch
    BY ZenonT(60), <1>1, <2>3 DEF RunFields
  <2>5. ProcEffect(d)
    <3>1. PICK pc \in {"fail", "top", "edge"} :
             \/ Go(d, pc)
             \/ \E n : proc' = [proc EXCEPT ![d].pc = pc, ![d].edges = n]
      BY <2>3
    <3>2. CASE Go(d, pc)
      BY <1>1, <2>1, <3>1, <3>2, GoKeeps DEF Making, Returns
    <3>3. ASSUME NEW n, proc' = [proc EXCEPT ![d].pc = pc, ![d].edges = n] PROVE ProcEffect(d)
      BY ZenonT(60), <1>1, <2>1, <2>2, <3>1, <3>3 DEF ProcEffect, ProcFields, Returns
    <3> QED
      BY <3>1, <3>2, <3>3
  <2> QED
    BY <2>1, <2>4, <2>5, RunStays
<1>12. CASE handle_step_failure(d) \/ enter_waiting_agent(d) \/ drive_giveup(d)
  <2>1. proc[d].pc \notin AbsentPcs /\ load' = load
    BY <1>12 DEF handle_step_failure, enter_waiting_agent, drive_giveup, At, AbsentPcs, Making
  <2>2. run.state # "Absent" /\ "WaitingAgent" \in RunStates \ TerminalRun
    BY <1>1, <2>1, NotAbsent DEF RunStates, TerminalRun
  <2>3. \/ \E t \in TerminalRun : settle_terminal(d, t, "fin")
        \/ /\ CanCommit("WaitingAgent") /\ run' = Committed("WaitingAgent")
           /\ Go(d, "recover") /\ table' = table
        \/ /\ \E pc \in {"top", "agent", "raise", "giveup"} : Go(d, pc)
           /\ \/ run' = run
              \/ run' = [run EXCEPT !.retries[run.cursor] = @ + 1]
              \/ run' = [run EXCEPT !.cursor = Step.goto]
              \/ run' = [run EXCEPT !.escalations = @ + 1]
              \/ stage(d, "StepFailure", << Entry("step", "Skip", run.cursor, "none") >>)
           /\ table' = table
    <3>1. CASE handle_step_failure(d)
      BY <3>1 DEF handle_step_failure, Escalate, TerminalRun
    <3>2. CASE enter_waiting_agent(d)
      BY <3>2 DEF enter_waiting_agent
    <3>3. CASE drive_giveup(d)
      BY <3>3 DEF drive_giveup, TerminalRun
    <3> QED
      BY <1>12, <3>1, <3>2, <3>3
  <2>4. CASE \E t \in TerminalRun : settle_terminal(d, t, "fin")
    BY <1>1, <2>1, <2>4, SettleKeeps DEF Making, Returns
  <2>5. CASE /\ CanCommit("WaitingAgent") /\ run' = Committed("WaitingAgent")
             /\ Go(d, "recover") /\ table' = table
    BY <1>1, <2>1, <2>2, <2>5, GoKeeps, RunCommits DEF Making, Returns
  <2>6. CASE /\ \E pc \in {"top", "agent", "raise", "giveup"} : Go(d, pc)
             /\ \/ run' = run
                \/ run' = [run EXCEPT !.retries[run.cursor] = @ + 1]
                \/ run' = [run EXCEPT !.cursor = Step.goto]
                \/ run' = [run EXCEPT !.escalations = @ + 1]
                \/ stage(d, "StepFailure", << Entry("step", "Skip", run.cursor, "none") >>)
             /\ table' = table
    <3>1. DOMAIN run' = RunFields /\ run'.state = run.state /\ run'.epoch = run.epoch
      BY ZenonT(60), <1>1, <2>6 DEF RunFields, stage
    <3> QED
      BY <1>1, <2>1, <2>6, <3>1, GoKeeps, RunStays DEF Making, Returns
  <2> QED
    BY <2>3, <2>4, <2>5, <2>6
<1> QED
  BY SMTT(60), <1>2, <1>3, <1>4, <1>5, <1>6, <1>7, <1>8, <1>9, <1>10, <1>11, <1>12 DEF DriveStep

\* A caller takes its next call; only create_run goes to where a run is made.
LEMMA TakenKeeps ==
  ASSUME ViewInv, NEW c \in Callers, NEW pc, proc' = Taken(c, pc), proc[c].todo # << >>,
         load' = load, pc \notin Making, run.state = "Absent" => pc \in AbsentPcs
  PROVE  ProcEffect(c)
<1>1. /\ Shapes /\ MadeOnce /\ c \in Procs /\ c \notin Drives
      /\ DOMAIN proc = Procs /\ DOMAIN proc[c] = ProcFields
  BY DrivesAreNotCallers DEF ViewInv, Shapes, Procs
<1> QED
  BY <1>1 DEF Taken, ProcEffect, ProcFields, MadeOnce

\* The steps of pause, cancel, resume, patch and of a command to the carrier that
\* leave the run alone.
LEMMA ControlEffect ==
  ASSUME ViewInv, NEW c \in Callers,
         \/ pause_run(c) \/ pause_task(c) \/ pause_wait(c) \/ cancel_run(c) \/ cancel_task(c)
         \/ task_command(c) \/ resume_run(c) \/ continue_run(c) \/ continue_task(c)
         \/ execute_user_input(c) \/ shutdown_wait(c) \/ decision_reject(c)
  PROVE  ProcEffect(c) /\ RunEffect
<1>1. /\ Shapes /\ MadeOnce /\ c \in Procs /\ c \notin Drives
      /\ DOMAIN run = RunFields /\ DOMAIN proc = Procs /\ DOMAIN proc[c] = ProcFields
  BY DrivesAreNotCallers DEF ViewInv, Shapes, Procs
<1>2. load' = load /\ run' = run /\ table' = table
  BY DEF pause_run, pause_task, pause_wait, cancel_run, cancel_task, task_command, resume_run,
         continue_run, continue_task, execute_user_input, shutdown_wait, decision_reject
<1>3. RunEffect
  BY <1>1, <1>2, RunStays
<1>4. CASE pause_run(c) \/ cancel_run(c) \/ task_command(c) \/ resume_run(c) \/ execute_user_input(c)
  <2>1. /\ proc[c].todo # << >> /\ run.state # "Absent"
        /\ \E pc \in {"pause", "idle", "cancel", "continue", "stage"} : proc' = Taken(c, pc)
    BY <1>4 DEF pause_run, cancel_run, task_command, resume_run, execute_user_input, Known, Starting
  <2> QED
    BY SMTT(60), <1>2, <1>3, <2>1, TakenKeeps DEF Making
<1>5. CASE \/ pause_task(c) \/ pause_wait(c) \/ cancel_task(c) \/ continue_run(c)
           \/ continue_task(c) \/ decision_reject(c)
  <2>1. /\ proc[c].pc \notin AbsentPcs
        /\ \E pc \in {"pausing", "idle", "pause_commit", "cancelling", "resume_task", "observe",
                      "activate", "continue"} : Go(c, pc)
    BY SMTT(60), <1>5 DEF pause_task, pause_wait, cancel_task, continue_run, continue_task, decision_reject,
                Return, At, AbsentPcs, Making
  <2> QED
    BY SMTT(60), <1>1, <1>2, <1>3, <2>1, GoKeeps DEF Making, Returns
<1>6. CASE shutdown_wait(c)
  <2>1. Go(c, "idle")
    BY <1>6 DEF shutdown_wait, Return
  <2>2. /\ DOMAIN proc' = Procs /\ DOMAIN proc'[c] = ProcFields
        /\ \A q \in Procs \ {c} : proc'[q] = proc[q]
        /\ proc'[c].async = proc[c].async /\ proc'[c].todo = proc[c].todo
        /\ proc'[c].pc = "idle" /\ proc'[c].ret = proc[c].ret
        /\ proc'[c].target = proc[c].target
    BY Zenon, <1>1, <2>1, GoEffect
  <2>3. "idle" \notin Making /\ "idle" \in AbsentPcs
    BY DEF Making, AbsentPcs
  <2>4. proc[c].ret \notin Making /\ proc[c].target \notin Making
    BY Zenon, <1>1 DEF MadeOnce
  <2> QED
    BY ZenonT(60), <1>1, <1>2, <1>3, <2>2, <2>3, <2>4 DEF ProcEffect
<1> QED
  BY <1>4, <1>5, <1>6

\* The steps that commit or settle.
LEMMA CommitEffect ==
  ASSUME ViewInv, NEW c \in Callers,
         \/ pause_commit(c) \/ cancel_settle(c) \/ continue_observe(c) \/ continue_commit(c)
         \/ decision_activate(c) \/ decision_refuse(c) \/ input_stage(c)
  PROVE  ProcEffect(c) /\ RunEffect
<1>1. /\ Shapes /\ c \in Procs /\ DOMAIN run = RunFields
  BY DEF ViewInv, Shapes, Procs
<1>2. load' = load /\ proc[c].pc \notin AbsentPcs
  BY DEF pause_commit, cancel_settle, continue_observe, continue_commit, decision_activate,
         decision_refuse, input_stage, At, AbsentPcs, Making
<1>3. run.state # "Absent" /\ {"Paused", "Running"} \subseteq RunStates \ TerminalRun
  BY <1>1, <1>2, NotAbsent DEF RunStates, TerminalRun
<1>4. \/ \E t \in TerminalRun : settle_terminal(c, t, "idle")
      \/ /\ \E t \in {"Paused", "Running"} : CanCommit(t) /\ run' = Committed(t)
         /\ \E pc \in {"idle", "mend", "launch", "refuse"} : Go(c, pc)
         /\ table' = table
      \/ /\ run' = run \/ stage(c, "AgentPrompt", load.proposal)
         /\ \E pc \in {"idle", "running", "raise"} : Go(c, pc)
         /\ table' = table
  <2>1. CASE pause_commit(c) \/ continue_commit(c) \/ decision_activate(c)
    BY <2>1 DEF pause_commit, continue_commit, decision_activate, Return
  <2>2. CASE cancel_settle(c) \/ continue_observe(c) \/ decision_refuse(c)
    BY <2>2 DEF cancel_settle, continue_observe, decision_refuse, TerminalRun
  <2>3. CASE input_stage(c)
    BY <2>3 DEF input_stage, Return
  <2> QED
    BY <2>1, <2>2, <2>3
<1>5. CASE \E t \in TerminalRun : settle_terminal(c, t, "idle")
  BY <1>1, <1>2, <1>5, SettleKeeps DEF Making, Returns
<1>6. CASE /\ \E t \in {"Paused", "Running"} : CanCommit(t) /\ run' = Committed(t)
           /\ \E pc \in {"idle", "mend", "launch", "refuse"} : Go(c, pc)
           /\ table' = table
  <2>1. ProcEffect(c)
    BY <1>1, <1>2, <1>6, GoKeeps DEF Making, Returns
  <2> QED
    BY <1>3, <1>6, <2>1, RunCommits
<1>7. CASE /\ run' = run \/ stage(c, "AgentPrompt", load.proposal)
           /\ \E pc \in {"idle", "running", "raise"} : Go(c, pc)
           /\ table' = table
  <2>1. ProcEffect(c)
    BY <1>1, <1>2, <1>7, GoKeeps DEF Making, Returns
  <2>2. DOMAIN run' = RunFields /\ run'.state = run.state /\ run'.epoch = run.epoch
    BY ZenonT(60), <1>1, <1>7 DEF RunFields, stage
  <2> QED
    BY <1>7, <2>1, <2>2, RunStays
<1> QED
  BY <1>4, <1>5, <1>6, <1>7

\* What is done about an interrupted step.
LEMMA MendEffect ==
  ASSUME ViewInv, NEW c \in Callers, resolve_interrupted_step(c)
  PROVE  ProcEffect(c) /\ RunEffect
<1>1. /\ Shapes /\ MadeOnce /\ c \in Procs /\ c \notin Drives
      /\ DOMAIN run = RunFields /\ DOMAIN proc = Procs /\ DOMAIN proc[c] = ProcFields
      /\ DOMAIN table = TableFields
  BY DrivesAreNotCallers DEF ViewInv, Shapes, Procs
<1>2. load' = load /\ proc[c].pc \notin AbsentPcs
  BY DEF resolve_interrupted_step, At, AbsentPcs, Making
<1>3. run.state # "Absent" /\ "Failed" \in RunStates /\ "Failed" \in TerminalRun
  BY SMTT(60), <1>1, <1>2, NotAbsent DEF RunStates, TerminalRun
<1>4. \/ /\ \E n : run' = [run EXCEPT !.interrupted = FALSE, !.unsure = 0, !.cursor = n]
         /\ Go(c, "launch") /\ table' = table
      \/ run' = [run EXCEPT !.interrupted = FALSE] /\ Go(c, "idle") /\ table' = table
      \/ /\ CanCommit("Failed") /\ run' = [Committed("Failed") EXCEPT !.interrupted = FALSE]
         /\ table' = [table EXCEPT !.active = @ - 1]
         /\ proc' = [proc EXCEPT ![c].pc = "close", ![c].target = "Failed", ![c].ret = "idle"]
  BY ZenonT(60) DEF resolve_interrupted_step, Return
<1>5. CASE \/ /\ \E n : run' = [run EXCEPT !.interrupted = FALSE, !.unsure = 0, !.cursor = n]
              /\ Go(c, "launch") /\ table' = table
           \/ run' = [run EXCEPT !.interrupted = FALSE] /\ Go(c, "idle") /\ table' = table
  <2>1. ProcEffect(c)
    BY ZenonT(60), <1>1, <1>2, <1>5, GoKeeps DEF Making, Returns
  <2>2. DOMAIN run' = RunFields /\ run'.state = run.state /\ run'.epoch = run.epoch
    BY ZenonT(60), <1>1, <1>5 DEF RunFields
  <2> QED
    BY ZenonT(60), <1>5, <2>1, <2>2, RunStays
<1>6. CASE /\ CanCommit("Failed") /\ run' = [Committed("Failed") EXCEPT !.interrupted = FALSE]
           /\ table' = [table EXCEPT !.active = @ - 1]
           /\ proc' = [proc EXCEPT ![c].pc = "close", ![c].target = "Failed", ![c].ret = "idle"]
  <2>1. ProcEffect(c)
    BY <1>1, <1>2, <1>3, <1>6 DEF ProcEffect, ProcFields, Making
  <2>2. /\ DOMAIN Committed("Failed") = RunFields
        /\ Committed("Failed").state = "Failed" /\ Committed("Failed").epoch = run.epoch + 1
    BY <1>1, <1>6, CommitMoves
  <2>3. DOMAIN run' = RunFields /\ run'.state = "Failed" /\ run'.epoch = run.epoch + 1
    BY <1>6, <2>2 DEF RunFields
  <2>4. /\ DOMAIN table' = TableFields /\ table'.active = table.active - 1
        /\ table'.async = table.async /\ table'.rest = table.rest
    BY <1>1, <1>6 DEF TableFields
  <2> QED
    BY <1>3, <1>6, <2>1, <2>3, <2>4 DEF RunEffect
<1> QED
  BY ZenonT(60), <1>4, <1>5, <1>6

\* Patches, decisions and the answers to them.
LEMMA PatchEffect ==
  ASSUME ViewInv, NEW c \in Callers,
         \/ patch_run(c) \/ rollback_run_patch(c) \/ submit_patch(c) \/ submit_queue(c)
         \/ apply_patch(c) \/ decision_accept(c)
  PROVE  ProcEffect(c) /\ RunEffect
<1>1. /\ Shapes /\ MadeOnce /\ c \in Procs /\ c \notin Drives
      /\ DOMAIN run = RunFields /\ DOMAIN proc = Procs /\ DOMAIN proc[c] = ProcFields
  BY SMTT(60), DrivesAreNotCallers DEF ViewInv, Shapes, Procs
<1>2. load' = load /\ table' = table
  BY ZenonT(60) DEF patch_run, rollback_run_patch, submit_patch, submit_queue, apply_patch, decision_accept
<1>3. DOMAIN run' = RunFields /\ run'.state = run.state /\ run'.epoch = run.epoch
  BY ZenonT(60), <1>1 DEF patch_run, rollback_run_patch, submit_patch, submit_queue, apply_patch,
              decision_accept, RunFields
<1>4. RunEffect
  BY <1>2, <1>3, RunStays
<1>5. CASE patch_run(c) \/ rollback_run_patch(c)
  <2>1. /\ proc[c].todo # << >> /\ run.state # "Absent"
        /\ \E pc \in {"idle", "submit"} : \E x : proc' = [Taken(c, pc) EXCEPT ![c].patch = x]
    BY ZenonT(60), <1>5 DEF patch_run, rollback_run_patch, Known, Starting
  <2>2. PICK pc \in {"idle", "submit"} : \E x : proc' = [Taken(c, pc) EXCEPT ![c].patch = x]
    BY ZenonT(60), <2>1
  <2>3. PICK x : proc' = [Taken(c, pc) EXCEPT ![c].patch = x]
    BY ZenonT(60), <2>2
  <2>4. ProcEffect(c)
    BY <1>1, <1>2, <2>1, <2>3 DEF Taken, ProcEffect, ProcFields, MadeOnce, Making
  <2> QED
    BY SMTT(60), <1>4, <2>4
<1>6. CASE submit_patch(c) \/ submit_queue(c) \/ apply_patch(c) \/ decision_accept(c)
  <2>1. proc[c].pc \notin AbsentPcs
    BY <1>6 DEF submit_patch, submit_queue, apply_patch, decision_accept, At, AbsentPcs, Making
  <2>2. run.state # "Absent"
    BY <1>1, <2>1, NotAbsent
  <2>3. CASE submit_patch(c)
    <3>1. \/ proc' = [proc EXCEPT ![c].pc = "idle", ![c].patch = NoPatch]
          \/ \E k \in {"continue", "idle"}, pc \in {"push", "read"} :
               proc' = [proc EXCEPT ![c].ret = k, ![c].pc = pc]
      BY ZenonT(60), <2>3 DEF submit_patch
    <3> QED
      BY <1>1, <1>2, <1>4, <2>2, <3>1 DEF ProcEffect, ProcFields, MadeOnce, Making
  <2>4. CASE submit_queue(c)
    BY <1>1, <1>2, <1>4, <2>2, <2>4 DEF submit_queue, ProcEffect, ProcFields, MadeOnce, Making
  <2>5. CASE apply_patch(c)
    <3>1. \/ proc' = [proc EXCEPT ![c].pc = "idle", ![c].ret = "none", ![c].patch = NoPatch]
          \/ \E x : proc' = [proc EXCEPT ![c].pc = "write", ![c].new = x]
      BY ZenonT(60), <2>5 DEF apply_patch
    <3> QED
      BY <1>1, <1>2, <1>4, <2>2, <3>1 DEF ProcEffect, ProcFields, MadeOnce, Making
  <2>6. CASE decision_accept(c)
    <3>1. \/ proc' = [proc EXCEPT ![c].pc = "continue"]
          \/ \E x : proc' = [proc EXCEPT ![c].pc = "submit", ![c].patch = x]
      BY ZenonT(60), <2>6 DEF decision_accept
    <3> QED
      BY <1>1, <1>2, <1>4, <2>2, <3>1 DEF ProcEffect, ProcFields, MadeOnce, Making
  <2> QED
    BY SMTT(60), <1>6, <2>3, <2>4, <2>5, <2>6
<1> QED
  BY <1>5, <1>6

\* Asking for a decision and answering it, as effects on caller and run.
LEMMA AnswerEffect ==
  ASSUME ViewInv, NEW c \in Callers, pending_decision_request(c) \/ resolve_decision(c)
  PROVE  ProcEffect(c) /\ RunEffect
<1>1. /\ Shapes /\ MadeOnce /\ c \in Procs /\ c \notin Drives
      /\ DOMAIN run = RunFields /\ DOMAIN proc = Procs /\ DOMAIN proc[c] = ProcFields
  BY DrivesAreNotCallers DEF ViewInv, Shapes, Procs
<1>2. load' = load /\ run' = run /\ table' = table
  BY DEF pending_decision_request, resolve_decision
<1>3. RunEffect
  BY <1>1, <1>2, RunStays
<1>4. CASE pending_decision_request(c)
  <2>1. /\ proc[c].todo # << >> /\ run.state # "Absent" /\ Op(c).op = "resolve"
        /\ \E pc \in {"answer", "idle"} :
             proc' = [proc EXCEPT ![c].pc = pc, ![c].seen = run.decision,
                                  ![c].target = Op(c).how, ![c].todo = Tail(@)]
    BY ZenonT(60), <1>4 DEF pending_decision_request, Known, Starting
  <2>2. Op(c) \in WorkOf(load) /\ load \in Loads
    BY <1>1, <2>1, TailAt DEF Op, Shapes
  <2>3. Op(c).how \notin Making
    BY <2>1, <2>2, LoadsAssumption DEF Making
  <2> QED
    BY SMTT(60), <1>1, <1>2, <1>3, <2>1, <2>3 DEF ProcEffect, ProcFields, MadeOnce, Making
<1>5. CASE resolve_decision(c)
  <2>1. proc[c].pc \notin AbsentPcs
    BY <1>5 DEF resolve_decision, At, AbsentPcs, Making
  <2>2. run.state # "Absent"
    BY <1>1, <2>1, NotAbsent
  <2>3. \E pc \in {"idle", proc[c].target} :
          proc' = [proc EXCEPT ![c].seen = 0, ![c].target = "none", ![c].pc = pc]
    BY ZenonT(60), <1>5 DEF resolve_decision
  <2> QED
    BY <1>1, <1>2, <1>3, <2>2, <2>3 DEF ProcEffect, ProcFields, MadeOnce, Making
<1> QED
  BY <1>4, <1>5

\* shutdown may find no run.
LEMMA ShutdownEffect ==
  ASSUME ViewInv, NEW c \in Callers, shutdown(c) \/ shutdown_cancel(c) \/ shutdown_settle(c)
  PROVE  ProcEffect(c) /\ RunEffect
<1>1. /\ Shapes /\ MadeOnce /\ c \in Procs /\ c \notin Drives
      /\ DOMAIN run = RunFields /\ DOMAIN proc = Procs /\ DOMAIN proc[c] = ProcFields
      /\ DOMAIN table = TableFields
  BY DrivesAreNotCallers DEF ViewInv, Shapes, Procs
<1>2. CASE shutdown(c)
  <2>1. /\ proc[c].todo # << >> /\ load' = load /\ run' = run
        /\ table' = [table EXCEPT !.accepting = FALSE, !.shut = TRUE]
        /\ \E pc \in {"idle", "sh_cancel"}, x \in {"none", "live"} :
             proc' = [Taken(c, pc) EXCEPT ![c].target = x]
    BY <1>2 DEF shutdown, Starting
  <2>2. RunEffect
    BY <1>1, <2>1 DEF RunEffect, TableFields
  <2>3. ProcEffect(c)
    BY <1>1, <2>1 DEF Taken, ProcEffect, ProcFields, MadeOnce, Making, AbsentPcs
  <2> QED
    BY <2>2, <2>3
<1>3. CASE shutdown_cancel(c)
  <2>1. /\ load' = load /\ run' = run /\ table' = table
        /\ proc' = [proc EXCEPT ![c].pc = "sh_settle", ![c].target = "none"]
    BY <1>3 DEF shutdown_cancel
  <2>2. ProcEffect(c)
    BY <1>1, <2>1 DEF ProcEffect, ProcFields, MadeOnce, Making, AbsentPcs
  <2> QED
    BY <1>1, <2>1, <2>2, RunStays
<1>4. CASE shutdown_settle(c)
  <2>1. CASE run.active \/ run.state \in TerminalRun \cup {"Absent"}
    <3>1. Go(c, "sh_wait") /\ run' = run /\ table' = table /\ load' = load
      BY SMTT(60), <1>4, <2>1 DEF shutdown_settle
    <3>2. ProcEffect(c)
      BY SMTT(60), <1>1, <3>1, GoEffect DEF ProcEffect, MadeOnce, Making, AbsentPcs
    <3> QED
      BY <1>1, <3>1, <3>2, RunStays
  <2>2. CASE ~(run.active \/ run.state \in TerminalRun \cup {"Absent"})
    <3>1. /\ settle_terminal(c, "Cancelled", "sh_wait") /\ load' = load
          /\ "Cancelled" \in TerminalRun /\ run.state # "Absent"
      BY <1>4, <2>2 DEF shutdown_settle, TerminalRun
    <3>2. /\ RunEffect
          /\ DOMAIN proc' = Procs /\ DOMAIN proc'[c] = ProcFields
          /\ \A q \in Procs \ {c} : proc'[q] = proc[q]
          /\ proc'[c].async = proc[c].async /\ proc'[c].todo = proc[c].todo
          /\ \/ proc'[c].pc = "close" /\ proc'[c].ret = "sh_wait" /\ proc'[c].target = "Cancelled"
             \/ /\ proc'[c].pc = "sh_wait" /\ proc'[c].ret = proc[c].ret
                /\ proc'[c].target = proc[c].target
      BY <1>1, <3>1, SettleEffect
    <3> QED
      BY <1>1, <3>1, <3>2 DEF ProcEffect, MadeOnce, Making
  <2> QED
    BY <2>1, <2>2
<1> QED
  BY <1>2, <1>3, <1>4
=============================================================================

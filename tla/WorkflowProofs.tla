--------------------------- MODULE WorkflowProofs ---------------------------
(***************************************************************************)
(* Proofs about the workflow runtime, for every workload, every number of  *)
(* callers and every capacity: the view of a run obeys its contract, and   *)
(* the counters of the run table are exact.                                *)
(***************************************************************************)
EXTENDS WorkflowInvariant, FiniteSetTheorems

-----------------------------------------------------------------------------
(* The making of the run, the launch and the end of a drive, other runs. *)

\* create_run takes the only create call of the workload.
LEMMA CreateKeeps ==
  ASSUME ViewInv, NEW c \in Callers, create_run(c)
  PROVE  ViewInv' /\ run'.state = run.state /\ run'.epoch = run.epoch
<1>1. /\ Shapes /\ MadeOnce /\ NothingBefore /\ Counted /\ c \in Procs /\ c \notin Drives
      /\ DOMAIN run = RunFields /\ DOMAIN proc = Procs
      /\ \A p \in Procs : DOMAIN proc[p] = ProcFields
  BY DrivesAreNotCallers DEF ViewInv, Shapes, Procs
<1>2. /\ proc[c].pc = "idle" /\ proc[c].todo # << >> /\ Head(proc[c].todo).op = "create"
      /\ run' = [run EXCEPT !.eff.policy = Op(c).policy]
      /\ load' = load /\ table' = table
  BY DEF create_run, Starting, At, Op
<1>3. PICK pc \in {"submit_task", "idle"} : proc' = Taken(c, pc)
  BY DEF create_run
<1>4. /\ Callers' = Callers /\ Procs' = Procs
      /\ DOMAIN run' = RunFields /\ run'.state = run.state /\ run'.epoch = run.epoch
  BY <1>1, <1>2 DEF Callers, Procs, RunFields
<1>5. /\ proc[c].todo \in Seq(WorkOf(load)) /\ 1 \in 1 .. Len(proc[c].todo)
      /\ proc[c].todo[1].op = "create"
      /\ Tail(proc[c].todo) \in Seq(WorkOf(load))
      /\ \A i \in 1 .. Len(Tail(proc[c].todo)) :
           /\ i + 1 \in 1 .. Len(proc[c].todo) /\ i + 1 # 1
           /\ Tail(proc[c].todo)[i] = proc[c].todo[i + 1]
  <2>1. proc[c].todo \in Seq(WorkOf(load))
    BY <1>1 DEF Shapes
  <2>2. /\ Head(proc[c].todo) = proc[c].todo[1] /\ 1 \in 1 .. Len(proc[c].todo)
        /\ Tail(proc[c].todo) \in Seq(WorkOf(load)) /\ Len(Tail(proc[c].todo)) \in Nat
        /\ \A i \in 1 .. Len(Tail(proc[c].todo)) :
             i + 1 \in 1 .. Len(proc[c].todo) /\ Tail(proc[c].todo)[i] = proc[c].todo[i + 1]
    BY <1>2, <2>1, TailAt
  <2> QED
    BY <1>2, <2>1, <2>2
<1>6. /\ DOMAIN proc' = Procs /\ DOMAIN proc'[c] = ProcFields
      /\ \A q \in Procs \ {c} : proc'[q] = proc[q]
      /\ proc'[c].todo = Tail(proc[c].todo) /\ proc'[c].pc = pc
      /\ proc'[c].ret = proc[c].ret /\ proc'[c].target = proc[c].target
  BY <1>1, <1>3 DEF Taken, ProcFields
<1>7. run.state = "Absent" /\ \A q \in Callers : proc[q].pc \notin Making
  BY <1>5 DEF ViewInv, MadeOnce
<1>8. \A q \in Callers : \A i \in 1 .. Len(proc'[q].todo) : proc'[q].todo[i].op # "create"
  <2> SUFFICES ASSUME NEW q \in Callers, NEW i \in 1 .. Len(proc'[q].todo)
               PROVE  proc'[q].todo[i].op # "create"
    OBVIOUS
  <2>1. \A n \in 1 .. Len(proc[q].todo) : proc[q].todo[n].op = "create" => q = c /\ n = 1
    BY <1>1, <1>5 DEF MadeOnce
  <2>2. CASE q = c
    <3>1. i \in 1 .. Len(Tail(proc[c].todo)) /\ proc'[q].todo[i] = Tail(proc[c].todo)[i]
      BY ZenonT(60), <1>6, <2>2
    <3>2. i + 1 \in 1 .. Len(proc[q].todo) /\ i + 1 # 1 /\ proc'[q].todo[i] = proc[q].todo[i + 1]
      BY <1>5, <2>2, <3>1
    <3> QED
      BY <2>1, <3>2
  <2>3. CASE q # c
    BY <1>6, <2>1, <2>3 DEF Procs
  <2> QED
    BY <2>2, <2>3
<1>9. Shapes'
  BY ZenonT(60), <1>1, <1>2, <1>4, <1>5, <1>6 DEF Shapes, Procs
<1>10. MadeOnce'
  <2>1. /\ \A q \in Callers : proc'[q].pc \in Making => q = c
        /\ \A q \in Callers : proc'[q].ret \notin Making /\ proc'[q].target \notin Making
    BY <1>1, <1>6, <1>7 DEF MadeOnce, Procs
  <2> QED
    BY <1>4, <1>7, <1>8, <2>1 DEF MadeOnce
<1>11. NothingBefore'
  BY <1>1, <1>3, <1>4, <1>6 DEF NothingBefore, AbsentPcs, Making
<1>12. Counted'
  <2>1. \A d \in Drives : proc'[d] = proc[d]
    BY <1>1, <1>6 DEF Procs
  <2>2. {d \in Drives : proc'[d].async} = {d \in Drives : proc[d].async}
    BY <2>1
  <2> QED
    BY ZenonT(60), <1>1, <1>2, <1>4, <2>1, <2>2 DEF Counted, CountersExact
<1> QED
  BY <1>4, <1>9, <1>10, <1>11, <1>12 DEF ViewInv

\* The carrier task is submitted: its maker goes on, or gives up.
LEMMA SubmitTaskKeeps ==
  ASSUME ViewInv, NEW c \in Callers, create_submit(c)
  PROVE  ViewInv' /\ run'.state = run.state /\ run'.epoch = run.epoch
<1>1. /\ Shapes /\ MadeOnce /\ NothingBefore /\ Counted /\ c \in Procs /\ c \notin Drives
  BY DrivesAreNotCallers DEF ViewInv, Procs
<1>2. /\ proc[c].pc \in Making /\ load' = load /\ run' = run /\ table' = table
      /\ Callers' = Callers /\ Procs' = Procs
  BY DEF create_submit, At, Making, Callers, Procs
<1>3. PICK pc \in {"insert", "idle"} : Go(c, pc)
  BY DEF create_submit, Return
<1>4. /\ DOMAIN proc' = Procs /\ DOMAIN proc'[c] = ProcFields
      /\ \A q \in Procs \ {c} : proc'[q] = proc[q]
      /\ proc'[c].todo = proc[c].todo
      /\ proc'[c].pc = pc /\ proc'[c].ret = proc[c].ret /\ proc'[c].target = proc[c].target
  BY <1>1, <1>3, GoEffect
<1>5. \A q \in Callers : /\ proc'[q].todo = proc[q].todo
                         /\ proc'[q].ret = proc[q].ret /\ proc'[q].target = proc[q].target
                         /\ proc'[q].pc \in Making => proc[q].pc \in Making
  BY <1>2, <1>4 DEF Procs
<1>6. Shapes'
  BY SMTT(60), <1>1, <1>2, <1>4, <1>5 DEF Shapes
<1>7. MadeOnce'
  BY <1>1, <1>2, <1>5 DEF MadeOnce
<1>8. NothingBefore'
  BY SMTT(60), <1>1, <1>2, <1>3, <1>4 DEF NothingBefore, AbsentPcs, Making
<1>9. Counted'
  <2>1. \A d \in Drives : proc'[d] = proc[d]
    BY <1>1, <1>4 DEF Procs
  <2>2. {d \in Drives : proc'[d].async} = {d \in Drives : proc[d].async}
    BY <2>1
  <2> QED
    BY ZenonT(60), <1>1, <1>2, <2>1, <2>2 DEF Counted, CountersExact
<1> QED
  BY <1>2, <1>6, <1>7, <1>8, <1>9 DEF ViewInv

\* The run is inserted under its capacity, or its maker cancels the task.
LEMMA InsertKeeps ==
  ASSUME ViewInv, NEW c \in Callers, create_insert(c)
  PROVE  /\ ViewInv'
         /\ \/ run'.state = run.state /\ run'.epoch = run.epoch
            \/ /\ run.state = "Absent" /\ run.epoch = 0
               /\ run'.state = "Created" /\ run'.epoch = 0
<1>1. /\ Shapes /\ MadeOnce /\ NothingBefore /\ Counted /\ c \in Procs /\ c \notin Drives
      /\ DOMAIN run = RunFields /\ DOMAIN table = TableFields
  BY DrivesAreNotCallers DEF ViewInv, Procs, Shapes
<1>2. /\ proc[c].pc \in Making /\ load' = load /\ Go(c, "idle")
      /\ Callers' = Callers /\ Procs' = Procs
  BY DEF create_insert, At, Making, Return, Callers, Procs
<1>3. /\ run.state = "Absent" /\ run.epoch = 0
      /\ \A q \in Callers : \A i \in 1 .. Len(proc[q].todo) : proc[q].todo[i].op # "create"
      /\ \A q \in Callers \ {c} : proc[q].pc \notin Making
  BY <1>1, <1>2 DEF MadeOnce, NothingBefore
<1>4. /\ DOMAIN proc' = Procs /\ DOMAIN proc'[c] = ProcFields
      /\ \A q \in Procs \ {c} : proc'[q] = proc[q]
      /\ proc'[c].todo = proc[c].todo /\ proc'[c].async = proc[c].async
      /\ proc'[c].pc = "idle" /\ proc'[c].ret = proc[c].ret /\ proc'[c].target = proc[c].target
  BY <1>1, <1>2, GoEffect
<1>5. CASE table.accepting /\ table.active < MaxActive
  <2>1. /\ run' = [run EXCEPT !.state = "Created"]
        /\ table' = [table EXCEPT !.active = @ + 1]
    BY <1>5 DEF create_insert
  <2>2. /\ DOMAIN run' = RunFields /\ run'.state = "Created" /\ run'.epoch = run.epoch
        /\ DOMAIN table' = TableFields /\ table'.active = table.active + 1
        /\ table'.rest = table.rest /\ table'.async = table.async
    BY <1>1, <2>1 DEF RunFields, TableFields
  <2>3. \A q \in Callers :
          /\ proc'[q].todo = proc[q].todo /\ proc'[q].pc \notin Making
          /\ proc'[q].ret = proc[q].ret /\ proc'[q].target = proc[q].target
    BY <1>3, <1>4 DEF Procs, Making
  <2>4. Shapes'
    BY SMTT(60), <1>1, <1>2, <1>4, <2>2, <2>3 DEF Shapes, RunStates
  <2>5. MadeOnce'
    BY <1>1, <1>2, <1>3, <2>2, <2>3 DEF MadeOnce
  <2>6. NothingBefore'
    BY SMTT(60), <2>2 DEF NothingBefore
  <2>7. Counted'
    <3>1. \A d \in Drives : proc'[d] = proc[d]
      BY SMTT(60), <1>1, <1>4 DEF Procs
    <3>2. {d \in Drives : proc'[d].async} = {d \in Drives : proc[d].async}
      BY <3>1
    <3>3. /\ table.active \in Int /\ table.rest \in Int /\ table.active = table.rest + 0
          /\ table.async = Cardinality({d \in Drives : proc[d].async}) /\ table.async \in Int
      BY SMTT(60), <1>1, <1>3 DEF Counted, CountersExact
    <3>4. /\ table'.active \in Int /\ table'.rest \in Int /\ table'.async \in Int
          /\ table'.active = table'.rest + 1 /\ table'.active <= MaxActive
      BY SMTT(60), <1>5, <2>2, <3>3, ActiveAssumption
    <3>5. table'.async = Cardinality({d \in Drives : proc'[d].async})
      BY ZenonT(60), <2>2, <3>2, <3>3
    <3>6. run'.state \notin TerminalRun \cup {"Absent"}
      BY <2>2 DEF TerminalRun
    <3> QED
      BY SMTT(60), <1>1, <3>1, <3>4, <3>5, <3>6 DEF Counted, CountersExact
  <2> QED
    BY <1>3, <2>2, <2>4, <2>5, <2>6, <2>7 DEF ViewInv
<1>6. CASE ~(table.accepting /\ table.active < MaxActive)
  <2>1. run' = run /\ table' = table
    BY <1>6 DEF create_insert
  <2>2. ProcEffect(c)
    BY <1>1, <1>2, <1>4 DEF ProcEffect, MadeOnce, Making, AbsentPcs
  <2> QED
    BY <1>1, <2>1, <2>2, RunStays, EffectKeeps
<1> QED
  BY <1>5, <1>6

\* The set of asynchronous drives is finite.
LEMMA AsyncFinite ==
  ASSUME NEW S, S \subseteq Drives
  PROVE  IsFiniteSet(S)
<1>1. IsFiniteSet({"d1"}) /\ IsFiniteSet({"d1"} \cup {"d2"})
  BY ZenonT(60), FS_Singleton, FS_AddElement
<1>2. Drives = {"d1"} \cup {"d2"}
  BY DEF Drives
<1> QED
  BY ZenonT(60), <1>1, <1>2, FS_Subset

\* What handing a run to a free drive does to the two processes and the table.
LaunchEffect(c, d) ==
  /\ load' = load
  /\ DOMAIN proc' = Procs /\ DOMAIN proc'[c] = ProcFields /\ DOMAIN proc'[d] = ProcFields
  /\ \A q \in Procs \ {c, d} : proc'[q] = proc[q]
  /\ proc'[c].pc = "idle" /\ proc'[c].ret = proc[c].ret /\ proc'[c].target = proc[c].target
  /\ \/ proc'[c].todo = proc[c].todo
     \/ proc[c].todo # << >> /\ proc'[c].todo = Tail(proc[c].todo)
  /\ proc'[d].pc = "begin"
  /\ run' = [run EXCEPT !.active = TRUE]
  /\ DOMAIN table' = TableFields /\ table'.active = table.active /\ table'.rest = table.rest
  /\ \/ proc'[d].async = TRUE /\ table'.async = table.async + 1
     \/ proc'[d].async = FALSE /\ table'.async = table.async

\* A free drive becomes one of the asynchronous drives, or a synchronous one.
LEMMA LaunchKeeps ==
  ASSUME ViewInv, NEW c \in Callers, NEW d \in Drives, proc[d].pc = "none",
         run.state # "Absent", LaunchEffect(c, d)
  PROVE  ViewInv' /\ run'.state = run.state /\ run'.epoch = run.epoch
<1>1. /\ Shapes /\ MadeOnce /\ NothingBefore /\ Counted /\ c \in Procs /\ c \notin Drives
      /\ d \in Procs /\ d \notin Callers /\ c # d
      /\ DOMAIN run = RunFields /\ DOMAIN table = TableFields /\ DOMAIN proc = Procs
      /\ \A p \in Procs : DOMAIN proc[p] = ProcFields
      /\ Callers' = Callers /\ Procs' = Procs /\ load' = load
  BY DrivesAreNotCallers DEF ViewInv, Procs, Shapes, Callers, LaunchEffect
<1>2. PICK todo : todo = proc'[c].todo
  OBVIOUS
<1>3. /\ DOMAIN proc' = Procs /\ DOMAIN proc'[c] = ProcFields /\ DOMAIN proc'[d] = ProcFields
      /\ \A q \in Procs \ {c, d} : proc'[q] = proc[q]
      /\ proc'[c].todo = todo /\ proc'[c].pc = "idle"
      /\ proc'[c].ret = proc[c].ret /\ proc'[c].target = proc[c].target
      /\ proc'[d].pc = "begin"
  BY <1>2 DEF LaunchEffect
<1>4. /\ DOMAIN run' = RunFields /\ run'.state = run.state /\ run'.epoch = run.epoch
  BY <1>1 DEF RunFields, LaunchEffect
<1>5. /\ DOMAIN table' = TableFields /\ table'.active = table.active
      /\ table'.rest = table.rest
      /\ \/ proc'[d].async = TRUE /\ table'.async = table.async + 1
         \/ proc'[d].async = FALSE /\ table'.async = table.async
  BY DEF LaunchEffect
<1>6. /\ proc[c].todo \in Seq(WorkOf(load)) /\ todo \in Seq(WorkOf(load))
      /\ \E k \in {0, 1} : \A i \in 1 .. Len(todo) :
           i + k \in 1 .. Len(proc[c].todo) /\ todo[i] = proc[c].todo[i + k]
  <2>1. proc[c].todo \in Seq(WorkOf(load))
    BY <1>1 DEF Shapes
  <2>2. CASE todo = proc[c].todo
    BY <2>1, <2>2
  <2>3. CASE proc[c].todo # << >> /\ todo = Tail(proc[c].todo)
    <3>1. /\ todo \in Seq(WorkOf(load))
          /\ \A i \in 1 .. Len(todo) :
               i + 1 \in 1 .. Len(proc[c].todo) /\ todo[i] = proc[c].todo[i + 1]
      BY <2>1, <2>3, TailAt
    <3> QED
      BY <2>1, <3>1
  <2>4. todo = proc[c].todo \/ (proc[c].todo # << >> /\ todo = Tail(proc[c].todo))
    BY <1>2 DEF LaunchEffect
  <2> QED
    BY <2>2, <2>3, <2>4
<1>7. \A q \in Callers : \A i \in 1 .. Len(proc'[q].todo) : proc'[q].todo[i].op # "create"
  <2> SUFFICES ASSUME NEW q \in Callers, NEW i \in 1 .. Len(proc'[q].todo)
               PROVE  proc'[q].todo[i].op # "create"
    BY SMTT(60)
  <2>1. \A n \in 1 .. Len(proc[q].todo) : proc[q].todo[n].op # "create"
    BY <1>1 DEF MadeOnce
  <2>2. CASE q = c
    <3>1. PICK k \in {0, 1} : \A m \in 1 .. Len(todo) :
             m + k \in 1 .. Len(proc[c].todo) /\ todo[m] = proc[c].todo[m + k]
      BY ZenonT(60), <1>6
    <3>2. proc'[q].todo = todo /\ i \in 1 .. Len(todo)
      BY <1>3, <2>2
    <3>3. i + k \in 1 .. Len(proc[q].todo) /\ proc'[q].todo[i] = proc[q].todo[i + k]
      BY <2>2, <3>1, <3>2
    <3> QED
      BY SMTT(60), <2>1, <3>3
  <2>3. CASE q # c
    BY SMTT(60), <1>1, <1>3, <2>1, <2>3 DEF Procs
  <2> QED
    BY <2>2, <2>3
<1>8. Shapes'
  <2>1. \A p \in Procs : DOMAIN proc'[p] = ProcFields
    BY SMTT(60), <1>1, <1>3
  <2>2. \A q \in Callers : proc'[q].todo \in Seq(WorkOf(load))
    BY <1>1, <1>3, <1>6 DEF Shapes, Procs
  <2> QED
    BY SMTT(60), <1>1, <1>3, <1>4, <1>5, <2>1, <2>2 DEF Shapes
<1>9. MadeOnce'
  <2>1. \A q \in Callers :
          proc'[q].pc \notin Making /\ proc'[q].ret \notin Making /\ proc'[q].target \notin Making
    BY <1>1, <1>3 DEF MadeOnce, Procs, Making
  <2>2. \A c1, c2 \in Callers :
          \A i \in 1 .. Len(proc'[c1].todo), j \in 1 .. Len(proc'[c2].todo) :
            proc'[c1].todo[i].op = "create" /\ proc'[c2].todo[j].op = "create" => c1 = c2 /\ i = j
    BY <1>7, Zenon
  <2> QED
    BY <1>1, <1>7, <2>1, <2>2, ZenonT(60) DEF MadeOnce
<1>10. NothingBefore'
  BY SMTT(60), <1>4 DEF NothingBefore
<1>11. Counted'
  <2> DEFINE S == {x \in Drives : proc[x].async}
             T == {x \in Drives : proc'[x].async}
  <2>1. /\ proc[d].async = FALSE /\ table.async = Cardinality(S)
        /\ table.active \in Int /\ table.rest \in Int /\ table.async \in Int
    BY <1>1 DEF Counted, CountersExact
  <2>2. \A x \in Drives \ {d} : proc'[x] = proc[x]
    BY <1>1, <1>3 DEF Procs
  <2>3. IsFiniteSet(S)
    BY AsyncFinite
  <2>4. /\ proc'[d].async = TRUE => T = S \cup {d} /\ d \notin S
        /\ proc'[d].async = FALSE => T = S
    BY SMTT(60), <2>1, <2>2
  <2> HIDE DEF S, T
  <2>5. table'.async = Cardinality(T) /\ table'.async \in Int
    BY <1>5, <2>1, <2>3, <2>4, FS_AddElement
  <2>6. \A x \in Drives :
          /\ proc'[x].pc = "none" => proc'[x].async = FALSE
          /\ proc'[x].pc \in Returns => proc'[x].ret \notin Returns \cup {"none"}
    <3>1. \A x \in Drives \ {d} :
            /\ proc'[x].pc = "none" => proc'[x].async = FALSE
            /\ proc'[x].pc \in Returns => proc'[x].ret \notin Returns \cup {"none"}
      BY <1>1, <2>2, Zenon DEF Counted
    <3>2. /\ proc'[d].pc = "none" => proc'[d].async = FALSE
          /\ proc'[d].pc \notin Returns
      BY SMTT(60), <1>3 DEF Returns
    <3> QED
      BY <3>1, <3>2, Zenon
  <2>7. table'.active = table'.rest + IF run'.state \in TerminalRun \cup {"Absent"} THEN 0 ELSE 1
    BY SMTT(60), <1>1, <1>4, <1>5 DEF Counted, CountersExact
  <2>8. table'.active <= MaxActive
    BY SMTT(60), <1>1, <1>5 DEF Counted, CountersExact
  <2> QED
    BY SMTT(60), <1>5, <2>1, <2>5, <2>6, <2>7, <2>8 DEF Counted, CountersExact, T
<1> QED
  BY <1>4, <1>8, <1>9, <1>10, <1>11 DEF ViewInv

\* start_run and execute_run.
LEMMA StartKeeps ==
  ASSUME ViewInv, NEW c \in Callers, start_run(c)
  PROVE  ViewInv' /\ run'.state = run.state /\ run'.epoch = run.epoch
<1>1. /\ Shapes /\ c \in Procs /\ proc[c].todo # << >> /\ Op(c).op = "start"
      /\ run.state # "Absent" /\ load' = load
      /\ DOMAIN run = RunFields /\ DOMAIN proc = Procs /\ DOMAIN proc[c] = ProcFields
  BY DEF ViewInv, Shapes, start_run, Known, Starting, Procs
<1>2. Op(c) \in WorkOf(load) /\ load \in Loads
  BY SMTT(60), <1>1, TailAt DEF Op, Shapes
<1>3. Op(c).async \in BOOLEAN
  BY SMTT(60), <1>1, <1>2, LoadsAssumption
<1>4. CASE proc' = Taken(c, "idle") /\ run' = run /\ table' = table
  <2>1. ProcEffect(c)
    BY SMTT(60), <1>1, <1>4, TakenKeeps DEF Making
  <2> QED
    BY SMTT(60), <1>1, <1>4, <2>1, RunStays, EffectKeeps
<1> DEFINE async == Op(c).async
<1>5. ASSUME NEW d \in Drives, proc[d].pc = "none",
             proc' = [Launch(c, d, async) EXCEPT ![c].todo = Tail(@)],
             run' = [run EXCEPT !.active = TRUE],
             table' = [table EXCEPT !.async = IF async THEN @ + 1 ELSE @]
      PROVE  ViewInv' /\ run'.state = run.state /\ run'.epoch = run.epoch
  <2>1. c # d /\ d \in Procs /\ DOMAIN table = TableFields
    BY <1>5, DrivesAreNotCallers DEF ViewInv, Shapes
  <2>2. proc' = [[proc EXCEPT ![c] = [@ EXCEPT !.pc = "idle"],
                              ![d] = [NoProc EXCEPT !.pc = "begin", !.async = async]]
                   EXCEPT ![c].todo = Tail(@)]
    BY SMTT(60), <1>5 DEF Launch
  <2>3. DOMAIN NoProc = ProcFields
    BY DEF NoProc, ProcFields
  <2>4. /\ DOMAIN proc' = Procs /\ DOMAIN proc'[c] = ProcFields /\ DOMAIN proc'[d] = ProcFields
        /\ \A q \in Procs \ {c, d} : proc'[q] = proc[q]
        /\ proc'[c].pc = "idle" /\ proc'[c].ret = proc[c].ret /\ proc'[c].target = proc[c].target
        /\ proc'[c].todo = Tail(proc[c].todo)
        /\ proc'[d].pc = "begin" /\ proc'[d].async = async
    BY SMTT(60), <1>1, <2>1, <2>2, <2>3 DEF ProcFields
  <2>5. /\ DOMAIN table' = TableFields /\ table'.active = table.active /\ table'.rest = table.rest
        /\ table'.async = IF async THEN table.async + 1 ELSE table.async
    BY SMTT(60), <1>5, <2>1 DEF TableFields
  <2>6. LaunchEffect(c, d)
    BY SMTT(60), <1>1, <1>3, <1>5, <2>4, <2>5 DEF LaunchEffect
  <2> QED
    BY SMTT(60), <1>1, <1>5, <2>6, LaunchKeeps
<1>6. \/ proc' = Taken(c, "idle") /\ run' = run /\ table' = table
      \/ \E d \in Drives :
           /\ proc[d].pc = "none"
           /\ proc' = [Launch(c, d, async) EXCEPT ![c].todo = Tail(@)]
           /\ run' = [run EXCEPT !.active = TRUE]
           /\ table' = [table EXCEPT !.async = IF async THEN @ + 1 ELSE @]
  BY DEF start_run, At
<1> QED
  BY <1>4, <1>5, <1>6

\* continue_run hands the run to the executor, or takes the view back.
LEMMA ContinueLaunchKeeps ==
  ASSUME ViewInv, NEW c \in Callers, continue_launch(c)
  PROVE  /\ ViewInv'
         /\ RunEffect \/ (run'.state = run.state /\ run'.epoch = run.epoch)
<1>1. /\ Shapes /\ c \in Procs /\ load' = load /\ proc[c].pc \notin AbsentPcs
      /\ DOMAIN run = RunFields /\ DOMAIN proc = Procs /\ DOMAIN proc[c] = ProcFields
      /\ DOMAIN table = TableFields
  BY DEF ViewInv, Shapes, continue_launch, At, AbsentPcs, Making, Procs
<1>2. run.state # "Absent" /\ "Paused" \in RunStates \ TerminalRun
  BY <1>1, NotAbsent DEF RunStates, TerminalRun
<1>3. ASSUME NEW d \in Drives, proc[d].pc = "none", proc' = Launch(c, d, TRUE),
             run' = [run EXCEPT !.active = TRUE], table' = [table EXCEPT !.async = @ + 1]
      PROVE  ViewInv' /\ run'.state = run.state /\ run'.epoch = run.epoch
  <2>1. c # d /\ d \in Procs
    BY <1>3, DrivesAreNotCallers
  <2>2. proc' = [proc EXCEPT ![c] = [@ EXCEPT !.pc = "idle"],
                             ![d] = [NoProc EXCEPT !.pc = "begin", !.async = TRUE]]
    BY <1>3 DEF Launch
  <2>3. DOMAIN NoProc = ProcFields
    BY DEF NoProc, ProcFields
  <2>4. /\ DOMAIN proc' = Procs /\ DOMAIN proc'[c] = ProcFields /\ DOMAIN proc'[d] = ProcFields
        /\ \A q \in Procs \ {c, d} : proc'[q] = proc[q]
        /\ proc'[c].pc = "idle" /\ proc'[c].ret = proc[c].ret /\ proc'[c].target = proc[c].target
        /\ proc'[c].todo = proc[c].todo
        /\ proc'[d].pc = "begin" /\ proc'[d].async = TRUE
    BY <1>1, <2>1, <2>2, <2>3 DEF ProcFields
  <2>5. /\ DOMAIN table' = TableFields /\ table'.active = table.active /\ table'.rest = table.rest
        /\ table'.async = table.async + 1
    BY <1>1, <1>3 DEF TableFields
  <2>6. LaunchEffect(c, d)
    BY ZenonT(60), <1>1, <1>3, <2>4, <2>5 DEF LaunchEffect
  <2> QED
    BY <1>1, <1>2, <1>3, <2>6, LaunchKeeps
<1>4. ASSUME Go(c, "idle"), table' = table,
             run' = [(IF CanCommit("Paused") THEN Committed("Paused") ELSE run)
                       EXCEPT !.active = FALSE]
      PROVE  ViewInv' /\ RunEffect
  <2>1. ProcEffect(c)
    BY <1>1, <1>4, GoKeeps DEF Making, Returns
  <2>2. RunEffect
    <3>1. CASE CanCommit("Paused")
      <4>1. /\ DOMAIN Committed("Paused") = RunFields /\ Committed("Paused").state = "Paused"
            /\ Committed("Paused").epoch = run.epoch + 1
        BY <1>1, <3>1, CommitMoves
      <4>2. DOMAIN run' = RunFields /\ run'.state = "Paused" /\ run'.epoch = run.epoch + 1
        BY <1>4, <3>1, <4>1 DEF RunFields
      <4> QED
        BY <1>1, <1>2, <1>4, <3>1, <4>2 DEF RunEffect
    <3>2. CASE ~CanCommit("Paused")
      <4>1. DOMAIN run' = RunFields /\ run'.state = run.state /\ run'.epoch = run.epoch
        BY <1>1, <1>4, <3>2 DEF RunFields
      <4> QED
        BY <1>4, <4>1, RunStays
    <3> QED
      BY <3>1, <3>2
  <2> QED
    BY <1>1, <2>1, <2>2, EffectKeeps
<1> QED
  BY ZenonT(60), <1>3, <1>4 DEF continue_launch, Return, At

\* The epilogue of a drive gives its capacity back and frees it.
LEMMA FinKeeps ==
  ASSUME ViewInv, NEW d \in Drives, drive_fin(d)
  PROVE  ViewInv' /\ run'.state = run.state /\ run'.epoch = run.epoch
<1>1. /\ Shapes /\ MadeOnce /\ NothingBefore /\ Counted
      /\ d \in Procs /\ d \notin Callers
      /\ DOMAIN run = RunFields /\ DOMAIN table = TableFields /\ DOMAIN proc = Procs
      /\ Callers' = Callers /\ Procs' = Procs /\ load' = load
  BY DrivesAreNotCallers DEF ViewInv, Procs, Shapes, Callers, drive_fin
<1>2. /\ run' = [run EXCEPT !.active = FALSE] /\ proc' = [proc EXCEPT ![d] = NoProc]
      /\ table' = [table EXCEPT !.async = IF proc[d].async THEN @ - 1 ELSE @]
  BY DEF drive_fin
<1>3. /\ DOMAIN proc' = Procs /\ proc'[d] = NoProc
      /\ \A q \in Procs \ {d} : proc'[q] = proc[q]
      /\ DOMAIN NoProc = ProcFields /\ NoProc.pc = "none" /\ NoProc.async = FALSE
  BY <1>1, <1>2 DEF NoProc, ProcFields
<1>4. DOMAIN run' = RunFields /\ run'.state = run.state /\ run'.epoch = run.epoch
  BY <1>1, <1>2 DEF RunFields
<1>5. /\ DOMAIN table' = TableFields /\ table'.active = table.active
      /\ table'.rest = table.rest
      /\ table'.async = IF proc[d].async THEN table.async - 1 ELSE table.async
  BY SMTT(60), <1>1, <1>2 DEF TableFields
<1>6. \A c \in Callers : proc'[c] = proc[c]
  BY SMTT(60), <1>1, <1>3 DEF Procs
<1>7. Shapes'
  BY SMTT(60), <1>1, <1>3, <1>4, <1>5, <1>6 DEF Shapes
<1>8. MadeOnce'
  BY SMTT(60), <1>1, <1>4, <1>6 DEF MadeOnce
<1>9. NothingBefore'
  BY SMTT(60), <1>1, <1>3, <1>4 DEF NothingBefore, AbsentPcs
<1>10. Counted'
  <2> DEFINE S == {x \in Drives : proc[x].async}
             T == {x \in Drives : proc'[x].async}
  <2>1. /\ table.async = Cardinality(S)
        /\ table.active \in Int /\ table.rest \in Int /\ table.async \in Int
    BY <1>1 DEF Counted, CountersExact
  <2>2. \A x \in Drives \ {d} : proc'[x] = proc[x]
    BY <1>1, <1>3 DEF Procs
  <2>3. IsFiniteSet(S)
    BY AsyncFinite
  <2>4. /\ T = S \ {d}
        /\ proc[d].async <=> d \in S
    BY <1>3, <2>2
  <2> HIDE DEF S, T
  <2>5. table'.async = Cardinality(T) /\ table'.async \in Int
    <3>1. Cardinality(S \ {d}) = IF d \in S THEN Cardinality(S) - 1 ELSE Cardinality(S)
      BY SMTT(60), <2>3, FS_RemoveElement
    <3>2. CASE d \in S
      BY SMTT(60), <1>5, <2>1, <2>4, <3>1, <3>2
    <3>3. CASE d \notin S
      BY SMTT(60), <1>5, <2>1, <2>4, <3>1, <3>3
    <3> QED
      BY <3>2, <3>3
  <2>6. \A x \in Drives :
          /\ proc'[x].pc = "none" => proc'[x].async = FALSE
          /\ proc'[x].pc \in Returns => proc'[x].ret \notin Returns \cup {"none"}
    <3>1. \A x \in Drives \ {d} :
            /\ proc'[x].pc = "none" => proc'[x].async = FALSE
            /\ proc'[x].pc \in Returns => proc'[x].ret \notin Returns \cup {"none"}
      BY <1>1, <2>2, Zenon DEF Counted
    <3>2. /\ proc'[d].pc = "none" => proc'[d].async = FALSE
          /\ proc'[d].pc \notin Returns
      BY SMTT(60), <1>3 DEF Returns
    <3> QED
      BY <3>1, <3>2, Zenon
  <2>7. table'.active = table'.rest + IF run'.state \in TerminalRun \cup {"Absent"} THEN 0 ELSE 1
    BY SMTT(60), <1>1, <1>4, <1>5 DEF Counted, CountersExact
  <2>8. table'.active <= MaxActive
    BY <1>1, <1>5 DEF Counted, CountersExact
  <2> QED
    BY SMTT(60), <1>5, <2>1, <2>5, <2>6, <2>7, <2>8 DEF Counted, CountersExact, T
<1> QED
  BY SMTT(60), <1>4, <1>7, <1>8, <1>9, <1>10 DEF ViewInv

\* Another run comes or goes.
LEMMA OthersKeep ==
  ASSUME ViewInv, others
  PROVE  ViewInv' /\ run' = run
<1>1. /\ Shapes /\ MadeOnce /\ NothingBefore /\ Counted
      /\ load' = load /\ run' = run /\ proc' = proc
      /\ Callers' = Callers /\ Procs' = Procs /\ DOMAIN table = TableFields
  BY DEF ViewInv, others, Callers, Procs, Shapes
<1>2. \/ /\ table.active < MaxActive
         /\ table' = [table EXCEPT !.active = @ + 1, !.rest = @ + 1]
      \/ table' = [table EXCEPT !.active = @ - 1, !.rest = @ - 1]
  BY DEF others
<1>3. /\ DOMAIN table' = TableFields /\ table'.async = table.async
      /\ \/ /\ table.active < MaxActive
            /\ table'.active = table.active + 1 /\ table'.rest = table.rest + 1
         \/ table'.active = table.active - 1 /\ table'.rest = table.rest - 1
  BY ZenonT(60), <1>1, <1>2 DEF TableFields
<1>4. Shapes' /\ MadeOnce' /\ NothingBefore'
  BY <1>1, <1>3 DEF Shapes, MadeOnce, NothingBefore
<1>5. Counted'
  <2>1. /\ table.active \in Int /\ table.rest \in Int /\ table.async \in Int
        /\ table.active = table.rest + IF run.state \in TerminalRun \cup {"Absent"} THEN 0 ELSE 1
        /\ table.active <= MaxActive /\ MaxActive \in Nat
    BY SMTT(60), <1>1, ActiveAssumption DEF Counted, CountersExact
  <2>2. /\ table'.active \in Int /\ table'.rest \in Int /\ table'.async \in Int
        /\ table'.active = table'.rest + IF run'.state \in TerminalRun \cup {"Absent"} THEN 0 ELSE 1
        /\ table'.active <= MaxActive
    BY <1>1, <1>3, <2>1
  <2> QED
    BY <1>1, <1>3, <2>2 DEF Counted, CountersExact
<1> QED
  BY <1>1, <1>4, <1>5 DEF ViewInv

-----------------------------------------------------------------------------
(* The invariant, and what follows from it. *)

\* The invariant holds initially, and the view is the contract's initial one.
LEMMA ViewInvInit ==
  ASSUME Init
  PROVE  ViewInv /\ Contract!ViewInit
<1>1. /\ load \in Loads /\ run = NoRun
      /\ table = [accepting |-> TRUE, shut |-> FALSE, active |-> 0, async |-> 0, rest |-> 0]
      /\ proc = [p \in Procs |->
                   IF p \in Drives THEN NoProc
                   ELSE [NoProc EXCEPT !.pc = "idle", !.todo = load.calls[p]]]
  BY ZenonT(60) DEF Init, Procs
<1>2. /\ DOMAIN run = RunFields /\ run.state = "Absent" /\ run.epoch = 0
      /\ DOMAIN table = TableFields /\ table.active = 0 /\ table.rest = 0 /\ table.async = 0
  BY ZenonT(60), <1>1 DEF NoRun, RunFields, TableFields
<1>3. /\ DOMAIN NoProc = ProcFields /\ NoProc.pc = "none" /\ NoProc.async = FALSE
      /\ NoProc.ret = "none" /\ NoProc.target = "none"
  BY SMTT(60) DEF NoProc, ProcFields
<1>4. \A c \in Callers : c \notin Drives
  BY ZenonT(60), <1>1, LoadsAssumption DEF Callers, Drives
<1>5. \A d \in Drives : proc[d] = NoProc
  BY ZenonT(60), <1>1 DEF Procs
<1>6. \A c \in Callers : /\ DOMAIN proc[c] = ProcFields /\ proc[c].pc = "idle"
                         /\ proc[c].todo = load.calls[c]
                         /\ proc[c].ret = "none" /\ proc[c].target = "none"
  <2> SUFFICES ASSUME NEW c \in Callers
               PROVE  /\ DOMAIN proc[c] = ProcFields /\ proc[c].pc = "idle"
                      /\ proc[c].todo = load.calls[c]
                      /\ proc[c].ret = "none" /\ proc[c].target = "none"
    BY SMTT(60)
  <2>1. proc[c] = [NoProc EXCEPT !.pc = "idle", !.todo = load.calls[c]]
    BY ZenonT(60), <1>1, <1>4 DEF Procs
  <2> QED
    BY <1>3, <2>1 DEF ProcFields
<1>7. Shapes
  <2>1. \A c \in Callers : proc[c].todo \in Seq(WorkOf(load))
    <3>1. load \in Loads
      BY ZenonT(60), <1>1
    <3>2. \A c \in Callers : load.calls[c] \in Seq(WorkOf(load))
      BY <3>1, LoadsAssumption, Zenon DEF Callers
    <3> QED
      BY SMTT(60), <1>6, <3>2
  <2>2. DOMAIN proc = Procs /\ \A p \in Procs : DOMAIN proc[p] = ProcFields
    BY ZenonT(60), <1>1, <1>3, <1>5, <1>6 DEF Procs
  <2> QED
    BY ZenonT(60), <1>1, <1>2, <2>1, <2>2 DEF Shapes
<1>8. MadeOnce
  <2>1. \A c1, c2 \in Callers :
          \A i \in 1 .. Len(proc[c1].todo), j \in 1 .. Len(proc[c2].todo) :
            proc[c1].todo[i].op = "create" /\ proc[c2].todo[j].op = "create" => c1 = c2 /\ i = j
    <3>1. load \in Loads
      BY <1>1
    <3>2. \A c1, c2 \in Callers :
            \A i \in 1 .. Len(load.calls[c1]), j \in 1 .. Len(load.calls[c2]) :
              load.calls[c1][i].op = "create" /\ load.calls[c2][j].op = "create"
                => c1 = c2 /\ i = j
      BY <3>1, LoadsAssumption, Zenon DEF Callers
    <3> SUFFICES ASSUME NEW c1 \in Callers, NEW c2 \in Callers,
                        NEW i \in 1 .. Len(proc[c1].todo), NEW j \in 1 .. Len(proc[c2].todo),
                        proc[c1].todo[i].op = "create", proc[c2].todo[j].op = "create"
                 PROVE  c1 = c2 /\ i = j
      OBVIOUS
    <3>3. proc[c1].todo = load.calls[c1] /\ proc[c2].todo = load.calls[c2]
      BY <1>6
    <3>4. /\ i \in 1 .. Len(load.calls[c1]) /\ load.calls[c1][i].op = "create"
          /\ j \in 1 .. Len(load.calls[c2]) /\ load.calls[c2][j].op = "create"
      BY <3>3, Zenon
    <3> QED
      BY SMTT(60), <3>2, <3>4
  <2>2. \A c \in Callers : /\ proc[c].pc \notin Making
                           /\ proc[c].ret \notin Making /\ proc[c].target \notin Making
    BY <1>6 DEF Making
  <2> QED
    BY SMTT(60), <1>2, <2>1, <2>2 DEF MadeOnce
<1>9. NothingBefore
  <2>1. \A p \in Procs : proc[p].pc \in AbsentPcs
    BY SMTT(60), <1>3, <1>5, <1>6 DEF Procs, AbsentPcs
  <2> QED
    BY <1>2, <2>1 DEF NothingBefore
<1>10. Counted
  <2>1. {d \in Drives : proc[d].async} = {}
    BY <1>3, <1>5
  <2>2. table.async = Cardinality({d \in Drives : proc[d].async})
    BY ZenonT(60), <1>2, <2>1, FS_EmptySet
  <2>3. \A d \in Drives : /\ proc[d].pc = "none" => proc[d].async = FALSE
                          /\ proc[d].pc \notin Returns
    BY <1>3, <1>5 DEF Returns
  <2>4. table.active <= MaxActive
    BY <1>2, ActiveAssumption
  <2> QED
    BY <1>2, <2>2, <2>3, <2>4 DEF Counted, CountersExact
<1>11. Contract!ViewInit
  BY <1>2 DEF Contract!ViewInit
<1> QED
  BY SMTT(60), <1>7, <1>8, <1>9, <1>10, <1>11 DEF ViewInv

\* A step with the effects above is a step of the contract.
LEMMA EffectIsMove ==
  ASSUME Shapes, RunEffect
  PROVE  \/ run'.state = run.state /\ run'.epoch = run.epoch
         \/ Contract!ViewNext
<1>1. ASSUME NEW t \in RunStates, run.state # "Absent", CanCommit(t), run'.state = t,
             run'.epoch = run.epoch + 1
      PROVE  Contract!ViewNext
  <2>1. run.state \in RunStates
    BY <1>1 DEF Shapes
  <2>2. /\ run.state \notin TerminalRun /\ t # "Created"
        /\ \/ t = "Cancelled"
           \/ t = "Running" /\ run.state # "Running"
           \/ /\ run.state = "Running"
              /\ t \in {"Paused", "WaitingUser", "WaitingAgent"} \cup TerminalRun
           \/ run.state = "WaitingAgent" /\ t \in {"WaitingUser", "Failed"}
    BY <1>1, <2>1, SuccessorsAre DEF CanCommit
  <2>3. t \in {"Running"} \cup Contract!Parked \cup Contract!Settled
    BY <2>2 DEF RunStates, TerminalRun, Contract!Parked, Contract!Settled
  <2>4. Contract!MayMove(run.state, t)
    BY <2>2 DEF TerminalRun, Contract!MayMove, Contract!Parked, Contract!Settled
  <2>5. Contract!Move(t)
    BY SMTT(60), <1>1, <2>2, <2>4 DEF Contract!Move, Contract!Settled, TerminalRun
  <2> QED
    BY <2>3, <2>5 DEF Contract!ViewNext
<1> QED
  BY <1>1 DEF RunEffect

\* Every step keeps the invariant and is a step of the contract, or leaves the
\* view alone.
LEMMA ViewInvNext ==
  ASSUME ViewInv, Next
  PROVE  /\ ViewInv'
         /\ \/ run'.state = run.state /\ run'.epoch = run.epoch
            \/ Contract!ViewNext
<1>1. Shapes
  BY DEF ViewInv
<1>2. ASSUME NEW p \in Procs, ProcEffect(p) /\ RunEffect
      PROVE  /\ ViewInv'
             /\ \/ run'.state = run.state /\ run'.epoch = run.epoch
                \/ Contract!ViewNext
  BY <1>1, <1>2, EffectKeeps, EffectIsMove
<1>3. ASSUME NEW d \in Drives, DriveStep(d) \/ withdrawal_tick(d)
      PROVE  /\ ViewInv'
             /\ \/ run'.state = run.state /\ run'.epoch = run.epoch
                \/ Contract!ViewNext
  <2>1. CASE drive_fin(d)
    BY <2>1, FinKeeps
  <2>2. CASE ~drive_fin(d)
    <3>1. d \in Procs /\ ProcEffect(d) /\ RunEffect
      BY SMTT(60), <1>3, <2>2, DriveEffect, DrivesAreNotCallers
    <3> QED
      BY <1>2, <3>1
  <2> QED
    BY <2>1, <2>2
<1>4. ASSUME NEW c \in Callers, CallerStep(c)
      PROVE  /\ ViewInv'
             /\ \/ run'.state = run.state /\ run'.epoch = run.epoch
                \/ Contract!ViewNext
  <2>1. c \in Procs
    BY DEF Procs
  <2>2. CASE create_run(c) \/ create_submit(c) \/ start_run(c)
    BY SMTT(60), <2>2, CreateKeeps, SubmitTaskKeeps, StartKeeps
  <2>3. CASE create_insert(c)
    BY <2>3, InsertKeeps DEF Contract!ViewNext, Contract!Insert
  <2>4. CASE continue_launch(c)
    BY SMTT(60), <1>1, <2>4, ContinueLaunchKeeps, EffectIsMove
  <2>5. CASE \/ pause_run(c) \/ pause_task(c) \/ pause_wait(c) \/ cancel_run(c) \/ cancel_task(c)
             \/ task_command(c) \/ resume_run(c) \/ continue_run(c) \/ continue_task(c)
             \/ execute_user_input(c) \/ shutdown_wait(c) \/ decision_reject(c)
    BY SMTT(60), <1>2, <2>1, <2>5, ControlEffect
  <2>6. CASE \/ pause_commit(c) \/ cancel_settle(c) \/ continue_observe(c) \/ continue_commit(c)
             \/ decision_activate(c) \/ decision_refuse(c) \/ input_stage(c)
    BY SMTT(60), <1>2, <2>1, <2>6, CommitEffect
  <2>7. CASE \/ patch_run(c) \/ rollback_run_patch(c) \/ submit_patch(c) \/ submit_queue(c)
             \/ apply_patch(c) \/ decision_accept(c)
    BY SMTT(60), <1>2, <2>1, <2>7, PatchEffect
  <2>8. CASE patch_write(c) \/ raise(c) \/ park(c) \/ close(c)
    BY SMTT(60), <1>2, <2>1, <2>8, SharedEffect
  <2>9. CASE pending_decision_request(c) \/ resolve_decision(c)
    BY SMTT(60), <1>2, <2>1, <2>9, AnswerEffect
  <2>10. CASE shutdown(c) \/ shutdown_cancel(c) \/ shutdown_settle(c)
    BY SMTT(60), <1>2, <2>1, <2>10, ShutdownEffect
  <2>11. CASE resolve_interrupted_step(c)
    BY <1>2, <2>1, <2>11, MendEffect
  <2> QED
    BY ZenonT(60), <1>4, <2>2, <2>3, <2>4, <2>5, <2>6, <2>7, <2>8, <2>9, <2>10, <2>11 DEF CallerStep
<1>5. CASE others
  BY SMTT(60), <1>5, OthersKeep
<1> QED
  BY <1>3, <1>4, <1>5 DEF Next

\* The invariant survives stuttering.
LEMMA ViewInvStutters ==
  ASSUME ViewInv, UNCHANGED vars
  PROVE  ViewInv' /\ run' = run
<1>1. load' = load /\ run' = run /\ table' = table /\ proc' = proc
  BY DEF vars
<1>2. Shapes'
  BY <1>1 DEF ViewInv, Shapes, Callers, Procs
<1>3. MadeOnce'
  BY <1>1 DEF ViewInv, MadeOnce, Callers
<1>4. NothingBefore'
  BY <1>1 DEF ViewInv, NothingBefore, Callers, Procs
<1>5. Counted'
  BY <1>1 DEF ViewInv, Counted, CountersExact
<1> QED
  BY <1>1, <1>2, <1>3, <1>4, <1>5 DEF ViewInv

\* The counters of the run table are exact in every reachable state, for every
\* workload and capacity: a run holds one slot from create_run_locked's insertion
\* until the one settle_terminal that commits, however many callers, drives and
\* shutdowns try to settle it, and async_drives_ counts the asynchronous drives.
THEOREM SlotsAreExact == Spec => []CountersExact
<1>1. ViewInv /\ [Next]_vars => ViewInv'
  BY ViewInvNext, ViewInvStutters
<1>2. Init => ViewInv
  BY ViewInvInit
<1>3. ViewInv => CountersExact
  BY DEF ViewInv, Counted
<1> QED
  BY <1>1, <1>2, <1>3, PTL DEF Spec

\* The workflow runtime implements the contract of a run: whichever of the
\* drive, its callers and shutdown commits first, the view moves only along the
\* frozen transition table, one epoch per move, and never once it has settled
\* (commit_transition, apply_workflow_run_transition).
THEOREM RuntimeKeepsRunContract == Spec => ImplementsRunContract
<1>1. ViewInv /\ [Next]_vars => ViewInv'
  BY ViewInvNext, ViewInvStutters
<1>2. Init => ViewInv /\ Contract!ViewInit
  BY ViewInvInit
<1>3. ViewInv /\ [Next]_vars
        => [Contract!ViewNext]_[state |-> run.state, epoch |-> run.epoch]
  <2>1. ASSUME ViewInv, Next
        PROVE  [Contract!ViewNext]_[state |-> run.state, epoch |-> run.epoch]
    BY <2>1, ViewInvNext
  <2>2. ASSUME ViewInv, UNCHANGED vars
        PROVE  [Contract!ViewNext]_[state |-> run.state, epoch |-> run.epoch]
    BY <2>2, ViewInvStutters
  <2> QED
    BY SMTT(60), <2>1, <2>2
<1> QED
  BY <1>1, <1>2, <1>3, PTL DEF Spec, ImplementsRunContract, Contract!RunContract
=============================================================================

--------------------------- MODULE MCInteraction ---------------------------
(* Three inputs of one principal, of which the second replies to the first, *)
(* and one of another.                                                      *)
EXTENDS Interaction

MCInputs == {"i1", "i2", "i3", "j1"}
MCPrincipalOf == [i \in MCInputs |-> IF i = "j1" THEN "p2" ELSE "p1"]
MCReplyTo == [i \in MCInputs |-> IF i = "i2" THEN "i1" ELSE "none"]

\* Limits of the configuration, and what happens.
Load(tasks, loops, room, inputs, submits) ==
    [entries |-> 3, tasks |-> tasks, sinks |-> loops, room |-> room, inputs |-> inputs,
     submits |-> submits, records |-> {}, reports |-> 0, reads |-> 0, time |-> 0, faults |-> 0,
     crashes |-> 0]

\* Three submissions of one principal that may begin two tasks, continue them and
\* resume them, with room for one to wait; two of two principals.
ThreeSubmits == Load(2, 0, 1, {"i1", "i2", "i3"}, 3)
TwoPrincipals == Load(1, 1, 1, {"i1", "j1"}, 2)

\* Two with a report and a restart; one twice, with a refused append as well; one
\* that the host rejects.
Restarted == [Load(1, 1, 2, {"i1", "i2"}, 2) EXCEPT !.records = {"Answered"}, !.reports = 1,
                                                    !.crashes = 1]
Refused == [Load(1, 1, 1, {"i1"}, 2) EXCEPT !.records = {"TaskSettled"}, !.reports = 1,
                                            !.faults = 1, !.crashes = 1]
Rejected == [Load(1, 1, 1, {"i1"}, 2) EXCEPT !.records = {"Rejected"}, !.reports = 1, !.crashes = 1]

\* Two with a principal_state call.
ReadBeside == [Load(2, 0, 1, {"i1", "i2"}, 2) EXCEPT !.reads = 1]

\* Records that expire: an id used again after its record was reclaimed, before and
\* after a restart; an index that is full.
Reused == [Load(2, 1, 2, {"i1"}, 2) EXCEPT !.records = {"Answered"}, !.reports = 1, !.time = 1,
                                           !.crashes = 1]
Full == [Load(1, 0, 1, {"i1", "i2"}, 3) EXCEPT !.entries = 1, !.time = 1]

MCWorkloads ==
    {ThreeSubmits, TwoPrincipals, Restarted, Refused, Rejected, ReadBeside, Reused, Full}

\* Two submissions with room for both to wait.
TwoSubmits == {Load(1, 1, 2, {"i1", "i2"}, 2)}
============================================================================

---------------------------- MODULE DurableLog ----------------------------
(* What an event store promises its callers: one append-only sequence of    *)
(* events with unique ids, a receipt only for an event that is in it, and   *)
(* never a record lost, reordered or rewritten - crashes included.          *)
EXTENDS Integers, Sequences, FiniteSets

CONSTANTS Events,     \* the requests callers may append, records with fields id and session
          Initial      \* the logs a store may be opened on

VARIABLES log,        \* the committed events, oldest first
          acked       \* the receipts returned so far: <<event id, session sequence>>

vars == <<log, acked>>

\* The session sequence of the event at position i: its rank in its session.
SequenceAt(l, i) == Cardinality({j \in 1..i : l[j].session = l[i].session})

Init == log \in Initial /\ acked = {}

Append1(e) ==
    /\ \A i \in 1..Len(log) : log[i].id # e.id
    /\ log' = Append(log, e)

\* A caller learns its sequence in the step that commits the event, or later.
Acknowledge ==
    \/ acked' = acked
    \/ \E i \in 1..Len(log') : acked' = acked \cup {<<log'[i].id, SequenceAt(log', i)>>}

Next == (log' = log \/ \E e \in Events : Append1(e)) /\ Acknowledge

Spec == Init /\ [][Next]_vars
============================================================================

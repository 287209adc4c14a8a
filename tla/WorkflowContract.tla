--------------------------- MODULE WorkflowContract ---------------------------
(***************************************************************************)
(* What a workflow run promises its callers, apart from any table: it is   *)
(* "Absent" until create_run puts it in the run table; then its epoch      *)
(* counts its moves, it can always be cancelled until it has settled, only *)
(* a running run completes or parks, a parked one has to run again before  *)
(* anything else happens to it (an agent may also fail it or hand it to    *)
(* the user), and a settled one never moves.                               *)
(***************************************************************************)
EXTENDS Naturals

VARIABLE view

Settled == {"Completed", "Failed", "Cancelled"}
Parked == {"Paused", "WaitingUser", "WaitingAgent"}

ViewInit == view = [state |-> "Absent", epoch |-> 0]

Insert == view.state = "Absent" /\ view' = [state |-> "Created", epoch |-> 0]

MayMove(state, target) ==
  \/ target = "Cancelled"
  \/ target = "Running" /\ state # "Running"
  \/ state = "Running" /\ target \in Parked \cup Settled
  \/ state = "WaitingAgent" /\ target \in {"WaitingUser", "Failed"}

Move(target) ==
  /\ view.state \notin Settled \cup {"Absent"}
  /\ MayMove(view.state, target)
  /\ view' = [state |-> target, epoch |-> view.epoch + 1]

ViewNext == Insert \/ \E target \in {"Running"} \cup Parked \cup Settled : Move(target)

RunContract == ViewInit /\ [][ViewNext]_view
=============================================================================

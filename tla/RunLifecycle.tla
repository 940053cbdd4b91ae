---------------------------- MODULE RunLifecycle ----------------------------
(***************************************************************************)
(* What the run registry promises its callers about one run, seen through  *)
(* GET /runs/{request_id}: a status and the fencing token of the execution *)
(* it belongs to.  RunState and _TERMINAL_STATES are those of              *)
(* src/src/service/run_registry.py.                                        *)
(***************************************************************************)
EXTENDS Naturals

CONSTANT Requests

VARIABLES status, fence

Open     == {"queued", "running", "waiting_for_input"}
Verdicts == {"completed", "failed", "cancelled", "timed_out"}

Init ==
  /\ status = [r \in Requests |-> "absent"]
  /\ fence = [r \in Requests |-> 0]

\* A request is accepted once.
Accept(r) ==
  /\ status[r] = "absent"
  /\ status' = [status EXCEPT ![r] = "queued"]
  /\ fence' = [fence EXCEPT ![r] = 1]

\* The execution in charge gets a slot.
Begin(r) ==
  /\ status[r] = "queued"
  /\ status' = [status EXCEPT ![r] = "running"]
  /\ UNCHANGED fence

\* A new execution takes the place of one that lost its lease, or continues the
\* run with a human's answer.
Supersede(r) ==
  /\ status[r] \in Open
  /\ status' = [status EXCEPT ![r] = "queued"]
  /\ fence' = [fence EXCEPT ![r] = @ + 1]

Suspend(r) ==
  /\ status[r] = "running"
  /\ status' = [status EXCEPT ![r] = "waiting_for_input"]
  /\ UNCHANGED fence

\* The execution in charge decides the run; only one that ran can complete it.
Decide(r) ==
  /\ status[r] \in Open
  /\ \E v \in Verdicts :
       /\ v = "completed" => status[r] = "running"
       /\ v = "timed_out" => status[r] # "queued"
       /\ status' = [status EXCEPT ![r] = v]
  /\ UNCHANGED fence

\* A user's cancellation decides the run over the head of its execution.
Abort(r) ==
  /\ status[r] \in Open
  /\ status' = [status EXCEPT ![r] = "cancelled"]
  /\ fence' = [fence EXCEPT ![r] = @ + 1]

Next ==
  \E r \in Requests :
    Accept(r) \/ Begin(r) \/ Supersede(r) \/ Suspend(r) \/ Decide(r) \/ Abort(r)

Spec == Init /\ [][Next]_<<status, fence>>

=============================================================================

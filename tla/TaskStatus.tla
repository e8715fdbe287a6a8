----------------------------- MODULE TaskStatus -----------------------------
(***************************************************************************)
(* What the platform promises about the status column of an agent task,    *)
(* whoever writes it: the state diagram of docs/phase5-multi-agent-        *)
(* orchestration.md for tasks that are not nodes of a workflow.            *)
(*                                                                         *)
(* TaskLifecycle, the specification of the queue, the workers and the API  *)
(* that really write the column, is shown to implement this one.           *)
(***************************************************************************)
CONSTANT Tasks

VARIABLE status     \* agent_tasks.status, "absent" before the row exists

Queued   == {"pending", "retrying"}
Terminal == {"succeeded", "failed", "cancelled"}
Statuses == {"absent", "running"} \cup Queued \cup Terminal

(* A queued task may be refused (the Agent is not active), cancelled, or   *)
(* claimed; a running one finishes or goes back to the queue; a terminal   *)
(* status is never left.                                                   *)
Edges == ({"absent"} \X {"pending"})
           \cup (Queued \X {"running", "failed", "cancelled"})
           \cup ({"running"} \X ({"retrying"} \cup Terminal))

Init == status = [t \in Tasks |-> "absent"]

(* One transaction may move several tasks (recovery does), each along an   *)
(* edge of the diagram.                                                    *)
Next == \A t \in Tasks : \/ status'[t] = status[t]
                         \/ <<status[t], status'[t]>> \in Edges

(* No submitted task is forgotten.                                         *)
Progress == \A t \in Tasks : status[t] # "absent" ~> status[t] \in Terminal

SafeSpec == Init /\ [][Next]_status
Spec == SafeSpec /\ Progress
=============================================================================

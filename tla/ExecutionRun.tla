----------------------------- MODULE ExecutionRun -----------------------------
(***************************************************************************)
(* One execution from the request to the last row about it                 *)
(* (backend/app/api/agents.py): _prepare_agent_execution collects what the *)
(* prompt is built from, execute_agent_sync or stream_prepared_agent runs  *)
(* it, _complete_execution stores the outcome, and every stage leaves a    *)
(* row (backend/app/repositories/executions.py).  stop_execution           *)
(* (backend/app/api/executions.py) may cut in between any two of them.     *)
(*                                                                         *)
(* A step is one transaction, one command to Redis or one answer of a      *)
(* service.  No row is locked, so that what a request has read may have    *)
(* changed when it writes; an assignment that does not change the value    *)
(* which was read is not written at all.  The execution belongs to no      *)
(* task: TaskLifecycle follows those that do.                              *)
(*                                                                         *)
(* Operators whose name ends in "Bug" are variants of the operator that    *)
(* follows them, with a mistake somebody could make in that code.          *)
(***************************************************************************)
EXTENDS Naturals

CONSTANTS
  Stops    \* requests to stop the execution

VARIABLES
  at,        \* the stage the run is in, or where it ends
  exec,      \* the status of the execution
  sess,      \* and of its session
  steps,     \* the status of the row of each stage
  token,     \* the token for capabilities
  recorded,  \* the execution names the token in its details
  turn,      \* the memory of the session has the turn
  verdict,   \* what the run makes of the rows that are still running
  mine,      \* the rows it has found running
  stop,      \* per request: where it stands
  knows,     \* it has read the name of the token
  seen,      \* the status of the session it has read
  found      \* the rows it has found running

run    == <<at, verdict, mine>>
rows   == <<exec, sess>>
access == <<token, recorded>>
asked  == <<stop, knows, seen, found>>
executionVars == <<run, rows, steps, access, turn, asked>>

-----------------------------------------------------------------------------
(* The stages that have a row, in their order; "details" has none.         *)
Prepared == {"request", "input", "memory", "skill", "mcp", "knowledge"}
Stages   == Prepared \cup {"recall", "prompt", "runtime", "trace", "output", "calls", "artifact"}

After ==
  [request |-> "input", input |-> "memory", memory |-> "skill", skill |-> "mcp",
   mcp |-> "knowledge", knowledge |-> "recall", recall |-> "details", prompt |-> "runtime",
   trace |-> "output", output |-> "append", calls |-> "artifact", artifact |-> "done"]

(* How the row of a stage may end; a stage that had nothing to do, and     *)
(* says "skipped", counts as a success.  A runtime may report the start of *)
(* a tool call or of a turn, which is then a row of its own.               *)
Ends(s) ==
  CASE s = "calls" -> {"succeeded", "failed"}
    [] s = "trace" -> {"succeeded", "failed", "cancelled", "running"}
    [] OTHER       -> {"succeeded"}

(* There may be none: no sources to recall, no events, no calls.           *)
Optional == {"recall", "trace", "calls"}

(* What can raise before its row is written.                               *)
Fallible == {"memory", "skill", "mcp", "knowledge", "prompt", "output"}

Running == {s \in Stages : steps[s] = "running"}

Init ==
  /\ at = "new" /\ verdict = "none" /\ mine = {}
  /\ exec = "none" /\ sess = "none"
  /\ steps = [s \in Stages |-> "absent"]
  /\ token = "none" /\ recorded = FALSE
  /\ turn = FALSE
  /\ stop = [r \in Stops |-> "idle"]
  /\ knows = [r \in Stops |-> FALSE]
  /\ seen = [r \in Stops |-> "none"]
  /\ found = [r \in Stops |-> {}]

Goto(to) == at' = to /\ UNCHANGED <<verdict, mine>>

(* Both rows, in one transaction.                                          *)
Both(status) == exec' = status /\ sess' = status

-----------------------------------------------------------------------------
(* Preparation: the rows of the execution and of its session ...           *)
Create ==
  /\ at = "new"
  /\ Both("running")
  /\ Goto("resolving")
  /\ UNCHANGED <<steps, access, turn, asked>>

(* ... and its token, if it may use capabilities.                          *)
Resolve ==
  /\ at = "resolving"
  /\ token' \in {"none", "issued"}
  /\ Goto("request")
  /\ UNCHANGED <<rows, steps, recorded, turn, asked>>

(* The preflight has issues, or the gateway is switched off.               *)
Unresolved ==
  /\ at = "resolving"
  /\ Goto("failing")
  /\ UNCHANGED <<rows, steps, access, turn, asked>>

(* start_step and finish_step, two transactions of record_step: a stop may *)
(* have closed the row in between, and it is closed again.                 *)
StartStep ==
  /\ at \in DOMAIN After /\ steps[at] = "absent"
  /\ steps' = [steps EXCEPT ![at] = "running"]
  /\ UNCHANGED <<run, rows, access, turn, asked>>

FinishStep ==
  /\ at \in DOMAIN After /\ steps[at] # "absent"
  /\ \E status \in Ends(at) : steps' = [steps EXCEPT ![at] = status]
  /\ Goto(After[at])
  /\ UNCHANGED <<rows, access, turn, asked>>

SkipStep ==
  /\ at \in Optional /\ steps[at] = "absent"
  /\ Goto(After[at])
  /\ UNCHANGED <<rows, steps, access, turn, asked>>

(* The input does not follow its schema, which its row says.               *)
InputInvalid ==
  /\ at = "input" /\ steps[at] # "absent"
  /\ steps' = [steps EXCEPT ![at] = "failed"]
  /\ Goto("failing")
  /\ UNCHANGED <<rows, access, turn, asked>>

(* Memory, a Skill, a required tool or the knowledge service is not there, *)
(* the prompt cannot be built, or the output does not follow its schema.   *)
StageFails ==
  /\ at \in Fallible /\ steps[at] = "absent"
  /\ Goto("failing")
  /\ UNCHANGED <<rows, steps, access, turn, asked>>

RecordDetails ==
  /\ at = "details"
  /\ recorded' = (token = "issued")
  /\ Goto("prompt")
  /\ UNCHANGED <<rows, steps, token, turn, asked>>

-----------------------------------------------------------------------------
(* The run.  Its row is opened first and closed when the runtime returns.  *)
StartRuntime ==
  /\ at = "runtime"
  /\ steps' = [steps EXCEPT !["runtime"] = "running"]
  /\ Goto("routing")
  /\ UNCHANGED <<rows, access, turn, asked>>

Route ==
  /\ at = "routing"
  /\ Goto("running")
  /\ UNCHANGED <<rows, steps, access, turn, asked>>

RuntimeReturns ==
  /\ at = "running"
  /\ steps' = [steps EXCEPT !["runtime"] = "succeeded"]
  /\ Goto("trace")
  /\ UNCHANGED <<rows, access, turn, asked>>

RuntimeFails ==
  /\ at \in {"routing", "running"}
  /\ Goto("failing")
  /\ UNCHANGED <<rows, steps, access, turn, asked>>

RuntimeCancelled ==
  /\ at = "running"
  /\ Goto("cancelling")
  /\ UNCHANGED <<rows, steps, access, turn, asked>>

AppendTurn ==
  /\ at = "append"
  /\ turn' = TRUE
  /\ Goto("completing")
  /\ UNCHANGED <<rows, steps, access, asked>>

(* A command that fails may have been carried out.                         *)
AppendFails ==
  /\ at = "append"
  /\ turn' \in BOOLEAN
  /\ Goto("failing")
  /\ UNCHANGED <<rows, steps, access, asked>>

-----------------------------------------------------------------------------
(* _complete_execution reads the execution again ...                       *)
ReadOutcome ==
  /\ at = "completing"
  /\ Goto(IF exec = "cancelled" THEN "cancelling" ELSE "storing")
  /\ UNCHANGED <<rows, steps, access, turn, asked>>

(* ... and, when the artifacts are stored, writes it.                      *)
Store ==
  /\ at = "storing"
  /\ Both("succeeded")
  /\ Goto("calls")
  /\ UNCHANGED <<steps, access, turn, asked>>

(* They are not: _fail_execution writes the pending "succeeded" before it  *)
(* reads, keeps the row until it has written "failed" and sees no stop.    *)
StoreFails ==
  /\ at = "storing"
  /\ Both("failed")
  /\ at' = "cleaning" /\ verdict' = "failed" /\ UNCHANGED mine
  /\ UNCHANGED <<steps, access, turn, asked>>

(* An artifact of a type the Agent may not produce, or a file that cannot  *)
(* be written: nobody catches that, and nothing is written.                *)
StoreRaises ==
  /\ at = "storing"
  /\ Goto("raised")
  /\ UNCHANGED <<rows, steps, access, turn, asked>>

-----------------------------------------------------------------------------
(* _fail_execution.  A stop that came before leaves only the rows to close.*)
CancelledBefore ==
  /\ at = "failing" /\ exec = "cancelled"
  /\ at' = "cleaning" /\ verdict' = "cancelled" /\ UNCHANGED mine
  /\ UNCHANGED <<rows, steps, access, turn, asked>>

ReadFailure ==
  /\ at = "failing" /\ exec # "cancelled"
  /\ Goto("failed")
  /\ UNCHANGED <<rows, steps, access, turn, asked>>

WriteFailure ==
  /\ at = "failed"
  /\ Both("failed")
  /\ at' = "cleaning" /\ verdict' = "failed" /\ UNCHANGED mine
  /\ UNCHANGED <<steps, access, turn, asked>>

(* _cancel_execution, with what it reads in the same breath.               *)
WriteCancel ==
  /\ at = "cancelling"
  /\ Both("cancelled")
  /\ Goto("revoking")
  /\ UNCHANGED <<steps, access, turn, asked>>

Revoke ==
  /\ at = "revoking"
  /\ token' = IF recorded THEN "revoked" ELSE token
  /\ at' = "cleaning" /\ verdict' = "cancelled" /\ UNCHANGED mine
  /\ UNCHANGED <<rows, steps, recorded, turn, asked>>

(* Redis is not there, and the rows are left as they are.                  *)
RevokeRaises ==
  /\ at = "revoking" /\ recorded
  /\ Goto("raised")
  /\ UNCHANGED <<rows, steps, access, turn, asked>>

(* fail_running_steps and cancel_running_steps.                            *)
FindRunning ==
  /\ at = "cleaning"
  /\ mine' = Running
  /\ at' = "closing"
  /\ UNCHANGED <<verdict, rows, steps, access, turn, asked>>

CloseRunningBug ==
  /\ at = "closing"
  /\ steps' = [s \in Stages |-> IF s \in mine /\ verdict = "failed" THEN verdict ELSE steps[s]]
  /\ Goto("over")
  /\ UNCHANGED <<rows, access, turn, asked>>

CloseRunning ==
  /\ at = "closing"
  /\ steps' = [s \in Stages |-> IF s \in mine THEN verdict ELSE steps[s]]
  /\ Goto("over")
  /\ UNCHANGED <<rows, access, turn, asked>>

(* The client of a stream leaves, whatever is done already.                *)
Disconnect ==
  /\ at \in {"routing", "running", "trace", "output", "append", "completing", "storing",
             "calls", "artifact"}
  /\ Goto("failing")
  /\ UNCHANGED <<rows, steps, access, turn, asked>>

(* The process dies, or the stream is never started.                       *)
Die ==
  /\ at \notin {"new", "done", "over", "raised", "dead"}
  /\ Goto("dead")
  /\ UNCHANGED <<rows, steps, access, turn, asked>>

-----------------------------------------------------------------------------
(* stop_execution: it reads the execution, which has to be running ...     *)
MoveStop(r, from, to) == stop[r] = from /\ stop' = [stop EXCEPT ![r] = to]

Ask(r) ==
  /\ MoveStop(r, "idle", "asked")
  /\ exec = "running"
  /\ knows' = [knows EXCEPT ![r] = recorded]
  /\ UNCHANGED <<run, rows, steps, access, turn, seen, found>>

(* ... then its session (selectinload) ...                                 *)
ReadSession(r) ==
  /\ MoveStop(r, "asked", "telling")
  /\ seen' = [seen EXCEPT ![r] = sess]
  /\ UNCHANGED <<run, rows, steps, access, turn, knows, found>>

(* ... tells the runtime, which may not take it: the user may try again ...*)
RuntimeRefuses(r) ==
  /\ MoveStop(r, "telling", "idle")
  /\ UNCHANGED <<run, rows, steps, access, turn, knows, seen, found>>

WriteStopBug(r) ==
  /\ MoveStop(r, "telling", "revoking")
  /\ exec' = "cancelled"
  /\ UNCHANGED <<run, sess, steps, access, turn, knows, seen, found>>

(* ... and writes both rows, with what it has read long before.            *)
WriteStop(r) ==
  /\ MoveStop(r, "telling", "revoking")
  /\ exec' = "cancelled"
  /\ sess' = IF seen[r] = "cancelled" THEN sess ELSE "cancelled"
  /\ UNCHANGED <<run, steps, access, turn, knows, seen, found>>

RevokeStopped(r) ==
  /\ MoveStop(r, "revoking", "finding")
  /\ token' = IF knows[r] THEN "revoked" ELSE token
  /\ UNCHANGED <<run, rows, steps, recorded, turn, knows, seen, found>>

RevokeStoppedRaises(r) ==
  /\ knows[r]
  /\ MoveStop(r, "revoking", "over")
  /\ UNCHANGED <<run, rows, steps, access, turn, knows, seen, found>>

FindStopped(r) ==
  /\ MoveStop(r, "finding", "closing")
  /\ found' = [found EXCEPT ![r] = Running]
  /\ UNCHANGED <<run, rows, steps, access, turn, knows, seen>>

CloseStopped(r) ==
  /\ MoveStop(r, "closing", "over")
  /\ steps' = [s \in Stages |-> IF s \in found[r] THEN "cancelled" ELSE steps[s]]
  /\ UNCHANGED <<run, rows, access, turn, knows, seen, found>>

-----------------------------------------------------------------------------
Prepare   == Create \/ Resolve \/ Unresolved \/ InputInvalid \/ StageFails \/ RecordDetails
Record    == StartStep \/ FinishStep \/ SkipStep
Execute   == StartRuntime \/ Route \/ RuntimeReturns \/ RuntimeFails \/ RuntimeCancelled
Remember  == AppendTurn \/ AppendFails
Complete  == ReadOutcome \/ Store \/ StoreFails \/ StoreRaises
Fail      == CancelledBefore \/ ReadFailure \/ WriteFailure
Cancel    == WriteCancel \/ Revoke \/ RevokeRaises
Clean     == FindRunning \/ CloseRunning
StopExecution(r) ==
  \/ Ask(r) \/ ReadSession(r) \/ RuntimeRefuses(r) \/ WriteStop(r)
  \/ RevokeStopped(r) \/ RevokeStoppedRaises(r) \/ FindStopped(r) \/ CloseStopped(r)

Next ==
  \/ Prepare \/ Record \/ Execute \/ Remember \/ Complete \/ Fail \/ Cancel \/ Clean
  \/ Disconnect \/ Die
  \/ \E r \in Stops : StopExecution(r)

Spec == Init /\ [][Next]_executionVars

-----------------------------------------------------------------------------
(* Correctness.                                                            *)

(* The execution and its session tell the same story at every moment,      *)
(* whatever stops, failures and successes race for the rows, unless two    *)
(* requests to stop overlap: one that read the execution before, and the   *)
(* session after, the other wrote them both does not write the session     *)
(* again when a failure has come in between (executions.py:200-237).       *)
VerdictsAgree ==
  (\A r, q \in Stops : stop[r] # "idle" /\ stop[q] # "idle" => r = q) => exec = sess

(* A run that is over leaves no execution and no row running: the rows a   *)
(* stop has closed stay closed or are closed by the run, and a stop that   *)
(* came too early does not leave those that were opened after it.  After a *)
(* success, what a runtime reported as begun stays so (agents.py:1461-1492,*)
(* 1377-1424).                                                             *)
NothingLeftRunning ==
  /\ at = "over" => exec # "running" /\ Running = {}
  /\ at = "done" => exec # "running" /\ Running \subseteq {"trace"}

(* An execution is a success only once its turn is in the memory and every *)
(* row up to the output is there and none of them failed (agents.py:       *)
(* 389-462, 1179-1278).                                                    *)
SuccessIsWhole ==
  exec = "succeeded" =>
    /\ turn
    /\ \A s \in Prepared \cup {"prompt", "runtime", "output"} :
         steps[s] \in {"succeeded", "cancelled"}
=============================================================================

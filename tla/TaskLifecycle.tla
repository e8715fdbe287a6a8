--------------------------- MODULE TaskLifecycle ---------------------------
(***************************************************************************)
(* The life of an agent task: the API that submits, cancels and stops it   *)
(* (backend/app/api/orchestration.py, backend/app/api/executions.py), the  *)
(* Redis queue that carries its identifier (backend/app/task_queue.py) and *)
(* the worker processes that claim, run, retry and recover it              *)
(* (backend/app/worker.py, with the parts of backend/app/api/agents.py     *)
(* that write the session and the execution row while the task runs).      *)
(*                                                                         *)
(* A task owns three rows, each with a status of its own: agent_tasks,     *)
(* agent_sessions and execution_logs.  A step of the model is one database *)
(* transaction, one Redis command or one answer of the runtime: whatever   *)
(* the code does between two awaits that matter to somebody else.  What a  *)
(* coroutine read before an await and still uses after it is part of its   *)
(* program counter.                                                        *)
(*                                                                         *)
(* Left out: the contents of inputs, outputs, errors and trace steps,      *)
(* worker_id (written, never read), priorities (any queued task may be     *)
(* popped here, so the results hold for every order), and result messages. *)
(***************************************************************************)
EXTENDS Integers, FiniteSets

CONSTANTS
  Tasks,        \* task identifiers
  Procs,        \* worker processes (one container in docker-compose.yml)
  Slots,        \* WORKER_CONCURRENCY consumers in each process
  MaxAttempts,  \* TASK_MAX_ATTEMPTS
  MaxFaults,    \* how many infrastructure faults a behaviour may contain
  Faults,       \* which kinds of trouble the environment may cause
  NoTask        \* a consumer that holds no task

(* "crash": a worker or API process dies.  "lost": Redis answers with an   *)
(* error, whether or not it did the work.  "stop": somebody calls the stop *)
(* endpoint.  "slow": a run may outlive TASK_STALE_SECONDS (600 by default *)
(* where DEEPSEEK_RUNTIME_TIMEOUT_SECONDS is 900).                         *)
FaultKinds == {"crash", "lost", "stop", "slow"}

ASSUME AttemptsAssumption == MaxAttempts \in Nat \ {0}
ASSUME FaultsAssumption == MaxFaults \in Nat /\ Faults \subseteq FaultKinds
ASSUME NoTaskAssumption == NoTask \notin Tasks

VARIABLES
  task,      \* agent_tasks.status; "absent" before the row is inserted
  attempt,   \* agent_tasks.attempt
  sess,      \* agent_sessions.status of the task's session
  exec,      \* execution_logs.status of the task's execution
  expired,   \* agent_tasks.started_at < now - TASK_STALE_SECONDS
  queue,     \* the Redis sorted set
  submit,    \* the request that submits the task
  stopper,   \* the request that stops the task's execution
  stopSent,  \* the runtime was asked to stop the execution's run
  pc, cur,   \* per consumer: where it is in _consume/_execute, and its task
  up,        \* the process runs its consumers
  rec,       \* per process: where its _recover is
  verdict,   \* what _recover decided for the stale tasks it read
  todo,      \* the queued tasks _recover still has to enqueue
  faults     \* faults so far

rows == <<task, attempt, sess, exec, expired>>
api  == <<submit, stopper, stopSent>>
cons == <<pc, cur>>
reco == <<up, rec, verdict, todo>>
vars == <<rows, queue, api, cons, reco, faults>>

-----------------------------------------------------------------------------
Workers == Procs \X Slots
Proc(w) == w[1]

Queued       == {"pending", "retrying"}
Terminal     == {"succeeded", "failed", "cancelled"}
TaskStatuses == {"absent", "running"} \cup Queued \cup Terminal
RowStatuses  == {"absent", "queued", "running"} \cup Terminal
Verdicts     == {"none", "succeeded", "retrying", "failed"}

(* Between the transaction that claims a task and the one that settles its *)
(* outcome, a consumer executes it.                                        *)
Executing == {"running", "completing", "aborting", "finishing", "failing", "cancelling"}
PCs == {"idle", "popped", "requeue"} \cup Executing

Busy(t) == \E w \in Workers : pc[w] \in Executing /\ cur[w] = t

TypeOK ==
  /\ task \in [Tasks -> TaskStatuses]
  /\ attempt \in [Tasks -> Nat]
  /\ sess \in [Tasks -> RowStatuses]
  /\ exec \in [Tasks -> RowStatuses]
  /\ expired \in [Tasks -> BOOLEAN]
  /\ queue \subseteq Tasks
  /\ submit \in [Tasks -> {"new", "created", "refused", "done"}]
  /\ stopper \in [Tasks -> {"idle", "stopping"}]
  /\ stopSent \in [Tasks -> BOOLEAN]
  /\ pc \in [Workers -> PCs]
  /\ cur \in [Workers -> Tasks \cup {NoTask}]
  /\ \A w \in Workers : pc[w] = "idle" \/ cur[w] \in Tasks
  /\ up \in [Procs -> BOOLEAN]
  /\ rec \in [Procs -> {"down", "idle", "scanned", "listing", "enqueuing"}]
  /\ verdict \in [Procs -> [Tasks -> Verdicts]]
  /\ todo \in [Procs -> SUBSET Tasks]
  /\ faults \in 0..MaxFaults

NoVerdict == [t \in Tasks |-> "none"]

Init ==
  /\ task = [t \in Tasks |-> "absent"]
  /\ attempt = [t \in Tasks |-> 0]
  /\ sess = [t \in Tasks |-> "absent"]
  /\ exec = [t \in Tasks |-> "absent"]
  /\ expired = [t \in Tasks |-> FALSE]
  /\ queue = {}
  /\ submit = [t \in Tasks |-> "new"]
  /\ stopper = [t \in Tasks |-> "idle"]
  /\ stopSent = [t \in Tasks |-> FALSE]
  /\ pc = [w \in Workers |-> "idle"]
  /\ cur = [w \in Workers |-> NoTask]
  /\ up = [p \in Procs |-> FALSE]
  /\ rec = [p \in Procs |-> "down"]
  /\ verdict = [p \in Procs |-> NoVerdict]
  /\ todo = [p \in Procs |-> {}]
  /\ faults = 0

-----------------------------------------------------------------------------
(* Operators whose name ends in "Bug" are variants of the operator that    *)
(* follows them, with a mistake somebody could make in that code; no       *)
(* specification uses them.  PROJECT.json names the property that catches  *)
(* each of them.                                                           *)

(* Writing the three rows in one transaction.                              *)
SetRows(t, ts, ss, es) ==
  /\ task' = [task EXCEPT ![t] = ts]
  /\ sess' = [sess EXCEPT ![t] = ss]
  /\ exec' = [exec EXCEPT ![t] = es]

SetRun(t, ss, es) ==
  /\ sess' = [sess EXCEPT ![t] = ss]
  /\ exec' = [exec EXCEPT ![t] = es]
  /\ UNCHANGED task

Fault(kind) ==
  /\ kind \in Faults
  /\ faults < MaxFaults
  /\ faults' = faults + 1

(* _execute and _recover count attempts the same way.                      *)
MayRetryBug(t) == attempt[t] <= MaxAttempts
MayRetryAlwaysBug(t) == TRUE
MayRetry(t) == attempt[t] < MaxAttempts

(* The statuses a consumer may claim, _execute's first test.               *)
ClaimableBug(t) == task[t] # "succeeded"
Claimable(t) == task[t] \in Queued

(* What the failure handler finds when it locks the task again.            *)
Cancelled(t) == task[t] = "cancelled"

(* pending_tasks: what recovery puts back into the queue.                  *)
PendingTasksBug == {t \in Tasks : task[t] = "pending"}
PendingTasks == {t \in Tasks : task[t] \in Queued}

(* A Redis write that answers with an error may have been applied or not.  *)
MaybeApplied(q) == queue' \in {queue, q}

-----------------------------------------------------------------------------
(* The API.                                                                *)

CreateTask(t) ==
  /\ submit[t] = "new"
  /\ submit' = [submit EXCEPT ![t] = "created"]
  /\ SetRows(t, "pending", "queued", "queued")
  /\ UNCHANGED <<attempt, expired, queue, stopper, stopSent, cons, reco, faults>>

(* submit_task: the rows are committed, the queue comes after.             *)
SubmitTask(t) == CreateTask(t)

(* retry_execution: a task of its own for a source that is not active.     *)
RetryExecution(s, t) ==
  /\ submit[s] # "new" /\ exec[s] \notin {"queued", "running"}
  /\ CreateTask(t)

SubmitEnqueue(t) ==
  /\ submit[t] = "created"
  /\ submit' = [submit EXCEPT ![t] = "done"]
  /\ queue' = queue \cup {t}
  /\ UNCHANGED <<rows, stopper, stopSent, cons, reco, faults>>

SubmitEnqueueError(t) ==
  /\ submit[t] = "created"
  /\ Fault("lost")
  /\ submit' = [submit EXCEPT ![t] = "refused"]
  /\ MaybeApplied(queue \cup {t})
  /\ UNCHANGED <<rows, stopper, stopSent, cons, reco>>

(* The handler of TaskQueueError writes "failed" over whatever is there.   *)
SubmitRefuse(t) ==
  /\ submit[t] = "refused"
  /\ submit' = [submit EXCEPT ![t] = "done"]
  /\ SetRows(t, "failed", "failed", "failed")
  /\ UNCHANGED <<attempt, expired, queue, stopper, stopSent, cons, reco, faults>>

(* The API process dies between the commit and the queue.                  *)
SubmitCrash(t) ==
  /\ submit[t] \in {"created", "refused"}
  /\ Fault("crash")
  /\ submit' = [submit EXCEPT ![t] = "done"]
  /\ UNCHANGED <<rows, queue, stopper, stopSent, cons, reco>>

(* cancel_task holds the row lock over the check, the queue and the write. *)
CancelTask(t) ==
  /\ task[t] \in Queued
  /\ queue' = queue \ {t}
  /\ SetRows(t, "cancelled", "cancelled", "cancelled")
  /\ UNCHANGED <<attempt, expired, api, cons, reco, faults>>

CancelTaskError(t) ==
  /\ task[t] \in Queued
  /\ Fault("lost")
  /\ MaybeApplied(queue \ {t})
  /\ UNCHANGED <<rows, api, cons, reco>>

(* stop_execution reads the execution, then awaits the runtime ...         *)
StopExecution(t) ==
  /\ "stop" \in Faults
  /\ stopper[t] = "idle" /\ exec[t] = "running"
  /\ stopper' = [stopper EXCEPT ![t] = "stopping"]
  /\ stopSent' = [stopSent EXCEPT ![t] = TRUE]
  /\ UNCHANGED <<rows, queue, submit, cons, reco, faults>>

(* ... which may refuse, or the request dies ...                           *)
StopFailed(t) ==
  /\ stopper[t] = "stopping"
  /\ stopper' = [stopper EXCEPT ![t] = "idle"]
  /\ UNCHANGED <<rows, queue, submit, stopSent, cons, reco, faults>>

(* ... and writes without looking at the execution again.                  *)
StopCommit(t) ==
  /\ stopper[t] = "stopping"
  /\ stopper' = [stopper EXCEPT ![t] = "idle"]
  /\ SetRows(t, IF task[t] \in Queued \cup {"running"} THEN "cancelled" ELSE task[t],
             "cancelled", "cancelled")
  /\ UNCHANGED <<attempt, expired, queue, submit, stopSent, cons, reco, faults>>

-----------------------------------------------------------------------------
(* A consumer of a worker process.                                         *)

Goto(w, l) == pc' = [pc EXCEPT ![w] = l] /\ UNCHANGED cur
Release(w) == /\ pc' = [pc EXCEPT ![w] = "idle"]
              /\ cur' = [cur EXCEPT ![w] = NoTask]

Dequeue(w) ==
  /\ pc[w] = "idle" /\ up[Proc(w)]
  /\ \E t \in queue : /\ queue' = queue \ {t}
                      /\ cur' = [cur EXCEPT ![w] = t]
  /\ pc' = [pc EXCEPT ![w] = "popped"]
  /\ UNCHANGED <<rows, api, reco, faults>>

(* The element is popped and the reply does not arrive.                    *)
DequeueError(w) ==
  /\ pc[w] = "idle" /\ up[Proc(w)]
  /\ Fault("lost")
  /\ \E t \in queue : queue' = queue \ {t}
  /\ UNCHANGED <<rows, api, cons, reco>>

(* _execute under the row lock: the task is not queued any more.           *)
ClaimSkip(w) ==
  /\ pc[w] = "popped" /\ ~Claimable(cur[w])
  /\ Release(w)
  /\ UNCHANGED <<rows, queue, api, reco, faults>>

(* Its session succeeded in an attempt that was given up on.               *)
ClaimSucceeded(w) ==
  /\ pc[w] = "popped" /\ Claimable(cur[w]) /\ sess[cur[w]] = "succeeded"
  /\ task' = [task EXCEPT ![cur[w]] = "succeeded"]
  /\ Release(w)
  /\ UNCHANGED <<attempt, sess, exec, expired, queue, api, reco, faults>>

(* Its Agent is gone or not active: _terminal_failure.                     *)
ClaimUnavailable(w) ==
  /\ pc[w] = "popped" /\ Claimable(cur[w]) /\ sess[cur[w]] # "succeeded"
  /\ SetRows(cur[w], "failed", "failed", "failed")
  /\ Release(w)
  /\ UNCHANGED <<attempt, expired, queue, api, reco, faults>>

Claim(w) ==
  /\ pc[w] = "popped" /\ Claimable(cur[w]) /\ sess[cur[w]] # "succeeded"
  /\ SetRows(cur[w], "running", "running", "running")
  /\ attempt' = [attempt EXCEPT ![cur[w]] = @ + 1]
  /\ expired' = [expired EXCEPT ![cur[w]] = FALSE]
  /\ Goto(w, "running")
  /\ UNCHANGED <<queue, api, reco, faults>>

(* What happens before the runtime is called happens soon after the claim. *)
Starting(w) == pc[w] = "running" /\ ~expired[cur[w]]

(* The Agent version is gone or unusable: _terminal_failure on the rows as *)
(* they were when the task was claimed.                                    *)
VersionUnavailable(w) ==
  /\ Starting(w)
  /\ SetRows(cur[w], "failed", "failed", "failed")
  /\ Release(w)
  /\ UNCHANGED <<attempt, expired, queue, api, reco, faults>>

(* _prepare_agent_execution cannot create the workspace.                   *)
PrepareFailed(w) ==
  /\ Starting(w)
  /\ SetRun(cur[w], "failed", exec[cur[w]])
  /\ Goto(w, "failing")
  /\ UNCHANGED <<attempt, expired, queue, api, reco, faults>>

(* An exception execute_agent_sync does not translate: rolled back.        *)
RunRaised(w) ==
  /\ pc[w] \in {"running", "completing"}
  /\ Goto(w, "failing")
  /\ UNCHANGED <<rows, queue, api, reco, faults>>

(* Preparation, the runtime, the output check or the memory failed, and    *)
(* _fail_execution reads the execution: a cancelled one is left alone ...  *)
RunFailed(w) ==
  /\ pc[w] = "running"
  /\ Goto(w, IF exec[cur[w]] = "cancelled" THEN "failing" ELSE "aborting")
  /\ UNCHANGED <<rows, queue, api, reco, faults>>

(* ... any other is failed with its session.                               *)
FailExecution(w) ==
  /\ pc[w] = "aborting"
  /\ SetRun(cur[w], "failed", "failed")
  /\ Goto(w, "failing")
  /\ UNCHANGED <<attempt, expired, queue, api, reco, faults>>

(* The runtime reports that the run was cancelled: _cancel_execution.      *)
RunCancelled(w) ==
  /\ pc[w] = "running" /\ stopSent[cur[w]]
  /\ stopSent' = [stopSent EXCEPT ![cur[w]] = FALSE]
  /\ SetRun(cur[w], "cancelled", "cancelled")
  /\ Goto(w, "cancelling")
  /\ UNCHANGED <<attempt, expired, queue, submit, stopper, reco, faults>>

(* The runtime returns an output and _complete_execution reads the         *)
(* execution: a cancelled one ends in _cancel_execution.                   *)
RunReturned(w) ==
  /\ pc[w] = "running" /\ exec[cur[w]] # "cancelled"
  /\ Goto(w, "completing")
  /\ UNCHANGED <<rows, queue, api, reco, faults>>

RunReturnedCancelled(w) ==
  /\ pc[w] = "running" /\ exec[cur[w]] = "cancelled"
  /\ SetRun(cur[w], "cancelled", "cancelled")
  /\ Goto(w, "cancelling")
  /\ UNCHANGED <<attempt, expired, queue, api, reco, faults>>

(* The artifacts are stored and the outcome is committed ...               *)
CompleteExecution(w) ==
  /\ pc[w] = "completing"
  /\ SetRun(cur[w], "succeeded", "succeeded")
  /\ Goto(w, "finishing")
  /\ UNCHANGED <<attempt, expired, queue, api, reco, faults>>

(* ... or the storage is down: _fail_execution flushes the pending         *)
(* "succeeded" before it reads, so it never sees a cancelled execution.    *)
ArtifactFailed(w) ==
  /\ pc[w] = "completing"
  /\ SetRun(cur[w], "failed", "failed")
  /\ Goto(w, "failing")
  /\ UNCHANGED <<attempt, expired, queue, api, reco, faults>>

(* The worker's own copy of the task still says "running": refresh() loads *)
(* only the session, so the test for "cancelled" never holds.              *)
FinishTask(w) ==
  /\ pc[w] = "finishing"
  /\ task' = [task EXCEPT ![cur[w]] = "succeeded"]
  /\ Release(w)
  /\ UNCHANGED <<attempt, sess, exec, expired, queue, api, reco, faults>>

(* The failure handler of _execute locks and reads the task again.         *)
HandlerSkip(w) ==
  /\ pc[w] \in {"failing", "cancelling"} /\ Cancelled(cur[w])
  /\ Release(w)
  /\ UNCHANGED <<rows, queue, api, reco, faults>>

HandlerCancel(w) ==
  /\ pc[w] = "cancelling" /\ ~Cancelled(cur[w])
  /\ SetRows(cur[w], "cancelled", "cancelled", exec[cur[w]])
  /\ Release(w)
  /\ UNCHANGED <<attempt, expired, queue, api, reco, faults>>

HandlerRetryBug(w) ==
  /\ pc[w] = "failing" /\ ~Cancelled(cur[w])
  /\ MayRetry(cur[w])
  /\ SetRows(cur[w], "retrying", "queued", exec[cur[w]])
  /\ Goto(w, "requeue")
  /\ UNCHANGED <<attempt, expired, queue, api, reco, faults>>

HandlerRetry(w) ==
  /\ pc[w] = "failing" /\ ~Cancelled(cur[w])
  /\ MayRetry(cur[w])
  /\ SetRows(cur[w], "retrying", "queued", "queued")
  /\ Goto(w, "requeue")
  /\ UNCHANGED <<attempt, expired, queue, api, reco, faults>>

HandlerFail(w) ==
  /\ pc[w] = "failing" /\ ~Cancelled(cur[w])
  /\ ~MayRetry(cur[w])
  /\ SetRows(cur[w], "failed", "failed", "failed")
  /\ Release(w)
  /\ UNCHANGED <<attempt, expired, queue, api, reco, faults>>

(* After TASK_RETRY_DELAY_SECONDS.                                         *)
Requeue(w) ==
  /\ pc[w] = "requeue"
  /\ queue' = queue \cup {cur[w]}
  /\ Release(w)
  /\ UNCHANGED <<rows, api, reco, faults>>

RequeueError(w) ==
  /\ pc[w] = "requeue"
  /\ Fault("lost")
  /\ MaybeApplied(queue \cup {cur[w]})
  /\ Release(w)
  /\ UNCHANGED <<rows, api, reco>>

-----------------------------------------------------------------------------
(* A worker process and its recovery, run at start and then periodically.  *)

Start(p) ==
  /\ rec[p] = "down"
  /\ rec' = [rec EXCEPT ![p] = "idle"]
  /\ UNCHANGED <<rows, queue, api, cons, up, verdict, todo, faults>>

(* SIGKILL, or SIGTERM: run() cancels every consumer where it awaits.      *)
Crash(p) ==
  /\ rec[p] # "down"
  /\ Fault("crash")
  /\ rec' = [rec EXCEPT ![p] = "down"]
  /\ up' = [up EXCEPT ![p] = FALSE]
  /\ verdict' = [verdict EXCEPT ![p] = NoVerdict]
  /\ todo' = [todo EXCEPT ![p] = {}]
  /\ pc' = [w \in Workers |-> IF Proc(w) = p THEN "idle" ELSE pc[w]]
  /\ cur' = [w \in Workers |-> IF Proc(w) = p THEN NoTask ELSE cur[w]]
  /\ UNCHANGED <<rows, queue, api>>

(* Time passes.  Unless runs may be slow, TASK_STALE_SECONDS is longer     *)
(* than any run, so only the task of a consumer that died gets stale.      *)
Expire(t) ==
  /\ task[t] = "running" /\ ~expired[t]
  /\ "slow" \in Faults \/ ~Busy(t)
  /\ expired' = [expired EXCEPT ![t] = TRUE]
  /\ UNCHANGED <<task, attempt, sess, exec, queue, api, cons, reco, faults>>

(* stale_running_tasks.                                                    *)
StaleBug(t) == task[t] = "running"
Stale(t) == task[t] = "running" /\ expired[t]

(* What _recover makes of a task of stale_running_tasks.                   *)
Judge(t) ==
  IF ~Stale(t) THEN "none"
  ELSE IF sess[t] = "succeeded" THEN "succeeded"
  ELSE IF MayRetry(t) THEN "retrying" ELSE "failed"

(* The stale tasks are read without a lock ...                             *)
RecoverScan(p) ==
  /\ rec[p] = "idle"
  /\ rec' = [rec EXCEPT ![p] = "scanned"]
  /\ verdict' = [verdict EXCEPT ![p] = [t \in Tasks |-> Judge(t)]]
  /\ UNCHANGED <<rows, queue, api, cons, up, todo, faults>>

(* ... and all of them written in one transaction.                         *)
RecoverCommit(p) ==
  LET v == verdict[p]
      Row(t, r) == CASE v[t] = "retrying" -> "queued"
                     [] v[t] = "failed"   -> "failed"
                     [] OTHER             -> r[t]
  IN  /\ rec[p] = "scanned"
      /\ rec' = [rec EXCEPT ![p] = "listing"]
      /\ task' = [t \in Tasks |-> IF v[t] = "none" THEN task[t] ELSE v[t]]
      /\ sess' = [t \in Tasks |-> Row(t, sess)]
      /\ exec' = [t \in Tasks |-> Row(t, exec)]
      /\ verdict' = [verdict EXCEPT ![p] = NoVerdict]
      /\ UNCHANGED <<attempt, expired, queue, api, cons, up, todo, faults>>

RecoverList(p) ==
  /\ rec[p] = "listing"
  /\ rec' = [rec EXCEPT ![p] = "enqueuing"]
  /\ todo' = [todo EXCEPT ![p] = PendingTasks]
  /\ UNCHANGED <<rows, queue, api, cons, up, verdict, faults>>

RecoverEnqueue(p) ==
  /\ rec[p] = "enqueuing"
  /\ \E t \in todo[p] : /\ queue' = queue \cup {t}
                        /\ todo' = [todo EXCEPT ![p] = @ \ {t}]
  /\ UNCHANGED <<rows, api, cons, up, rec, verdict, faults>>

(* The first recovery lets the consumers in.                               *)
RecoverDone(p) ==
  /\ rec[p] = "enqueuing" /\ todo[p] = {}
  /\ rec' = [rec EXCEPT ![p] = "idle"]
  /\ up' = [up EXCEPT ![p] = TRUE]
  /\ UNCHANGED <<rows, queue, api, cons, verdict, todo, faults>>

(* A queue error ends this round; at start it ends the process.            *)
RecoverError(p) ==
  /\ rec[p] = "enqueuing" /\ todo[p] # {}
  /\ Fault("lost")
  /\ rec' = [rec EXCEPT ![p] = IF up[p] THEN "idle" ELSE "down"]
  /\ todo' = [todo EXCEPT ![p] = {}]
  /\ UNCHANGED <<rows, queue, api, cons, up, verdict>>

-----------------------------------------------------------------------------
ApiStep(t) ==
  \/ SubmitTask(t) \/ SubmitEnqueue(t) \/ SubmitEnqueueError(t)
  \/ SubmitRefuse(t) \/ SubmitCrash(t)
  \/ \E s \in Tasks : RetryExecution(s, t)
  \/ CancelTask(t) \/ CancelTaskError(t)
  \/ StopExecution(t) \/ StopFailed(t) \/ StopCommit(t)

(* What a consumer does once it holds a task.                              *)
ExecuteStep(w) ==
  \/ ClaimSkip(w) \/ ClaimSucceeded(w) \/ ClaimUnavailable(w) \/ Claim(w)
  \/ VersionUnavailable(w) \/ PrepareFailed(w) \/ RunRaised(w)
  \/ RunFailed(w) \/ FailExecution(w) \/ RunCancelled(w)
  \/ RunReturned(w) \/ RunReturnedCancelled(w)
  \/ CompleteExecution(w) \/ ArtifactFailed(w) \/ FinishTask(w)
  \/ HandlerSkip(w) \/ HandlerCancel(w) \/ HandlerRetry(w) \/ HandlerFail(w)
  \/ Requeue(w) \/ RequeueError(w)

RecoverStep(p) ==
  \/ RecoverScan(p) \/ RecoverCommit(p) \/ RecoverList(p)
  \/ RecoverEnqueue(p) \/ RecoverDone(p)

Next ==
  \/ \E t \in Tasks : ApiStep(t) \/ Expire(t)
  \/ \E w \in Workers : Dequeue(w) \/ DequeueError(w) \/ ExecuteStep(w)
  \/ \E p \in Procs : Start(p) \/ Crash(p) \/ RecoverStep(p) \/ RecoverError(p)

Spec == Init /\ [][Next]_vars

(* Requests end, consumers and recovery keep running, time passes and the  *)
(* container is restarted ("restart: unless-stopped").  Nobody has to      *)
(* submit, cancel or stop anything.                                        *)
Fairness ==
  /\ \A t \in Tasks : /\ WF_vars(SubmitEnqueue(t)) /\ WF_vars(SubmitRefuse(t))
                      /\ WF_vars(StopFailed(t) \/ StopCommit(t))
                      /\ WF_vars(Expire(t))
  /\ \A w \in Workers : WF_vars(Dequeue(w)) /\ WF_vars(ExecuteStep(w))
  /\ \A p \in Procs : WF_vars(Start(p)) /\ WF_vars(RecoverStep(p))

FairSpec == Spec /\ Fairness
-----------------------------------------------------------------------------
(* Properties.                                                             *)

(* At most one consumer executes a task: the row lock of _execute and the  *)
(* lease of _recover never give a task to a second consumer while the      *)
(* first is between its claim and its outcome (worker.py:80-107, 257-288). *)
(* It holds for one worker process whose runs end before the lease.        *)
SingleExecution ==
  \A v, w \in Workers :
    pc[v] \in Executing /\ pc[w] \in Executing /\ cur[v] = cur[w] => v = w

(* A task is never attempted more often than max_attempts, across failures *)
(* handled by the consumer and leases expired by _recover, which test the  *)
(* counter at different moments (worker.py:178, 267).                      *)
AttemptBound == \A t \in Tasks : attempt[t] <= MaxAttempts

(* Why both hold: a task is claimed from the queue only, and nobody puts   *)
(* it back there, with an attempt to spare, while a consumer executes it.  *)
Lease ==
  \A t \in Tasks :
    /\ submit[t] = "new" => task[t] = "absent"
    /\ task[t] = "absent" => attempt[t] = 0
    /\ Busy(t) => task[t] \notin Queued \cup {"absent"}
    /\ expired[t] => ~Busy(t)
    /\ task[t] \in Queued => attempt[t] < MaxAttempts
    /\ \A p \in Procs :
         /\ verdict[p][t] # "none" => task[t] \notin Queued \cup {"absent"} /\ ~Busy(t)
         /\ verdict[p][t] = "retrying" => attempt[t] < MaxAttempts

(* With slow runs or several processes the verdict of a _recover can be    *)
(* older than a claim: each process can grant one attempt too many, never  *)
(* more (worker.py:259-288).                                               *)
AttemptOverrun == \A t \in Tasks : attempt[t] <= MaxAttempts + Cardinality(Procs)

(* Nobody is about to write the rows of t.                                 *)
Quiet(t) == /\ ~Busy(t)
            /\ submit[t] # "refused" /\ stopper[t] = "idle"

(* The three rows of a task tell the same story whenever nobody is at work *)
(* on it: a settled task has a session and an execution settled the same   *)
(* way, a queued one has both queued, although they are written in         *)
(* different transactions by different functions.                          *)
StatusAgreement ==
  \A t \in Tasks : Quiet(t) =>
    /\ task[t] \in Terminal => sess[t] = task[t] /\ exec[t] = task[t]
    /\ task[t] \in Queued => sess[t] = "queued" /\ exec[t] = "queued"

(* docs/phase5-pi-runtime-deployment.md:68-69: stopping an execution marks *)
(* Execution, Session and Task cancelled together.                         *)
StopUniform ==
  \A t \in Tasks : Quiet(t) /\ exec[t] = "cancelled" =>
    sess[t] = "cancelled" /\ task[t] = "cancelled"

(* The status column follows the documented diagram, and a settled status  *)
(* is final.                                                               *)
Promise == INSTANCE TaskStatus WITH status <- task
KeepsPromise == Promise!SafeSpec

(* Every submitted task is settled for good in the end, whatever crashes,  *)
(* gets lost or is stopped on the way: a task outside the queue comes back *)
(* through _recover (worker.py:257-299), and no two writers undo each      *)
(* other's outcome for ever.                                               *)
EveryTaskSettles ==
  \A t \in Tasks : task[t] # "absent" ~> [](task[t] \in Terminal)
=============================================================================

------------------------ MODULE TaskLifecycleProofs ------------------------
(***************************************************************************)
(* What holds of TaskLifecycle for any number of tasks, consumers, retries *)
(* and faults, by induction on its steps.                                  *)
(***************************************************************************)
EXTENDS TaskLifecycle, FiniteSetTheorems, TLAPS

(* Every variable keeps its type.                                          *)
LEMMA TypeInit == Init => TypeOK
  BY AttemptsAssumption, FaultsAssumption, NoTaskAssumption
  DEF Init, TypeOK, TaskStatuses, RowStatuses, Queued, Terminal, PCs, Executing,
      NoVerdict, Verdicts

LEMMA TypeStep == TypeOK /\ [Next]_vars => TypeOK'
<1> SUFFICES ASSUME TypeOK, [Next]_vars PROVE TypeOK'
  OBVIOUS
<1> USE AttemptsAssumption, FaultsAssumption
    DEF TypeOK, TaskStatuses, RowStatuses, Queued, Terminal, PCs, Executing, Verdicts,
        rows, api, cons, reco, SetRows, SetRun, Fault, MaybeApplied, Goto, Release
<1>1. ASSUME NEW t \in Tasks, ApiStep(t) \/ Expire(t) PROVE TypeOK'
  <2>1. CASE SubmitTask(t)
    BY <2>1 DEF SubmitTask, CreateTask
  <2>2. CASE SubmitEnqueue(t)
    BY <2>2 DEF SubmitEnqueue
  <2>3. CASE SubmitEnqueueError(t)
    BY <2>3 DEF SubmitEnqueueError
  <2>4. CASE SubmitRefuse(t)
    BY <2>4 DEF SubmitRefuse
  <2>5. CASE SubmitCrash(t)
    BY <2>5 DEF SubmitCrash
  <2>6. ASSUME NEW s \in Tasks, RetryExecution(s, t) PROVE TypeOK'
    BY <2>6 DEF RetryExecution, CreateTask
  <2>7. CASE CancelTask(t)
    BY <2>7 DEF CancelTask
  <2>8. CASE CancelTaskError(t)
    BY <2>8 DEF CancelTaskError
  <2>9. CASE StopExecution(t)
    BY <2>9 DEF StopExecution
  <2>10. CASE StopFailed(t)
    BY <2>10 DEF StopFailed
  <2>11. CASE StopCommit(t)
    BY <2>11 DEF StopCommit
  <2>12. CASE Expire(t)
    BY <2>12 DEF Expire
  <2> QED
    BY <1>1, <2>1, <2>2, <2>3, <2>4, <2>5, <2>6, <2>7, <2>8, <2>9, <2>10, <2>11, <2>12 DEF ApiStep
<1>2. ASSUME NEW w \in Workers, Dequeue(w) \/ DequeueError(w) \/ ExecuteStep(w) PROVE TypeOK'
  <2>1. CASE Dequeue(w)
    BY <2>1 DEF Dequeue
  <2>2. CASE DequeueError(w)
    BY <2>2 DEF DequeueError
  <2>3. CASE ClaimSkip(w)
    BY <2>3 DEF ClaimSkip
  <2>4. CASE ClaimSucceeded(w)
    BY <2>4 DEF ClaimSucceeded
  <2>5. CASE ClaimUnavailable(w)
    BY <2>5 DEF ClaimUnavailable
  <2>6. CASE Claim(w)
    BY <2>6 DEF Claim
  <2>7. CASE VersionUnavailable(w)
    BY <2>7 DEF VersionUnavailable, Starting
  <2>8. CASE PrepareFailed(w)
    BY <2>8 DEF PrepareFailed, Starting
  <2>9. CASE RunRaised(w)
    BY <2>9 DEF RunRaised
  <2>10. CASE RunFailed(w)
    BY <2>10 DEF RunFailed
  <2>11. CASE FailExecution(w)
    BY <2>11 DEF FailExecution
  <2>12. CASE RunCancelled(w)
    BY <2>12 DEF RunCancelled
  <2>13. CASE RunReturned(w)
    BY <2>13 DEF RunReturned
  <2>14. CASE RunReturnedCancelled(w)
    BY <2>14 DEF RunReturnedCancelled
  <2>15. CASE CompleteExecution(w)
    BY <2>15 DEF CompleteExecution
  <2>16. CASE ArtifactFailed(w)
    BY <2>16 DEF ArtifactFailed
  <2>17. CASE FinishTask(w)
    BY <2>17 DEF FinishTask
  <2>18. CASE HandlerSkip(w)
    BY <2>18 DEF HandlerSkip
  <2>19. CASE HandlerCancel(w)
    BY <2>19 DEF HandlerCancel
  <2>20. CASE HandlerRetry(w)
    BY <2>20 DEF HandlerRetry
  <2>21. CASE HandlerFail(w)
    BY <2>21 DEF HandlerFail
  <2>22. CASE Requeue(w)
    BY <2>22 DEF Requeue
  <2>23. CASE RequeueError(w)
    BY <2>23 DEF RequeueError
  <2> QED
    BY <1>2, <2>1, <2>2, <2>3, <2>4, <2>5, <2>6, <2>7, <2>8, <2>9, <2>10, <2>11, <2>12, <2>13, <2>14, <2>15, <2>16, <2>17, <2>18, <2>19, <2>20, <2>21, <2>22, <2>23 DEF ExecuteStep
<1>3. ASSUME NEW p \in Procs, Start(p) \/ Crash(p) \/ RecoverStep(p) \/ RecoverError(p) PROVE TypeOK'
  <2>1. CASE Start(p)
    BY <2>1 DEF Start
  <2>2. CASE Crash(p)
    <3>1. verdict' \in [Procs -> [Tasks -> Verdicts]] /\ todo' \in [Procs -> SUBSET Tasks]
      BY <2>2 DEF Crash, NoVerdict
    <3>2. /\ pc' \in [Workers -> PCs] /\ cur' \in [Workers -> Tasks \cup {NoTask}]
          /\ \A w \in Workers : pc'[w] = "idle" \/ cur'[w] \in Tasks
      BY <2>2 DEF Crash
    <3> QED
      BY <2>2, <3>1, <3>2 DEF Crash
  <2>3. CASE RecoverScan(p)
    <3>1. [t \in Tasks |-> Judge(t)] \in [Tasks -> Verdicts]
      BY DEF Judge
    <3> QED
      BY <2>3, <3>1 DEF RecoverScan
  <2>4. CASE RecoverCommit(p)
    <3>1. verdict[p] \in [Tasks -> Verdicts]
      OBVIOUS
    <3>2. task' \in [Tasks -> TaskStatuses]
      BY <2>4, <3>1 DEF RecoverCommit
    <3>3. sess' \in [Tasks -> RowStatuses] /\ exec' \in [Tasks -> RowStatuses]
      BY <2>4, <3>1 DEF RecoverCommit
    <3>4. verdict' \in [Procs -> [Tasks -> Verdicts]]
      BY <2>4 DEF RecoverCommit, NoVerdict
    <3> QED
      BY <2>4, <3>2, <3>3, <3>4 DEF RecoverCommit
  <2>5. CASE RecoverList(p)
    BY <2>5 DEF RecoverList, PendingTasks
  <2>6. CASE RecoverEnqueue(p)
    BY <2>6 DEF RecoverEnqueue
  <2>7. CASE RecoverDone(p)
    BY <2>7 DEF RecoverDone
  <2>8. CASE RecoverError(p)
    BY <2>8 DEF RecoverError
  <2> QED
    BY <1>3, <2>1, <2>2, <2>3, <2>4, <2>5, <2>6, <2>7, <2>8 DEF RecoverStep
<1>4. CASE UNCHANGED vars
  BY <1>4 DEF vars
<1> QED
  BY <1>1, <1>2, <1>3, <1>4 DEF Next

THEOREM TypeCorrect == Spec => []TypeOK
<1>1. Init => TypeOK
  BY TypeInit
<1>2. TypeOK /\ [Next]_vars => TypeOK'
  BY TypeStep
<1> QED
  BY <1>1, <1>2, PTL DEF Spec

(* The conditions under which a task is executed by one consumer at a      *)
(* time: the one process of docker-compose.yml, and runs that end before   *)
(* TASK_STALE_SECONDS.                                                     *)
OneProcess == \A p, q \in Procs : p = q
RunsEndInTime == "slow" \notin Faults

Safe == SingleExecution /\ AttemptBound /\ Lease

LEMMA SafeInit == Init => Safe
  BY AttemptsAssumption
  DEF Init, Safe, SingleExecution, AttemptBound, Lease, Busy, Queued, Executing, NoVerdict

LEMMA SafeStep ==
  ASSUME OneProcess, RunsEndInTime, TypeOK, Safe, [Next]_vars
  PROVE  Safe'
<1> USE AttemptsAssumption
    DEF OneProcess, RunsEndInTime, TypeOK, Safe, SingleExecution, AttemptBound, Lease, Busy, Queued, Executing,
        rows, api, cons, reco, SetRows, SetRun, Goto, Release
<1>1. ASSUME NEW t \in Tasks, ApiStep(t) \/ Expire(t) PROVE Safe'
  <2>1. CASE SubmitTask(t)
    BY <2>1 DEF SubmitTask, CreateTask
  <2>2. CASE SubmitEnqueue(t)
    BY <2>2 DEF SubmitEnqueue
  <2>3. CASE SubmitEnqueueError(t)
    BY <2>3 DEF SubmitEnqueueError, MaybeApplied
  <2>4. CASE SubmitRefuse(t)
    BY <2>4 DEF SubmitRefuse
  <2>5. CASE SubmitCrash(t)
    BY <2>5 DEF SubmitCrash
  <2>6. ASSUME NEW s \in Tasks, RetryExecution(s, t) PROVE Safe'
    BY <2>6 DEF RetryExecution, CreateTask
  <2>7. CASE CancelTask(t)
    BY <2>7 DEF CancelTask
  <2>8. CASE CancelTaskError(t)
    BY <2>8 DEF CancelTaskError
  <2>9. CASE StopExecution(t)
    BY <2>9 DEF StopExecution
  <2>10. CASE StopFailed(t)
    BY <2>10 DEF StopFailed
  <2>11. CASE StopCommit(t)
    BY <2>11 DEF StopCommit
  <2>12. CASE Expire(t)
    BY <2>12 DEF Expire
  <2> QED
    BY <1>1, <2>1, <2>2, <2>3, <2>4, <2>5, <2>6, <2>7, <2>8, <2>9, <2>10, <2>11, <2>12 DEF ApiStep
<1>2. ASSUME NEW w \in Workers, Dequeue(w) \/ DequeueError(w) \/ ExecuteStep(w) PROVE Safe'
  <2>1. CASE Dequeue(w)
    BY <2>1 DEF Dequeue
  <2>2. CASE DequeueError(w)
    BY <2>2 DEF DequeueError
  <2>3. CASE ClaimSkip(w)
    BY <2>3 DEF ClaimSkip
  <2>4. CASE ClaimSucceeded(w)
    BY <2>4 DEF ClaimSucceeded, Claimable
  <2>5. CASE ClaimUnavailable(w)
    BY <2>5 DEF ClaimUnavailable, Claimable
  <2>6. CASE Claim(w)
    BY <2>6 DEF Claim, Claimable
  <2>7. CASE VersionUnavailable(w)
    BY <2>7 DEF VersionUnavailable, Starting
  <2>8. CASE PrepareFailed(w)
    BY <2>8 DEF PrepareFailed, Starting
  <2>9. CASE RunRaised(w)
    BY <2>9 DEF RunRaised
  <2>10. CASE RunFailed(w)
    BY <2>10 DEF RunFailed
  <2>11. CASE FailExecution(w)
    BY <2>11 DEF FailExecution
  <2>12. CASE RunCancelled(w)
    BY <2>12 DEF RunCancelled
  <2>13. CASE RunReturned(w)
    BY <2>13 DEF RunReturned
  <2>14. CASE RunReturnedCancelled(w)
    BY <2>14 DEF RunReturnedCancelled
  <2>15. CASE CompleteExecution(w)
    BY <2>15 DEF CompleteExecution
  <2>16. CASE ArtifactFailed(w)
    BY <2>16 DEF ArtifactFailed
  <2>17. CASE FinishTask(w)
    BY <2>17 DEF FinishTask
  <2>18. CASE HandlerSkip(w)
    BY <2>18 DEF HandlerSkip
  <2>19. CASE HandlerCancel(w)
    BY <2>19 DEF HandlerCancel
  <2>20. CASE HandlerRetry(w)
    BY <2>20 DEF HandlerRetry, MayRetry
  <2>21. CASE HandlerFail(w)
    BY <2>21 DEF HandlerFail
  <2>22. CASE Requeue(w)
    BY <2>22 DEF Requeue
  <2>23. CASE RequeueError(w)
    BY <2>23 DEF RequeueError
  <2> QED
    BY <1>2, <2>1, <2>2, <2>3, <2>4, <2>5, <2>6, <2>7, <2>8, <2>9, <2>10, <2>11, <2>12, <2>13, <2>14, <2>15, <2>16, <2>17, <2>18, <2>19, <2>20, <2>21, <2>22, <2>23 DEF ExecuteStep
<1>3. ASSUME NEW p \in Procs, Start(p) \/ Crash(p) \/ RecoverStep(p) \/ RecoverError(p) PROVE Safe'
  <2>1. CASE Start(p)
    BY <2>1 DEF Start
  <2>2. CASE Crash(p)
    <3>1. \A w \in Workers : pc'[w] \in Executing => pc'[w] = pc[w] /\ cur'[w] = cur[w]
      BY <2>2 DEF Crash
    <3>2. \A u \in Tasks : Busy(u)' => Busy(u)
      BY <3>1
    <3>3. \A q \in Procs, u \in Tasks : verdict'[q][u] \in {verdict[q][u], "none"}
      BY <2>2 DEF Crash, NoVerdict
    <3>4. SingleExecution'
      BY <3>1
    <3> QED
      BY <2>2, <3>2, <3>3, <3>4 DEF Crash
  <2>3. CASE RecoverScan(p)
    <3>0. verdict'[p] = [u \in Tasks |-> Judge(u)]
      BY <2>3 DEF RecoverScan
    <3>1. ASSUME NEW q \in Procs, NEW u \in Tasks PROVE verdict'[q][u] = Judge(u)
      <4>1. q = p
        OBVIOUS
      <4> QED
        BY <4>1, <3>0
    <3>2. \A u \in Tasks : Judge(u) # "none" => task[u] = "running" /\ expired[u]
      BY DEF Judge, Stale, MayRetry
    <3>3. \A u \in Tasks : Judge(u) = "retrying" => attempt[u] < MaxAttempts
      BY DEF Judge, MayRetry
    <3>4. UNCHANGED <<task, attempt, expired, submit, pc, cur>>
      BY <2>3 DEF RecoverScan
    <3> QED
      BY <3>1, <3>2, <3>3, <3>4
  <2>4. CASE RecoverCommit(p)
    <3>1. \A u \in Tasks : task'[u] = IF verdict[p][u] = "none" THEN task[u] ELSE verdict[p][u]
      BY <2>4 DEF RecoverCommit
    <3>2. \A q \in Procs, u \in Tasks : verdict'[q][u] = "none"
      BY <2>4 DEF RecoverCommit, NoVerdict
    <3>3. UNCHANGED <<attempt, expired, submit, pc, cur>>
      BY <2>4 DEF RecoverCommit
    <3>4. \A u \in Tasks : verdict[p][u] \in Verdicts
      OBVIOUS
    <3> QED
      BY <3>1, <3>2, <3>3, <3>4, SMTT(30) DEF Verdicts
  <2>5. CASE RecoverList(p)
    BY <2>5 DEF RecoverList
  <2>6. CASE RecoverEnqueue(p)
    BY <2>6 DEF RecoverEnqueue
  <2>7. CASE RecoverDone(p)
    BY <2>7 DEF RecoverDone
  <2>8. CASE RecoverError(p)
    BY <2>8 DEF RecoverError
  <2> QED
    BY <1>3, <2>1, <2>2, <2>3, <2>4, <2>5, <2>6, <2>7, <2>8 DEF RecoverStep
<1>4. CASE UNCHANGED vars
  BY <1>4 DEF vars
<1> QED
  BY <1>1, <1>2, <1>3, <1>4 DEF Next

(* A task is executed by one consumer at a time and never attempted more   *)
(* often than max_attempts (worker.py:80-107, 178, 257-288), whatever      *)
(* crashes, gets lost or is stopped, as long as there is one process whose *)
(* runs end before the lease.                                              *)
THEOREM LeaseIsExclusive ==
  ASSUME OneProcess, RunsEndInTime
  PROVE  Spec => [](SingleExecution /\ AttemptBound)
<1>1. Init => TypeOK /\ Safe
  BY TypeInit, SafeInit
<1>2. TypeOK /\ Safe /\ [Next]_vars => (TypeOK /\ Safe)'
  BY TypeStep, SafeStep
<1>3. TypeOK /\ Safe => SingleExecution /\ AttemptBound
  BY DEF Safe
<1> QED
  BY <1>1, <1>2, <1>3, PTL DEF Spec

(* Without lost replies and stopped executions nobody but the consumer     *)
(* that executes a task, and recovery after it died, touches the rows of a *)
(* running task.                                                           *)
Undisturbed == Faults \subseteq {"crash"}

Calm ==
  \A t \in Tasks :
    /\ submit[t] # "refused" /\ stopper[t] = "idle"
    /\ Busy(t) => task[t] = "running"
    /\ task[t] \in Queued => sess[t] = "queued"
    /\ \A p \in Procs : verdict[p][t] # "none" => task[t] = "running"

LEMMA CalmInit == Init => Calm
  BY DEF Init, Calm, Busy, Queued, Executing, NoVerdict

(* The moves of the diagram of TaskStatus.                                 *)
Moves == \A t \in Tasks : \/ task'[t] = task[t]
                         \/ <<task[t], task'[t]>> \in Promise!Edges

LEMMA EdgesAre ==
  ASSUME NEW x, NEW y,
         \/ x = "absent" /\ y = "pending"
         \/ x \in Queued /\ y \in {"running", "failed", "cancelled"}
         \/ x = "running" /\ y \in {"retrying"} \cup Terminal
  PROVE  <<x, y>> \in Promise!Edges
  BY DEF Queued, Terminal, Promise!Edges, Promise!Queued, Promise!Terminal

LEMMA CalmStep ==
  ASSUME OneProcess, Undisturbed, TypeOK, Safe, Calm, [Next]_vars
  PROVE  Calm' /\ Moves
<1> USE EdgesAre
    DEF OneProcess, Undisturbed, TypeOK, Safe, SingleExecution, Lease, Calm, Moves, Busy,
        Queued, Terminal, Executing, rows, api, cons, reco, SetRows, SetRun, Goto, Release
<1>1. ASSUME NEW t \in Tasks, ApiStep(t) \/ Expire(t) PROVE Calm' /\ Moves
  <2>1. CASE SubmitTask(t)
    BY <2>1 DEF SubmitTask, CreateTask
  <2>2. CASE SubmitEnqueue(t)
    BY <2>2 DEF SubmitEnqueue
  <2>3. CASE SubmitEnqueueError(t)
    BY <2>3 DEF SubmitEnqueueError, Fault
  <2>4. CASE SubmitRefuse(t)
    BY <2>4 DEF SubmitRefuse
  <2>5. CASE SubmitCrash(t)
    BY <2>5 DEF SubmitCrash
  <2>6. ASSUME NEW s \in Tasks, RetryExecution(s, t) PROVE Calm' /\ Moves
    BY <2>6 DEF RetryExecution, CreateTask
  <2>7. CASE CancelTask(t)
    BY <2>7 DEF CancelTask
  <2>8. CASE CancelTaskError(t)
    BY <2>8 DEF CancelTaskError
  <2>9. CASE StopExecution(t)
    BY <2>9 DEF StopExecution
  <2>10. CASE StopFailed(t)
    BY <2>10 DEF StopFailed
  <2>11. CASE StopCommit(t)
    BY <2>11 DEF StopCommit
  <2>12. CASE Expire(t)
    BY <2>12 DEF Expire
  <2> QED
    BY <1>1, <2>1, <2>2, <2>3, <2>4, <2>5, <2>6, <2>7, <2>8, <2>9, <2>10, <2>11, <2>12 DEF ApiStep
<1>2. ASSUME NEW w \in Workers, Dequeue(w) \/ DequeueError(w) \/ ExecuteStep(w) PROVE Calm' /\ Moves
  <2>1. CASE Dequeue(w)
    BY <2>1 DEF Dequeue
  <2>2. CASE DequeueError(w)
    BY <2>2 DEF DequeueError
  <2>3. CASE ClaimSkip(w)
    BY <2>3 DEF ClaimSkip
  <2>4. CASE ClaimSucceeded(w)
    BY <2>4 DEF ClaimSucceeded, Claimable
  <2>5. CASE ClaimUnavailable(w)
    BY <2>5 DEF ClaimUnavailable, Claimable
  <2>6. CASE Claim(w)
    BY <2>6 DEF Claim, Claimable
  <2>7. CASE VersionUnavailable(w)
    BY <2>7 DEF VersionUnavailable, Starting
  <2>8. CASE PrepareFailed(w)
    BY <2>8 DEF PrepareFailed, Starting
  <2>9. CASE RunRaised(w)
    BY <2>9 DEF RunRaised
  <2>10. CASE RunFailed(w)
    BY <2>10 DEF RunFailed
  <2>11. CASE FailExecution(w)
    BY <2>11 DEF FailExecution
  <2>12. CASE RunCancelled(w)
    BY <2>12 DEF RunCancelled
  <2>13. CASE RunReturned(w)
    BY <2>13 DEF RunReturned
  <2>14. CASE RunReturnedCancelled(w)
    BY <2>14 DEF RunReturnedCancelled
  <2>15. CASE CompleteExecution(w)
    BY <2>15 DEF CompleteExecution
  <2>16. CASE ArtifactFailed(w)
    BY <2>16 DEF ArtifactFailed
  <2>17. CASE FinishTask(w)
    BY <2>17 DEF FinishTask
  <2>18. CASE HandlerSkip(w)
    BY <2>18 DEF HandlerSkip
  <2>19. CASE HandlerCancel(w)
    BY <2>19 DEF HandlerCancel
  <2>20. CASE HandlerRetry(w)
    BY <2>20 DEF HandlerRetry
  <2>21. CASE HandlerFail(w)
    BY <2>21 DEF HandlerFail
  <2>22. CASE Requeue(w)
    BY <2>22 DEF Requeue
  <2>23. CASE RequeueError(w)
    BY <2>23 DEF RequeueError
  <2> QED
    BY <1>2, <2>1, <2>2, <2>3, <2>4, <2>5, <2>6, <2>7, <2>8, <2>9, <2>10, <2>11, <2>12, <2>13, <2>14, <2>15, <2>16, <2>17, <2>18, <2>19, <2>20, <2>21, <2>22, <2>23 DEF ExecuteStep
<1>3. ASSUME NEW p \in Procs, Start(p) \/ Crash(p) \/ RecoverStep(p) \/ RecoverError(p) PROVE Calm' /\ Moves
  <2>1. CASE Start(p)
    BY <2>1 DEF Start
  <2>2. CASE Crash(p)
    <3>1. \A w \in Workers : pc'[w] \in Executing => pc'[w] = pc[w] /\ cur'[w] = cur[w]
      BY <2>2 DEF Crash
    <3>2. \A u \in Tasks : Busy(u)' => Busy(u)
      BY <3>1
    <3>3. \A q \in Procs, u \in Tasks : verdict'[q][u] \in {verdict[q][u], "none"}
      BY <2>2 DEF Crash, NoVerdict
    <3>4. UNCHANGED <<task, sess, submit, stopper>>
      BY <2>2 DEF Crash
    <3> QED
      BY <3>2, <3>3, <3>4, SMTT(30)
  <2>3. CASE RecoverScan(p)
    <3>1. verdict'[p] = [u \in Tasks |-> Judge(u)]
      BY <2>3 DEF RecoverScan
    <3>2. ASSUME NEW q \in Procs, NEW u \in Tasks PROVE verdict'[q][u] = Judge(u)
      <4>1. q = p
        OBVIOUS
      <4> QED
        BY <4>1, <3>1
    <3>3. \A u \in Tasks : Judge(u) # "none" => task[u] = "running"
      BY DEF Judge, Stale, MayRetry
    <3>4. UNCHANGED <<task, sess, submit, stopper, pc, cur>>
      BY <2>3 DEF RecoverScan
    <3> QED
      BY <3>2, <3>3, <3>4
  <2>4. CASE RecoverCommit(p)
    <3>1. \A u \in Tasks : task'[u] = IF verdict[p][u] = "none" THEN task[u] ELSE verdict[p][u]
      BY <2>4 DEF RecoverCommit
    <3>2. \A q \in Procs, u \in Tasks : verdict'[q][u] = "none"
      BY <2>4 DEF RecoverCommit, NoVerdict
    <3>3. UNCHANGED <<submit, stopper, pc, cur>>
      BY <2>4 DEF RecoverCommit
    <3>4. \A u \in Tasks : verdict[p][u] \in Verdicts
      OBVIOUS
    <3>5. \A u \in Tasks : /\ verdict[p][u] = "none" => sess'[u] = sess[u]
                           /\ verdict[p][u] = "retrying" => sess'[u] = "queued"
      BY <2>4 DEF RecoverCommit
    <3>6. \A u \in Tasks : Busy(u) => verdict[p][u] = "none"
      OBVIOUS
    <3>7. Calm'
      BY <3>1, <3>2, <3>3, <3>4, <3>5, <3>6 DEF Verdicts
    <3>8. Moves
      BY <3>1, <3>4 DEF Verdicts
    <3> QED
      BY <3>7, <3>8
  <2>5. CASE RecoverList(p)
    BY <2>5 DEF RecoverList
  <2>6. CASE RecoverEnqueue(p)
    BY <2>6 DEF RecoverEnqueue
  <2>7. CASE RecoverDone(p)
    BY <2>7 DEF RecoverDone
  <2>8. CASE RecoverError(p)
    BY <2>8 DEF RecoverError
  <2> QED
    BY <1>3, <2>1, <2>2, <2>3, <2>4, <2>5, <2>6, <2>7, <2>8 DEF RecoverStep
<1>4. CASE UNCHANGED vars
  BY <1>4 DEF vars
<1> QED
  BY <1>1, <1>2, <1>3, <1>4 DEF Next

(* The status column of a task follows the documented diagram, a settled   *)
(* status being final, whatever crashes: TaskLifecycle implements          *)
(* TaskStatus (KeepsPromise).                                              *)
THEOREM CrashesKeepThePromise ==
  ASSUME OneProcess, Undisturbed
  PROVE  Spec => KeepsPromise
<1>0. RunsEndInTime
  BY DEF Undisturbed, RunsEndInTime
<1>1. Init => TypeOK /\ Safe /\ Calm
  BY TypeInit, SafeInit, CalmInit
<1>2. TypeOK /\ Safe /\ Calm /\ [Next]_vars => (TypeOK /\ Safe /\ Calm)' /\ Moves
  BY <1>0, TypeStep, SafeStep, CalmStep
<1>3. Init => Promise!Init
  BY DEF Init, Promise!Init
<1>4. Moves => [Promise!Next]_task
  BY DEF Moves, Promise!Next
<1> QED
  BY <1>1, <1>2, <1>3, <1>4, PTL DEF Spec, KeepsPromise, Promise!SafeSpec

(* What the three rows of a task say at every moment, not only when nobody *)
(* is at work on it: an outcome is written to the session and to the       *)
(* execution before it is written to the task.                             *)
Agree ==
  /\ \A t \in Tasks :
       /\ ~stopSent[t]
       /\ task[t] \in Queued => sess[t] = "queued" /\ exec[t] = "queued"
       /\ task[t] \in Terminal => sess[t] = task[t] /\ exec[t] = task[t]
       /\ task[t] = "running" => /\ exec[t] # "cancelled"
                                 /\ sess[t] = "succeeded" => exec[t] = "succeeded"
       /\ \A p \in Procs : verdict[p][t] = "succeeded" => sess[t] = "succeeded"
  /\ \A w \in Workers :
       /\ pc[w] # "cancelling"
       /\ pc[w] = "finishing" => sess[cur[w]] = "succeeded"

LEMMA AgreeInit == Init => Agree
  BY DEF Init, Agree, Queued, Terminal, NoVerdict

LEMMA AgreeStep ==
  ASSUME OneProcess, Undisturbed, TypeOK, Safe, Calm, Agree, [Next]_vars
  PROVE  Agree'
<1> USE DEF OneProcess, Undisturbed, TypeOK, Safe, SingleExecution, Lease, Calm, Agree, Busy,
        Queued, Terminal, Executing, rows, api, cons, reco, SetRows, SetRun, Goto, Release
<1>1. ASSUME NEW t \in Tasks, ApiStep(t) \/ Expire(t) PROVE Agree'
  <2>1. CASE SubmitTask(t)
    BY <2>1 DEF SubmitTask, CreateTask
  <2>2. CASE SubmitEnqueue(t)
    BY <2>2 DEF SubmitEnqueue
  <2>3. CASE SubmitEnqueueError(t)
    BY <2>3 DEF SubmitEnqueueError, Fault
  <2>4. CASE SubmitRefuse(t)
    BY <2>4 DEF SubmitRefuse
  <2>5. CASE SubmitCrash(t)
    BY <2>5 DEF SubmitCrash
  <2>6. ASSUME NEW s \in Tasks, RetryExecution(s, t) PROVE Agree'
    BY <2>6 DEF RetryExecution, CreateTask
  <2>7. CASE CancelTask(t)
    BY <2>7 DEF CancelTask
  <2>8. CASE CancelTaskError(t)
    BY <2>8 DEF CancelTaskError
  <2>9. CASE StopExecution(t)
    BY <2>9 DEF StopExecution
  <2>10. CASE StopFailed(t)
    BY <2>10 DEF StopFailed
  <2>11. CASE StopCommit(t)
    BY <2>11 DEF StopCommit
  <2>12. CASE Expire(t)
    BY <2>12 DEF Expire
  <2> QED
    BY <1>1, <2>1, <2>2, <2>3, <2>4, <2>5, <2>6, <2>7, <2>8, <2>9, <2>10, <2>11, <2>12 DEF ApiStep
<1>2. ASSUME NEW w \in Workers, Dequeue(w) \/ DequeueError(w) \/ ExecuteStep(w) PROVE Agree'
  <2>1. CASE Dequeue(w)
    BY <2>1 DEF Dequeue
  <2>2. CASE DequeueError(w)
    BY <2>2 DEF DequeueError
  <2>3. CASE ClaimSkip(w)
    BY <2>3 DEF ClaimSkip
  <2>4. CASE ClaimSucceeded(w)
    BY <2>4 DEF ClaimSucceeded, Claimable
  <2>5. CASE ClaimUnavailable(w)
    BY <2>5 DEF ClaimUnavailable, Claimable
  <2>6. CASE Claim(w)
    BY <2>6 DEF Claim, Claimable
  <2>7. CASE VersionUnavailable(w)
    BY <2>7 DEF VersionUnavailable, Starting
  <2>8. CASE PrepareFailed(w)
    BY <2>8 DEF PrepareFailed, Starting
  <2>9. CASE RunRaised(w)
    BY <2>9 DEF RunRaised
  <2>10. CASE RunFailed(w)
    BY <2>10 DEF RunFailed
  <2>11. CASE FailExecution(w)
    BY <2>11 DEF FailExecution
  <2>12. CASE RunCancelled(w)
    BY <2>12 DEF RunCancelled
  <2>13. CASE RunReturned(w)
    BY <2>13 DEF RunReturned
  <2>14. CASE RunReturnedCancelled(w)
    BY <2>14 DEF RunReturnedCancelled
  <2>15. CASE CompleteExecution(w)
    BY <2>15 DEF CompleteExecution
  <2>16. CASE ArtifactFailed(w)
    BY <2>16 DEF ArtifactFailed
  <2>17. CASE FinishTask(w)
    BY <2>17 DEF FinishTask
  <2>18. CASE HandlerSkip(w)
    BY <2>18 DEF HandlerSkip
  <2>19. CASE HandlerCancel(w)
    BY <2>19 DEF HandlerCancel
  <2>20. CASE HandlerRetry(w)
    BY <2>20 DEF HandlerRetry
  <2>21. CASE HandlerFail(w)
    BY <2>21 DEF HandlerFail
  <2>22. CASE Requeue(w)
    BY <2>22 DEF Requeue
  <2>23. CASE RequeueError(w)
    BY <2>23 DEF RequeueError
  <2> QED
    BY <1>2, <2>1, <2>2, <2>3, <2>4, <2>5, <2>6, <2>7, <2>8, <2>9, <2>10, <2>11, <2>12, <2>13, <2>14, <2>15, <2>16, <2>17, <2>18, <2>19, <2>20, <2>21, <2>22, <2>23 DEF ExecuteStep
<1>3. ASSUME NEW p \in Procs, Start(p) \/ Crash(p) \/ RecoverStep(p) \/ RecoverError(p) PROVE Agree'
  <2>1. CASE Start(p)
    BY <2>1 DEF Start
  <2>2. CASE Crash(p)
    <3>1. \A w \in Workers : pc'[w] = "idle" \/ (pc'[w] = pc[w] /\ cur'[w] = cur[w])
      BY <2>2 DEF Crash
    <3>2. \A q \in Procs, u \in Tasks : verdict'[q][u] \in {verdict[q][u], "none"}
      BY <2>2 DEF Crash, NoVerdict
    <3>3. UNCHANGED <<task, sess, exec, stopSent>>
      BY <2>2 DEF Crash
    <3> QED
      BY <3>1, <3>2, <3>3
  <2>3. CASE RecoverScan(p)
    <3>1. verdict'[p] = [u \in Tasks |-> Judge(u)]
      BY <2>3 DEF RecoverScan
    <3>2. ASSUME NEW q \in Procs, NEW u \in Tasks PROVE verdict'[q][u] = Judge(u)
      <4>1. q = p
        OBVIOUS
      <4> QED
        BY <4>1, <3>1
    <3>3. \A u \in Tasks : Judge(u) = "succeeded" => sess[u] = "succeeded"
      BY DEF Judge, MayRetry
    <3>4. UNCHANGED <<task, sess, exec, stopSent, pc, cur>>
      BY <2>3 DEF RecoverScan
    <3> QED
      BY <3>2, <3>3, <3>4
  <2>4. CASE RecoverCommit(p)
    <3>1. \A u \in Tasks : verdict[p][u] \in Verdicts
      OBVIOUS
    <3>2. \A u \in Tasks :
            /\ verdict[p][u] \in {"none", "succeeded"} => sess'[u] = sess[u] /\ exec'[u] = exec[u]
            /\ verdict[p][u] = "retrying" => sess'[u] = "queued" /\ exec'[u] = "queued"
            /\ verdict[p][u] = "failed" => sess'[u] = "failed" /\ exec'[u] = "failed"
            /\ task'[u] = IF verdict[p][u] = "none" THEN task[u] ELSE verdict[p][u]
      BY <2>4 DEF RecoverCommit
    <3>3. \A q \in Procs, u \in Tasks : verdict'[q][u] = "none"
      BY <2>4 DEF RecoverCommit, NoVerdict
    <3>4. UNCHANGED <<stopSent, pc, cur>>
      BY <2>4 DEF RecoverCommit
    <3>5. \A u \in Tasks : verdict[p][u] # "none" => task[u] = "running" /\ ~Busy(u)
      OBVIOUS
    <3>6. \A w \in Workers : pc[w] = "finishing" => Busy(cur[w]) /\ cur[w] \in Tasks
      OBVIOUS
    <3> QED
      BY <3>1, <3>2, <3>3, <3>4, <3>5, <3>6 DEF Verdicts
  <2>5. CASE RecoverList(p)
    BY <2>5 DEF RecoverList
  <2>6. CASE RecoverEnqueue(p)
    BY <2>6 DEF RecoverEnqueue
  <2>7. CASE RecoverDone(p)
    BY <2>7 DEF RecoverDone
  <2>8. CASE RecoverError(p)
    BY <2>8 DEF RecoverError
  <2> QED
    BY <1>3, <2>1, <2>2, <2>3, <2>4, <2>5, <2>6, <2>7, <2>8 DEF RecoverStep
<1>4. CASE UNCHANGED vars
  BY <1>4 DEF vars
<1> QED
  BY <1>1, <1>2, <1>3, <1>4 DEF Next

(* The task, its session and its execution are settled and queued          *)
(* together, although worker.py, agents.py and the recovery write them in  *)
(* transactions of their own, wherever a crash falls between these.        *)
THEOREM RowsAgree ==
  ASSUME OneProcess, Undisturbed
  PROVE  Spec => []StatusAgreement
<1>0. RunsEndInTime
  BY DEF Undisturbed, RunsEndInTime
<1>1. Init => TypeOK /\ Safe /\ Calm /\ Agree
  BY TypeInit, SafeInit, CalmInit, AgreeInit
<1>2. TypeOK /\ Safe /\ Calm /\ Agree /\ [Next]_vars => (TypeOK /\ Safe /\ Calm /\ Agree)'
  BY <1>0, TypeStep, SafeStep, CalmStep, AgreeStep
<1>3. Agree => StatusAgreement
  BY DEF Agree, StatusAgreement
<1> QED
  BY <1>1, <1>2, <1>3, PTL DEF Spec

-----------------------------------------------------------------------------
(* With slow runs and several processes the lease is no lease any more:    *)
(* what is left is a budget.  A task that is queued is about to take an    *)
(* attempt, and so is one that a recovery has judged and not yet written;  *)
(* each recovery has one such grant at most, and a new one is only made    *)
(* when the attempts are not used up.                                      *)
Grants(t) == {p \in Procs : verdict[p][t] = "retrying"}

Budget(t) ==
  attempt[t] + Cardinality(Grants(t)) + (IF task[t] \in Queued THEN 1 ELSE 0)
    <= MaxAttempts + Cardinality(Procs)

(* Nobody has seen a task before it is submitted.                          *)
Fresh(t) ==
  submit[t] = "new" =>
    /\ task[t] = "absent" /\ attempt[t] = 0
    /\ ~Busy(t) /\ \A p \in Procs : verdict[p][t] = "none"

(* What a step does to the budget of a task: nothing that counts; it finds *)
(* an attempt to spare; it claims the task; or it spends a grant.          *)
Spends(t) ==
  \/ /\ attempt'[t] = attempt[t] /\ Grants(t)' \subseteq Grants(t)
     /\ task'[t] \in Queued => task[t] \in Queued
  \/ attempt'[t] < MaxAttempts
  \/ /\ task[t] \in Queued /\ task'[t] \notin Queued
     /\ attempt'[t] = attempt[t] + 1 /\ Grants(t)' = Grants(t)
  \/ /\ attempt'[t] = attempt[t]
     /\ \E p \in Grants(t) : Grants(t)' = Grants(t) \ {p}

LEMMA BudgetLasts ==
  ASSUME IsFiniteSet(Procs), TypeOK, TypeOK', NEW t \in Tasks, Budget(t), Spends(t)
  PROVE  Budget(t)'
<1> DEFINE old == Cardinality(Grants(t))
           new == Cardinality(Grants(t)')
           all == Cardinality(Procs)
<1>1. Grants(t) \subseteq Procs /\ Grants(t)' \subseteq Procs
  BY DEF Grants
<1>2. IsFiniteSet(Grants(t)) /\ IsFiniteSet(Grants(t)')
  BY <1>1, FS_Subset
<1>3. old \in Nat /\ new \in Nat /\ all \in Nat /\ new <= all
  BY <1>1, <1>2, FS_CardinalityType, FS_Subset
<1>4. Grants(t)' \subseteq Grants(t) => new <= old
  BY <1>2, FS_Subset
<1>5. (\E p \in Grants(t) : Grants(t)' = Grants(t) \ {p}) => new = old - 1
  BY <1>2, FS_RemoveElement
<1>6. Grants(t)' = Grants(t) => new = old
  OBVIOUS
<1>7. attempt[t] \in Nat /\ attempt'[t] \in Nat /\ MaxAttempts \in Nat
  BY AttemptsAssumption DEF TypeOK
<1>8. attempt[t] + old + (IF task[t] \in Queued THEN 1 ELSE 0) <= MaxAttempts + all
  BY DEF Budget
<1>9. attempt'[t] + new + (IF task'[t] \in Queued THEN 1 ELSE 0) <= MaxAttempts + all
  <2>1. CASE /\ attempt'[t] = attempt[t] /\ Grants(t)' \subseteq Grants(t)
             /\ task'[t] \in Queued => task[t] \in Queued
    <3>1. new <= old
      BY <2>1, <1>4
    <3> HIDE DEF old, new, all
    <3> QED BY <2>1, <3>1, <1>3, <1>7, <1>8
  <2>2. CASE attempt'[t] < MaxAttempts
    <3> HIDE DEF old, new, all
    <3> QED BY <2>2, <1>3, <1>7
  <2>3. CASE /\ task[t] \in Queued /\ task'[t] \notin Queued
             /\ attempt'[t] = attempt[t] + 1 /\ Grants(t)' = Grants(t)
    <3>1. new = old
      BY <2>3, <1>6
    <3> HIDE DEF old, new, all
    <3> QED BY <2>3, <3>1, <1>3, <1>7, <1>8
  <2>4. CASE /\ attempt'[t] = attempt[t]
             /\ \E p \in Grants(t) : Grants(t)' = Grants(t) \ {p}
    <3>1. new = old - 1
      BY <2>4, <1>5
    <3> HIDE DEF old, new, all
    <3> QED BY <2>4, <3>1, <1>3, <1>7, <1>8
  <2> QED BY <2>1, <2>2, <2>3, <2>4 DEF Spends
<1> QED BY <1>9 DEF Budget

LEMMA BudgetInit ==
  ASSUME IsFiniteSet(Procs), Init, NEW t \in Tasks
  PROVE  Fresh(t) /\ Budget(t)
<1>1. Fresh(t)
  BY DEF Init, Fresh, Busy, Executing, NoVerdict
<1>2. attempt[t] = 0 /\ task[t] \notin Queued /\ Grants(t) = {}
  BY DEF Init, Grants, NoVerdict, Queued
<1>3. Cardinality(Grants(t)) = 0 /\ Cardinality(Procs) \in Nat
  BY <1>2, FS_EmptySet, FS_CardinalityType
<1> QED BY <1>1, <1>2, <1>3, AttemptsAssumption DEF Budget

LEMMA BudgetStep ==
  ASSUME TypeOK, \A u \in Tasks : Fresh(u), [Next]_vars
  PROVE  \A u \in Tasks : Fresh(u)' /\ Spends(u)
<1> DEFINE Goal == \A u \in Tasks : Fresh(u)' /\ Spends(u)
<1> USE AttemptsAssumption
    DEF TypeOK, Fresh, Spends, Grants, Busy, Queued, Executing,
        rows, api, cons, reco, SetRows, SetRun, Goto, Release
<1>1. ASSUME NEW t \in Tasks, ApiStep(t) \/ Expire(t) PROVE Goal
  <2>1. CASE SubmitTask(t)
    BY <2>1 DEF SubmitTask, CreateTask
  <2>2. CASE SubmitEnqueue(t)
    BY <2>2 DEF SubmitEnqueue
  <2>3. CASE SubmitEnqueueError(t)
    BY <2>3 DEF SubmitEnqueueError
  <2>4. CASE SubmitRefuse(t)
    BY <2>4 DEF SubmitRefuse
  <2>5. CASE SubmitCrash(t)
    BY <2>5 DEF SubmitCrash
  <2>6. ASSUME NEW s \in Tasks, RetryExecution(s, t) PROVE Goal
    BY <2>6 DEF RetryExecution, CreateTask
  <2>7. CASE CancelTask(t)
    BY <2>7 DEF CancelTask
  <2>8. CASE CancelTaskError(t)
    BY <2>8 DEF CancelTaskError
  <2>9. CASE StopExecution(t)
    BY <2>9 DEF StopExecution
  <2>10. CASE StopFailed(t)
    BY <2>10 DEF StopFailed
  <2>11. CASE StopCommit(t)
    BY <2>11 DEF StopCommit
  <2>12. CASE Expire(t)
    BY <2>12 DEF Expire
  <2> QED
    BY <1>1, <2>1, <2>2, <2>3, <2>4, <2>5, <2>6, <2>7, <2>8, <2>9, <2>10, <2>11, <2>12 DEF ApiStep
<1>2. ASSUME NEW w \in Workers, Dequeue(w) \/ DequeueError(w) \/ ExecuteStep(w) PROVE Goal
  <2>1. CASE Dequeue(w)
    BY <2>1 DEF Dequeue
  <2>2. CASE DequeueError(w)
    BY <2>2 DEF DequeueError
  <2>3. CASE ClaimSkip(w)
    BY <2>3 DEF ClaimSkip
  <2>4. CASE ClaimSucceeded(w)
    BY <2>4 DEF ClaimSucceeded, Claimable
  <2>5. CASE ClaimUnavailable(w)
    BY <2>5 DEF ClaimUnavailable, Claimable
  <2>6. CASE Claim(w)
    BY <2>6 DEF Claim, Claimable
  <2>7. CASE VersionUnavailable(w)
    BY <2>7 DEF VersionUnavailable, Starting
  <2>8. CASE PrepareFailed(w)
    BY <2>8 DEF PrepareFailed, Starting
  <2>9. CASE RunRaised(w)
    BY <2>9 DEF RunRaised
  <2>10. CASE RunFailed(w)
    BY <2>10 DEF RunFailed
  <2>11. CASE FailExecution(w)
    BY <2>11 DEF FailExecution
  <2>12. CASE RunCancelled(w)
    BY <2>12 DEF RunCancelled
  <2>13. CASE RunReturned(w)
    BY <2>13 DEF RunReturned
  <2>14. CASE RunReturnedCancelled(w)
    BY <2>14 DEF RunReturnedCancelled
  <2>15. CASE CompleteExecution(w)
    BY <2>15 DEF CompleteExecution
  <2>16. CASE ArtifactFailed(w)
    BY <2>16 DEF ArtifactFailed
  <2>17. CASE FinishTask(w)
    BY <2>17 DEF FinishTask
  <2>18. CASE HandlerSkip(w)
    BY <2>18 DEF HandlerSkip
  <2>19. CASE HandlerCancel(w)
    BY <2>19 DEF HandlerCancel
  <2>20. CASE HandlerRetry(w)
    BY <2>20 DEF HandlerRetry, MayRetry
  <2>21. CASE HandlerFail(w)
    BY <2>21 DEF HandlerFail
  <2>22. CASE Requeue(w)
    BY <2>22 DEF Requeue
  <2>23. CASE RequeueError(w)
    BY <2>23 DEF RequeueError
  <2> QED
    BY <1>2, <2>1, <2>2, <2>3, <2>4, <2>5, <2>6, <2>7, <2>8, <2>9, <2>10, <2>11, <2>12,
       <2>13, <2>14, <2>15, <2>16, <2>17, <2>18, <2>19, <2>20, <2>21, <2>22, <2>23 DEF ExecuteStep
<1>3. ASSUME NEW p \in Procs, Start(p) \/ Crash(p) \/ RecoverStep(p) \/ RecoverError(p) PROVE Goal
  <2>1. CASE Start(p)
    BY <2>1 DEF Start
  <2>2. CASE Crash(p)
    <3>1. \A w \in Workers : pc'[w] \in Executing => pc'[w] = pc[w] /\ cur'[w] = cur[w]
      BY <2>2 DEF Crash
    <3>2. \A u \in Tasks : Busy(u)' => Busy(u)
      BY <3>1
    <3>3. \A q \in Procs, u \in Tasks : verdict'[q][u] \in {verdict[q][u], "none"}
      BY <2>2 DEF Crash, NoVerdict
    <3>4. UNCHANGED <<task, attempt, submit>>
      BY <2>2 DEF Crash
    <3> QED
      BY <3>2, <3>3, <3>4
  <2>3. CASE RecoverScan(p)
    <3>1. UNCHANGED <<task, attempt, submit, pc, cur>>
      BY <2>3 DEF RecoverScan
    <3>2. \A u \in Tasks : verdict'[p][u] = Judge(u)
      BY <2>3 DEF RecoverScan
    <3>3. \A q \in Procs \ {p} : verdict'[q] = verdict[q]
      BY <2>3 DEF RecoverScan
    <3>4. \A u \in Tasks : /\ Judge(u) # "none" => task[u] = "running"
                           /\ Judge(u) = "retrying" => attempt[u] < MaxAttempts
      BY DEF Judge, Stale, MayRetry
    <3>5. ASSUME NEW u \in Tasks PROVE Fresh(u)'
      <4>1. submit'[u] = "new" => task'[u] = "absent" /\ attempt'[u] = 0 /\ ~Busy(u)'
        BY <3>1
      <4>2. submit'[u] = "new" => task[u] = "absent" /\ \A q \in Procs : verdict[q][u] = "none"
        BY <3>1
      <4>3. submit'[u] = "new" => Judge(u) = "none"
        BY <4>2, <3>4
      <4>4. submit'[u] = "new" => \A q \in Procs : verdict'[q][u] = "none"
        BY <4>2, <4>3, <3>2, <3>3
      <4> QED
        BY <4>1, <4>4
    <3>6. ASSUME NEW u \in Tasks PROVE Spends(u)
      <4>1. CASE Judge(u) = "retrying"
        BY <4>1, <3>1, <3>4
      <4>2. CASE Judge(u) # "retrying"
        BY <4>2, <3>1, <3>2, <3>3
      <4> QED BY <4>1, <4>2
    <3> QED BY <3>5, <3>6
  <2>4. CASE RecoverCommit(p)
    <3>1. UNCHANGED <<attempt, submit, pc, cur>>
      BY <2>4 DEF RecoverCommit
    <3>2. \A u \in Tasks :
            task'[u] = IF verdict[p][u] = "none" THEN task[u] ELSE verdict[p][u]
      BY <2>4 DEF RecoverCommit
    <3>3. \A u \in Tasks : verdict'[p][u] = "none"
      BY <2>4 DEF RecoverCommit, NoVerdict
    <3>4. \A q \in Procs \ {p} : verdict'[q] = verdict[q]
      BY <2>4 DEF RecoverCommit
    <3>5. ASSUME NEW u \in Tasks PROVE Fresh(u)'
      <4>1. SUFFICES ASSUME submit[u] = "new" PROVE Fresh(u)'
        BY <3>1 DEF Fresh
      <4>2. task[u] = "absent" /\ attempt[u] = 0 /\ ~Busy(u) /\ \A q \in Procs : verdict[q][u] = "none"
        BY <4>1 DEF Fresh
      <4>3. \A q \in Procs : verdict'[q][u] = "none"
        BY <3>3, <3>4, <4>2
      <4>4. ~Busy(u)' /\ task'[u] = "absent" /\ attempt'[u] = 0
        BY <3>1, <3>2, <4>2 DEF Busy
      <4> QED BY <4>3, <4>4 DEF Fresh
    <3>6. ASSUME NEW u \in Tasks PROVE Spends(u)
      <4>1. Grants(u)' = Grants(u) \ {p}
        BY <3>3, <3>4
      <4>2. CASE verdict[p][u] = "retrying"
        <5>1. p \in Grants(u)
          BY <4>2
        <5> QED BY <3>1, <4>1, <5>1 DEF Spends
      <4>3. CASE verdict[p][u] # "retrying"
        <5>1. verdict[p][u] \in {"none", "succeeded", "failed"}
          BY <4>3 DEF Verdicts
        <5> QED BY <3>1, <3>2, <4>1, <5>1
      <4> QED BY <4>2, <4>3
    <3> QED BY <3>5, <3>6
  <2>5. CASE RecoverList(p)
    BY <2>5 DEF RecoverList
  <2>6. CASE RecoverEnqueue(p)
    BY <2>6 DEF RecoverEnqueue
  <2>7. CASE RecoverDone(p)
    BY <2>7 DEF RecoverDone
  <2>8. CASE RecoverError(p)
    BY <2>8 DEF RecoverError
  <2> QED
    BY <1>3, <2>1, <2>2, <2>3, <2>4, <2>5, <2>6, <2>7, <2>8 DEF RecoverStep
<1>4. CASE UNCHANGED vars
  BY <1>4 DEF vars
<1> QED
  BY <1>1, <1>2, <1>3, <1>4 DEF Next

(* However many processes recover, and however slow the runs are, a task   *)
(* is attempted at most once per process more than TASK_MAX_ATTEMPTS: each *)
(* recovery can write one verdict that a claim has overtaken, and reads    *)
(* the attempts again before it judges the task another time               *)
(* (worker.py:178, 257-288).                                               *)
THEOREM OverrunIsBounded ==
  ASSUME IsFiniteSet(Procs)
  PROVE  Spec => []AttemptOverrun
<1> DEFINE Budgeted == TypeOK /\ \A t \in Tasks : Fresh(t) /\ Budget(t)
<1>1. Init => Budgeted
  BY TypeInit, BudgetInit
<1>2. Budgeted /\ [Next]_vars => Budgeted'
  <2>1. SUFFICES ASSUME Budgeted, [Next]_vars PROVE Budgeted'
    OBVIOUS
  <2>2. TypeOK'
    BY <2>1, TypeStep
  <2>3. \A t \in Tasks : Fresh(t)' /\ Spends(t)
    BY <2>1, BudgetStep
  <2>4. ASSUME NEW t \in Tasks PROVE Budget(t)'
    BY <2>1, <2>2, <2>3, BudgetLasts
  <2> QED BY <2>2, <2>3, <2>4
<1>3. Budgeted => AttemptOverrun
  <2>1. SUFFICES ASSUME Budgeted, NEW t \in Tasks
                 PROVE  attempt[t] <= MaxAttempts + Cardinality(Procs)
    BY DEF AttemptOverrun
  <2>2. IsFiniteSet(Grants(t))
    BY FS_Subset DEF Grants
  <2>3. Cardinality(Grants(t)) \in Nat /\ Cardinality(Procs) \in Nat
    BY <2>2, FS_CardinalityType
  <2>4. attempt[t] \in Nat /\ MaxAttempts \in Nat /\ Budget(t)
    BY <2>1, AttemptsAssumption DEF TypeOK
  <2> QED BY <2>3, <2>4 DEF Budget
<1> QED
  BY <1>1, <1>2, <1>3, PTL DEF Spec
=============================================================================

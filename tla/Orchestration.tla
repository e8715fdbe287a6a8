--------------------------- MODULE Orchestration ---------------------------
(***************************************************************************)
(* One multi-agent run: the request that creates it and its tasks, the     *)
(* reconciliation that releases the nodes of the workflow in dependency    *)
(* order and the manager at the end (backend/app/orchestrator.py), the     *)
(* process that polls for active runs (backend/app/orchestrator_worker.py) *)
(* and the endpoints that review a task or cancel the run                  *)
(* (backend/app/api/multi_agent.py).                                       *)
(*                                                                         *)
(* Task 0 is the manager's root task, tasks 1..size are the nodes in the   *)
(* order of the definition; a team run is a workflow without dependencies  *)
(* and approvals, and the only one that may have no node at all.           *)
(*                                                                         *)
(* A step is one database transaction.  The workers appear as the status   *)
(* changes TaskLifecycle allows; a queued task may be claimed at any time, *)
(* because recovery enqueues whatever is pending.  A database session      *)
(* loads a row once: reconcile_run decides on the statuses it read first,  *)
(* although it queries the tasks a second time (SessionFactory neither     *)
(* expires rows on commit nor repopulates them), and a column is written   *)
(* only when it differs from the value that was loaded.                    *)
(***************************************************************************)
EXTENDS Integers, FiniteSets

CONSTANTS
  MaxNodes,     \* the largest workflow
  MaxRestarts,  \* how often something may be broken off half-way
  Envs          \* the environments: what may happen to one and the same run

(* "early": the poll, the workers or a reviewer may meet a run whose       *)
(* submission is under way.                                                *)
(* "overlap": a reviewed run is reconciled while the poll reconciles it.   *)
(* "abort": a submission ends half-way (a workspace that cannot be created *)
(* raises OrchestratorError, the API process dies).  "restart": the        *)
(* process that reconciles dies.  "cancelTask", "cancelRun": somebody      *)
(* cancels or stops a single task, cancels the run.  "team": the run is    *)
(* one of a team, not of a workflow.                                       *)
EnvKinds == {"early", "overlap", "abort", "restart", "cancelTask", "cancelRun", "team"}

ASSUME BoundsAssumption == MaxNodes \in Nat /\ MaxRestarts \in Nat
ASSUME EnvAssumption == Envs \subseteq SUBSET EnvKinds

VARIABLES
  env,                    \* which of EnvKinds happen, fixed
  size, deps, approvals,  \* the definition of the run, fixed
  run,                    \* workflow_runs.status
  st,                     \* agent_tasks.status of the root and the nodes
  sub,                    \* how far the submission is
  rpc, snap, seen,        \* per reconciliation: place, tasks and run as loaded
  cpc, csnap,             \* the request that cancels the run
  restarts

def   == <<env, size, deps, approvals>>
reco  == <<rpc, snap, seen>>
canc  == <<cpc, csnap>>
vars  == <<def, run, st, sub, reco, canc, restarts>>

-----------------------------------------------------------------------------
Root  == 0
Parts == 0..MaxNodes
Nodes == 1..size
Reconcilers == {"poll", "review"}   \* orchestrator process, review endpoint

Queued      == {"pending", "retrying"}
Settled     == {"succeeded", "failed", "cancelled"}
TaskStatuses == {"absent", "waiting_child", "human_review", "running"} \cup Queued \cup Settled
RunActiveBug == {"pending", "running"}
RunActive   == {"pending", "running", "human_review"}
RunStatuses == {"absent"} \cup RunActive \cup Settled

Absent == [i \in Parts |-> "absent"]

(* The graphs validate_workflow_dag accepts: every set of nodes has one    *)
(* that depends on none of the set.                                        *)
Acyclic(n, d) == \A S \in SUBSET (1..n) \ {{}} : \E i \in S : d[i] \cap S = {}

Definitions(n) == {d \in [1..n -> SUBSET (1..n)] : Acyclic(n, d)}

(* Submission is complete, or ended half-way.                              *)
Submitted == sub = size + 3
Abandoned == sub = -1
Visible   == "early" \in env \/ Submitted \/ Abandoned
Alone(r)  == "overlap" \in env \/ \A q \in Reconcilers \ {r} : rpc[q] = "idle"

(* An operator whose name ends in "Bug" is a variant of the operator after *)
(* it with a mistake planted; no specification uses it.                    *)

TypeOK ==
  /\ env \in Envs
  /\ size \in 0..MaxNodes
  /\ deps \in [Nodes -> SUBSET Nodes] /\ approvals \subseteq Nodes
  /\ run \in RunStatuses
  /\ st \in [Parts -> TaskStatuses]
  /\ sub \in -1..(size + 3)
  /\ rpc \in [Reconcilers -> {"idle", "listed", "loaded", "applied", "refreshed"}]
  /\ snap \in [Reconcilers -> [Parts -> TaskStatuses]]
  /\ seen \in [Reconcilers -> RunStatuses]
  /\ cpc \in {"idle", "checked"}
  /\ csnap \in [Parts -> TaskStatuses]
  /\ restarts \in 0..MaxRestarts

Init ==
  /\ env \in Envs
  /\ size \in 0..MaxNodes
  /\ deps \in Definitions(size)
  /\ approvals \in SUBSET Nodes
  /\ "team" \in env => approvals = {} /\ \A i \in Nodes : deps[i] = {}
  /\ run = "absent"
  /\ st = Absent
  /\ sub = 0
  /\ rpc = [r \in Reconcilers |-> "idle"]
  /\ snap = [r \in Reconcilers |-> Absent]
  /\ seen = [r \in Reconcilers |-> "absent"]
  /\ cpc = "idle"
  /\ csnap = Absent
  /\ restarts = 0

Trouble(kind) ==
  /\ kind \in env /\ restarts < MaxRestarts
  /\ restarts' = restarts + 1

-----------------------------------------------------------------------------
(* submit_team_run and submit_workflow_run: every row is its own commit.   *)

SubmitRun ==
  /\ sub = 0
  /\ sub' = 1
  /\ run' = "pending"
  /\ UNCHANGED <<def, st, reco, canc, restarts>>

SubmitRoot ==
  /\ sub = 1
  /\ sub' = 2
  /\ st' = [st EXCEPT ![Root] = "waiting_child"]
  /\ UNCHANGED <<def, run, reco, canc, restarts>>

InitialStatus(i) ==
  IF deps[i] # {} THEN "waiting_child"
  ELSE IF i \in approvals THEN "human_review" ELSE "pending"

SubmitNode ==
  /\ sub >= 2 /\ sub < size + 2
  /\ sub' = sub + 1
  /\ st' = [st EXCEPT ![sub - 1] = InitialStatus(sub - 1)]
  /\ UNCHANGED <<def, run, reco, canc, restarts>>

(* The last commit overwrites whatever became of the run meanwhile.  A     *)
(* team without other members goes straight to its manager.                *)
SubmitDone ==
  /\ sub = size + 2 /\ sub >= 2
  /\ sub' = sub + 1
  /\ run' = IF \E i \in Nodes : InitialStatus(i) = "human_review"
            THEN "human_review" ELSE "running"
  /\ st' = IF size = 0 THEN [st EXCEPT ![Root] = "pending"] ELSE st
  /\ UNCHANGED <<def, reco, canc, restarts>>

SubmitAbort ==
  /\ sub >= 1 /\ ~Submitted
  /\ Trouble("abort")
  /\ sub' = -1
  /\ UNCHANGED <<def, run, st, reco, canc>>

-----------------------------------------------------------------------------
(* The workers and the endpoints that act on a single task.                *)

Move(i, from, to) ==
  /\ Visible /\ st[i] \in from
  /\ st' = [st EXCEPT ![i] = to]
  /\ UNCHANGED <<def, run, sub, reco, canc, restarts>>

Claim(i)   == Move(i, Queued, "running")
Refuse(i)  == Move(i, Queued, "failed")
Retry(i)   == Move(i, {"running"}, "retrying")
Succeed(i) == Move(i, {"running"}, "succeeded")
Fail(i)    == Move(i, {"running"}, "failed")

CancelTask(i) == "cancelTask" \in env /\ Move(i, Queued, "cancelled")
StopTask(i)   == "cancelTask" \in env /\ Move(i, {"running"}, "cancelled")

-----------------------------------------------------------------------------
(* reconcile_run.                                                          *)

(* A column keeps what another session wrote unless the value differs from *)
(* the one that was loaded.                                                *)
WriteRun(r, new) == run' = IF seen[r] = new THEN run ELSE new
WriteTasks(old, new) == st' = [i \in Parts |-> IF old[i] = new[i] THEN st[i] ELSE new[i]]

Leave(r) ==
  /\ rpc' = [rpc EXCEPT ![r] = "idle"]
  /\ snap' = [snap EXCEPT ![r] = Absent]
  /\ seen' = [seen EXCEPT ![r] = "absent"]

Children(s) == {i \in Nodes : s[i] # "absent"}

(* _fail_run: the root fails with the run while it has not started.        *)
FailRootBug(s) == IF s[Root] = "pending" THEN [s EXCEPT ![Root] = "failed"] ELSE s
FailRoot(s) ==
  IF s[Root] \in {"waiting_child", "pending"} THEN [s EXCEPT ![Root] = "failed"] ELSE s

(* The loop over the waiting children, in creation order: a dependency     *)
(* that ended badly, maybe earlier in this loop, cancels; all succeeded    *)
(* releases.                                                               *)
ReadyBug(s, i) == \E d \in deps[i] : s[d] = "succeeded"
Ready(s, i) == deps[i] # {} /\ \A d \in deps[i] : s[d] = "succeeded"

Release(s, i) ==
  IF s[i] # "waiting_child" THEN s[i]
  ELSE IF \E d \in deps[i] : s[d] \in {"failed", "cancelled"} THEN "cancelled"
  ELSE IF ~Ready(s, i) THEN "waiting_child"
  ELSE IF i \in approvals THEN "human_review" ELSE "pending"

Pass(s, n) ==
  LET after[k \in 0..n] ==
        IF k = 0 THEN s ELSE [after[k - 1] EXCEPT ![k] = Release(after[k - 1], k)]
  IN  after[n]

(* A waiting child one of whose dependencies has no task yet.              *)
Orphans(s) == {i \in Children(s) : s[i] = "waiting_child" /\ \E d \in deps[i] : s[d] = "absent"}
FirstOrphan(s) == CHOOSE i \in Orphans(s) : \A j \in Orphans(s) : i <= j

(* The poll lists the active runs ...                                      *)
PollList ==
  /\ rpc["poll"] = "idle" /\ run \in RunActive
  /\ Visible /\ Alone("poll")
  /\ rpc' = [rpc EXCEPT !["poll"] = "listed"]
  /\ seen' = [seen EXCEPT !["poll"] = run]
  /\ UNCHANGED <<def, run, st, sub, snap, canc, restarts>>

(* ... and review_human_task settles its task under the row lock and       *)
(* reconciles the run it finds, whatever its status.                       *)
Review(i) ==
  /\ Visible /\ st[i] = "human_review" /\ rpc["review"] = "idle" /\ Alone("review")
  /\ \E verdict \in {"succeeded", "failed"} : st' = [st EXCEPT ![i] = verdict]
  /\ rpc' = [rpc EXCEPT !["review"] = "listed"]
  /\ seen' = [seen EXCEPT !["review"] = run]
  /\ snap' = [snap EXCEPT !["review"][i] = st'[i]]
  /\ UNCHANGED <<def, run, sub, canc, restarts>>

(* A query of the tasks adds the rows the session does not hold yet.       *)
Query(s) == [i \in Parts |-> IF s[i] = "absent" THEN st[i] ELSE s[i]]

Load(r) ==
  /\ rpc[r] = "listed"
  /\ rpc' = [rpc EXCEPT ![r] = "loaded"]
  /\ snap' = [snap EXCEPT ![r] = Query(@)]
  /\ UNCHANGED <<def, run, st, sub, seen, canc, restarts>>

RootMissing(r) ==
  /\ rpc[r] = "loaded" /\ snap[r][Root] = "absent"
  /\ WriteRun(r, "failed")
  /\ Leave(r)
  /\ UNCHANGED <<def, st, sub, canc, restarts>>

SomeFailedBug(s) == \E i \in Nodes : s[i] \in {"failed", "cancelled"}
SomeFailed(s) == \E i \in Nodes : s[i] = "failed"

ChildFailed(r) ==
  /\ rpc[r] = "loaded" /\ snap[r][Root] # "absent"
  /\ SomeFailed(snap[r])
  /\ WriteRun(r, "failed")
  /\ WriteTasks(snap[r], FailRoot(snap[r]))
  /\ Leave(r)
  /\ UNCHANGED <<def, sub, canc, restarts>>

Clean(r) == /\ rpc[r] = "loaded" /\ snap[r][Root] # "absent"
            /\ ~SomeFailed(snap[r])

DependencyMissing(r) ==
  /\ Clean(r) /\ Orphans(snap[r]) # {}
  /\ WriteRun(r, "failed")
  /\ WriteTasks(snap[r], FailRoot(Pass(snap[r], FirstOrphan(snap[r]) - 1)))
  /\ Leave(r)
  /\ UNCHANGED <<def, sub, canc, restarts>>

Apply(r) ==
  /\ Clean(r) /\ Orphans(snap[r]) = {}
  /\ rpc' = [rpc EXCEPT ![r] = "applied"]
  /\ snap' = [snap EXCEPT ![r] = Pass(snap[r], size)]
  /\ WriteTasks(snap[r], Pass(snap[r], size))
  /\ UNCHANGED <<def, run, sub, seen, canc, restarts>>

(* refresh(run) reads the run anew; the second query of the tasks changes  *)
(* nothing about the ones that were loaded.                                *)
Refresh(r) ==
  /\ rpc[r] = "applied"
  /\ rpc' = [rpc EXCEPT ![r] = "refreshed"]
  /\ seen' = [seen EXCEPT ![r] = run]
  /\ snap' = [snap EXCEPT ![r] = Query(@)]
  /\ UNCHANGED <<def, run, st, sub, canc, restarts>>

NeedsReview(s) == \E i \in Nodes : s[i] = "human_review"
AllSucceededBug(s) == Children(s) # {} /\ \A i \in Children(s) : s[i] \in Settled
AllSucceeded(s) == Children(s) # {} /\ \A i \in Children(s) : s[i] = "succeeded"

FinishReview(r) ==
  /\ rpc[r] = "refreshed" /\ NeedsReview(snap[r])
  /\ WriteRun(r, "human_review")
  /\ Leave(r)
  /\ UNCHANGED <<def, st, sub, canc, restarts>>

ReleaseManager(r) ==
  /\ rpc[r] = "refreshed" /\ ~NeedsReview(snap[r])
  /\ AllSucceeded(snap[r]) /\ snap[r][Root] = "waiting_child"
  /\ WriteRun(r, "running")
  /\ st' = [st EXCEPT ![Root] = "pending"]
  /\ Leave(r)
  /\ UNCHANGED <<def, sub, canc, restarts>>

RunOutcome(s) == IF s[Root] \in {"succeeded", "failed"} THEN s[Root] ELSE "running"

FinishRun(r) ==
  /\ rpc[r] = "refreshed" /\ ~NeedsReview(snap[r])
  /\ ~(AllSucceeded(snap[r]) /\ snap[r][Root] = "waiting_child")
  /\ WriteRun(r, RunOutcome(snap[r]))
  /\ Leave(r)
  /\ UNCHANGED <<def, st, sub, canc, restarts>>

(* The process dies, or the queue fails after a commit.                    *)
ReconcileCrash(r) ==
  /\ rpc[r] # "idle"
  /\ Trouble("restart")
  /\ Leave(r)
  /\ UNCHANGED <<def, run, st, sub, canc>>

-----------------------------------------------------------------------------
(* cancel_workflow_run reads the run and its tasks without a lock ...      *)
CancelRunCheck ==
  /\ "cancelRun" \in env
  /\ Visible /\ cpc = "idle" /\ run \in RunActive
  /\ \A i \in Parts : st[i] # "running"
  /\ cpc' = "checked"
  /\ csnap' = st
  /\ UNCHANGED <<def, run, st, sub, reco, restarts>>

(* ... and cancels what was open then.                                     *)
OpenBug == Queued \cup {"human_review"}
Open == Queued \cup {"waiting_child", "human_review"}

CancelRunCommit ==
  /\ cpc = "checked"
  /\ cpc' = "idle"
  /\ csnap' = Absent
  /\ run' = "cancelled"
  /\ st' = [i \in Parts |-> IF csnap[i] \in Open
                            THEN "cancelled" ELSE st[i]]
  /\ UNCHANGED <<def, sub, reco, restarts>>

-----------------------------------------------------------------------------
Submit == SubmitRun \/ SubmitRoot \/ SubmitNode \/ SubmitDone
Settle(i) == Succeed(i) \/ Fail(i)
Reconcile(r) ==
  \/ Load(r) \/ RootMissing(r) \/ ChildFailed(r) \/ DependencyMissing(r)
  \/ Apply(r) \/ Refresh(r) \/ FinishReview(r) \/ ReleaseManager(r) \/ FinishRun(r)

Next ==
  \/ Submit \/ SubmitAbort
  \/ \E i \in Parts : \/ Claim(i) \/ Refuse(i) \/ Retry(i) \/ Settle(i)
                      \/ CancelTask(i) \/ StopTask(i) \/ Review(i)
  \/ PollList
  \/ \E r \in Reconcilers : Reconcile(r) \/ ReconcileCrash(r)
  \/ CancelRunCheck \/ CancelRunCommit

Spec == Init /\ [][Next]_vars

(* The request goes on, every queued task is claimed and every claimed one *)
(* settles (TaskLifecycle: EveryTaskSettles), the poll never stops and     *)
(* every review is decided.                                                *)
Fairness ==
  /\ WF_vars(Submit) /\ WF_vars(PollList) /\ WF_vars(CancelRunCommit)
  /\ \A r \in Reconcilers : WF_vars(Reconcile(r))
  /\ \A i \in Parts : WF_vars(Claim(i)) /\ SF_vars(Settle(i)) /\ SF_vars(Review(i))

FairSpec == Spec /\ Fairness

-----------------------------------------------------------------------------
(* Properties.                                                             *)

Started == {"pending", "retrying", "running", "human_review", "succeeded"}

(* No node is queued, under review, running or done before everything it   *)
(* depends on succeeded, whoever released it (orchestrator.py:152-157,     *)
(* 205-219).                                                               *)
DependencyOrder ==
  \A i \in Nodes : st[i] \in Started => \A d \in deps[i] : st[d] = "succeeded"

(* The manager starts after every node of the run succeeded                *)
(* (orchestrator.py:234-253), if nobody cancels the run: that overwrites   *)
(* what a worker or reviewer has just done.                                *)
ManagerAfterAll ==
  st[Root] \in Started /\ "cancelRun" \notin env => \A i \in Nodes : st[i] = "succeeded"

(* A run that nobody cancels fails because one of its nodes failed, or its *)
(* manager after all of them succeeded; a cancelled node is no reason      *)
(* (orchestrator.py:196, 259). It is reported as succeeded only after its  *)
(* manager and all of its nodes succeeded (orchestrator.py:255-262).       *)
OutcomeForCause ==
  "cancelRun" \notin env =>
    /\ run = "failed" =>
         \/ \E i \in Nodes : st[i] = "failed"
         \/ st[Root] = "failed" /\ \A i \in Nodes : st[i] = "succeeded"
    /\ run = "succeeded" => \A i \in Nodes \cup {Root} : st[i] = "succeeded"

(* Every run reaches an outcome, unless one of its tasks was cancelled:    *)
(* nothing turns a cancelled child into an outcome of the run.             *)
RunSettles ==
  run # "absent" ~> (run \in Settled \/ \E i \in Parts : st[i] = "cancelled")

(* docs/phase5-multi-agent-orchestration.md:72: when a child fails for     *)
(* good, the run and the manager's root task fail with it, unless the run  *)
(* is cancelled.                                                           *)
FailurePropagates ==
  ("cancelRun" \notin env /\ \E i \in Nodes : st[i] = "failed")
    ~> (run = "failed" /\ st[Root] = "failed")

(* Cancelling a run leaves none of its tasks waiting for ever, whatever    *)
(* a reconciliation or a worker did between its check and its write        *)
(* (api/multi_agent.py:491-517).                                           *)
CancelDrains ==
  run = "cancelled" ~> \A i \in Nodes \cup {Root} : st[i] \in Settled
============================================================================

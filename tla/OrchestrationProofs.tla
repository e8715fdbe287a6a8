------------------------ MODULE OrchestrationProofs ------------------------
(***************************************************************************)
(* Proofs about Orchestration, for workflows of any size.                  *)
(***************************************************************************)
EXTENDS Orchestration, WellFoundedInduction, TLAPS

(* Reconciliations of the run do not overlap and nobody cancels it.        *)
Serial == env \cap {"overlap", "cancelRun"} = {}

(* The run is reconciled after it was submitted, and as a whole.           *)
Whole == env \cap {"early", "abort"} = {}

Final == {"succeeded", "failed"}

(* What is left of a loaded snapshot: the final statuses of nodes, and     *)
(* until the first commit the waiting ones.                                *)
Snapshots ==
  \A r \in Reconcilers :
    /\ rpc[r] = "idle" => \A i \in Parts : snap[r][i] = "absent"
    /\ \A q \in Reconcilers : rpc[r] # "idle" /\ rpc[q] # "idle" => r = q
    /\ \A i \in Nodes : snap[r][i] \in Final => st[i] = snap[r][i]
    /\ \A i \in Nodes : rpc[r] \in {"listed", "loaded"} /\ snap[r][i] = "waiting_child"
                          => st[i] = "waiting_child"

(* Nodes are created in order, each once.                                  *)
Created == \A i \in Nodes : sub >= 0 /\ sub - 1 <= i => st[i] = "absent"

Ordered == cpc = "idle" /\ Created /\ Snapshots /\ DependencyOrder

(* What a run that is reconciled as a whole adds: no task is missing.      *)
Present ==
  /\ sub >= 0
  /\ ~Submitted => st[Root] \in {"absent", "waiting_child"} /\ run \notin Final
  /\ sub >= 2 => st[Root] # "absent"
  /\ \A i \in Nodes : i < sub - 1 => st[i] # "absent"
  /\ \A r \in Reconcilers :
       /\ rpc[r] # "idle" => Submitted
       /\ rpc[r] \in {"loaded", "applied", "refreshed"} =>
            \A i \in Nodes \cup {Root} : snap[r][i] # "absent"

AllDone == \A i \in Nodes : st[i] = "succeeded"

(* The manager and the run follow the nodes.                               *)
Caused ==
  /\ \A r \in Reconcilers :
       /\ snap[r][Root] \in Final => st[Root] = snap[r][Root]
       /\ snap[r][Root] = "waiting_child" => st[Root] = "waiting_child"
  /\ st[Root] \in Started => AllDone
  /\ st[Root] = "failed" => SomeFailed(st) \/ AllDone
  /\ run = "succeeded" => st[Root] = "succeeded"
  /\ run = "failed" => SomeFailed(st) \/ (st[Root] = "failed" /\ AllDone)

Inv ==
  /\ TypeOK
  /\ Serial => Ordered
  /\ Serial /\ Whole => Present /\ Caused

-----------------------------------------------------------------------------
(* The loop over the children.                                             *)

(* A set of numbers has a least one.                                       *)
LEMMA Least ==
  ASSUME NEW T, T \subseteq Nat, T # {}
  PROVE  \E x \in T : \A y \in T : x <= y
<1>1. IsWellFoundedOn(OpToRel(<, Nat), Nat)
  BY NatLessThanWellFounded
<1>2. PICK x \in T : \A y \in T : ~ (<<y, x>> \in OpToRel(<, Nat))
  BY <1>1, WFMin
<1>3. ASSUME NEW y \in T PROVE x <= y
  <2>1. ~(y < x)
    BY <1>2 DEF OpToRel
  <2> QED BY <2>1
<1> QED BY <1>3

(* One round, and the statuses after each round.                           *)
Once(t, k) == [t EXCEPT ![k] = Release(t, k)]
Chain(f, s, n) == f = [k \in 0..n |-> IF k = 0 THEN s ELSE Once(f[k - 1], k)]

(* The least n without a chain would have one, from that of n - 1.         *)
LEMMA ChainExists ==
  ASSUME NEW s, NEW n \in Nat
  PROVE  \E f : Chain(f, s, n)
<1> DEFINE T == {m \in Nat : ~ \E f : Chain(f, s, m)}
<1> SUFFICES ASSUME T # {} PROVE FALSE
  OBVIOUS
<1>1. PICK m \in T : m \in Nat /\ \A y \in T : m <= y
  BY Least
<1>2. CASE m = 0
  <2> DEFINE f == [k \in 0..0 |-> s]
  <2>1. f = [k \in 0..0 |-> IF k = 0 THEN s ELSE Once(f[k - 1], k)]
    OBVIOUS
  <2>2. Chain(f, s, 0)
    BY <2>1 DEF Chain
  <2> QED BY <2>2, <1>2
<1>3. CASE m > 0
  <2>1. m - 1 \in Nat \ T
    BY <1>1, <1>3
  <2>2. PICK f : Chain(f, s, m - 1)
    BY <2>1
  <2> DEFINE g == [k \in 0..m |-> IF k = m THEN Once(f[m - 1], m) ELSE f[k]]
  <2>3. \A k \in 0..(m - 1) : g[k] = f[k]
    BY <1>1
  <2>4. \A k \in 0..m : g[k] = IF k = 0 THEN s ELSE Once(g[k - 1], k)
    <3> HIDE DEF g
    <3> SUFFICES ASSUME NEW k \in 0..m PROVE g[k] = IF k = 0 THEN s ELSE Once(g[k - 1], k)
      OBVIOUS
    <3>1. CASE k < m
      BY <3>1, <2>2, <2>3, <1>3, <1>1 DEF Chain
    <3>2. CASE k = m
      BY <3>2, <2>3, <1>3, <1>1 DEF g
    <3> QED BY <3>1, <3>2
  <2>5. Chain(g, s, m)
    BY <2>4 DEF Chain
  <2> QED BY <2>5, <1>1
<1> QED BY <1>1, <1>2, <1>3

(* Pass is the end of a chain.                                             *)
LEMMA PassIsChain ==
  ASSUME NEW s, NEW n \in Nat
  PROVE  \E f : Chain(f, s, n) /\ Pass(s, n) = f[n]
<1> DEFINE F == CHOOSE f : Chain(f, s, n)
<1>1. Chain(F, s, n)
  BY ChainExists
<1>2. Pass(s, n) = F[n]
  BY DEF Pass, Chain, Once
<1> QED BY <1>1, <1>2

(* What the loop may have done to the statuses s: a waiting node was       *)
(* cancelled, or released because all it depends on succeeded.             *)
Advances(s, t) ==
  /\ t \in [Parts -> TaskStatuses]
  /\ \A i \in Parts : t[i] = s[i] \/
       /\ i \in Nodes /\ s[i] = "waiting_child"
       /\ \/ t[i] = "cancelled"
          \/ t[i] \in {"human_review", "pending"} /\ Ready(s, i)

(* Each round does no more: what it reads as succeeded was so before.      *)
LEMMA OnceAdvances ==
  ASSUME TypeOK, NEW s \in [Parts -> TaskStatuses], NEW t, Advances(s, t), NEW k \in Nodes
  PROVE  Advances(s, Once(t, k))
<1>1. k \in Parts
  BY BoundsAssumption DEF TypeOK, Nodes, Parts
<1>2. Release(t, k) = t[k] \/
        /\ t[k] = "waiting_child"
        /\ Release(t, k) = "cancelled" \/ (Release(t, k) \in {"human_review", "pending"} /\ Ready(t, k))
  BY DEF Release
<1>3. Ready(t, k) => Ready(s, k)
  <2>1. \A d \in deps[k] : d \in Parts
    BY BoundsAssumption DEF TypeOK, Nodes, Parts
  <2> QED BY <2>1 DEF Ready, Advances
<1>4. t[k] = "waiting_child" => s[k] = "waiting_child"
  BY <1>1 DEF Advances
<1>5. Release(t, k) \in TaskStatuses
  BY <1>1, <1>2 DEF Advances, TaskStatuses, Queued, Settled
<1>6. Once(t, k) \in [Parts -> TaskStatuses] /\ Once(t, k)[k] = Release(t, k)
      /\ \A i \in Parts \ {k} : Once(t, k)[i] = t[i]
  BY <1>1, <1>5 DEF Once, Advances
<1> HIDE DEF Once
<1> QED BY <1>1, <1>2, <1>3, <1>4, <1>6 DEF Advances

(* So does the whole loop, whatever its length.                            *)
LEMMA PassAdvances ==
  ASSUME TypeOK, NEW s \in [Parts -> TaskStatuses], NEW n \in 0..size
  PROVE  Advances(s, Pass(s, n))
<1>1. n \in Nat /\ size \in Nat
  BY BoundsAssumption DEF TypeOK
<1>2. PICK f : Chain(f, s, n) /\ Pass(s, n) = f[n]
  BY <1>1, PassIsChain
<1> DEFINE T == {k \in 0..n : ~ Advances(s, f[k])}
<1>3. CASE T = {}
  BY <1>1, <1>2, <1>3
<1>4. CASE T # {}
  <2>0. T \subseteq Nat
    OBVIOUS
  <2>1. PICK m \in T : m \in 0..n /\ \A y \in T : m <= y
    BY <1>4, <2>0, Least
  <2>2. CASE m = 0
    <3>1. f[m] = s
      BY <1>1, <1>2, <2>2 DEF Chain
    <3>2. Advances(s, s)
      BY DEF Advances
    <3> QED BY <2>1, <3>1, <3>2
  <2>3. CASE m > 0
    <3>1. m - 1 \in 0..n /\ m - 1 \notin T /\ m \in Nodes
      BY <1>1, <2>1, <2>3 DEF Nodes
    <3>2. Advances(s, f[m - 1])
      BY <3>1
    <3>3. f[m] = Once(f[m - 1], m)
      BY <1>1, <1>2, <2>1, <2>3 DEF Chain
    <3> QED BY <2>1, <3>1, <3>2, <3>3, OnceAdvances
  <2> QED BY <1>1, <2>1, <2>2, <2>3
<1> QED BY <1>3, <1>4

-----------------------------------------------------------------------------
(* The steps of submission.                                                *)

(* What a node starts with is allowed: it waits if it depends on others.   *)
LEMMA InitialStatusOK ==
  ASSUME NEW i
  PROVE  /\ InitialStatus(i) \in {"waiting_child", "human_review", "pending"}
         /\ InitialStatus(i) \in Started => deps[i] = {}
BY DEF InitialStatus, Started

(* Every row of the submission keeps the invariant.                        *)
LEMMA SubmitStep ==
  ASSUME Inv, Submit \/ SubmitAbort
  PROVE  Inv'
<1> USE BoundsAssumption DEF Nodes, Parts, Root, def, reco, canc
<1>1. /\ TypeOK /\ size \in Nat /\ sub \in Int
      /\ Nodes \subseteq Parts /\ \A j \in Nodes : deps[j] \subseteq Nodes
  BY DEF Inv, TypeOK
<1>2. CASE SubmitRun \/ SubmitRoot \/ SubmitAbort
  <2>1. TypeOK'
    <3>1. CASE SubmitRun
      BY <1>1, <3>1 DEF TypeOK, SubmitRun, RunStatuses, RunActive
    <3>2. CASE SubmitRoot
      BY <1>1, <3>2 DEF TypeOK, SubmitRoot, TaskStatuses
    <3>3. CASE SubmitAbort
      BY <1>1, <3>3 DEF TypeOK, SubmitAbort, Trouble
    <3> QED BY <1>2, <3>1, <3>2, <3>3
  <2>2. UNCHANGED <<def, reco, canc>> /\ \A i \in Nodes : st'[i] = st[i]
    BY <1>1, <1>2 DEF TypeOK, SubmitRun, SubmitRoot, SubmitAbort
  <2>3. ASSUME Serial, Ordered PROVE Ordered'
    <3>1. Created' /\ cpc' = "idle"
      BY <1>1, <1>2, <2>2, <2>3 DEF Ordered, Created, SubmitRun, SubmitRoot, SubmitAbort
    <3>2. Snapshots' /\ DependencyOrder'
      BY <1>1, <2>2, <2>3 DEF Ordered, Snapshots, DependencyOrder
    <3> QED BY <3>1, <3>2 DEF Ordered
  <2>4. ASSUME Serial, Whole, Ordered, Present, Caused PROVE Present' /\ Caused'
    <3>1. ~ SubmitAbort
      BY <2>4 DEF SubmitAbort, Trouble, Whole
    <3>2. Present'
      BY <1>1, <1>2, <2>2, <2>4, <3>1 DEF Present, SubmitRun, SubmitRoot, TypeOK, Submitted, Final
    <3>3. Caused'
      BY <1>1, <1>2, <2>2, <2>4, <3>1 DEF Caused, Present, Ordered, Snapshots, SubmitRun, SubmitRoot, TypeOK, Submitted, Final, Started, AllDone, SomeFailed
    <3> QED BY <3>2, <3>3
  <2> QED BY <2>1, <2>2, <2>3, <2>4 DEF Inv, Serial, Whole
<1>3. CASE SubmitNode
  <2> DEFINE n == sub - 1
  <2>1. /\ n \in Nodes /\ st' = [st EXCEPT ![n] = InitialStatus(n)] /\ sub' = sub + 1
        /\ UNCHANGED <<def, run, reco, canc, restarts>>
    BY <1>1, <1>3 DEF SubmitNode
  <2>2. TypeOK'
    BY <1>1, <2>1, InitialStatusOK DEF TypeOK, TaskStatuses, Queued
  <2>3. /\ \A i \in Parts \ {n} : st'[i] = st[i]
        /\ st'[n] \in {"waiting_child", "human_review", "pending"}
        /\ st'[n] \in Started => deps[n] = {}
    BY <1>1, <2>1, InitialStatusOK DEF TypeOK
  <2>4. ASSUME Serial, Ordered PROVE Ordered'
    <3>1. st[n] = "absent"
      BY <1>1, <2>1, <2>4, <1>3 DEF Ordered, Created, SubmitNode
    <3>2. Created' /\ cpc' = "idle"
      BY <1>1, <2>1, <2>3, <2>4 DEF Ordered, Created
    <3>3. Snapshots'
      BY <1>1, <2>1, <2>3, <2>4, <3>1 DEF Ordered, Snapshots, Final
    <3>4. DependencyOrder'
      BY <1>1, <2>1, <2>3, <2>4, <3>1 DEF Ordered, DependencyOrder
    <3> QED BY <3>2, <3>3, <3>4 DEF Ordered
  <2>5. ASSUME Serial, Whole, Ordered, Present, Caused PROVE Present' /\ Caused'
    <3>1. Present'
      BY <1>1, <1>3, <2>1, <2>3, <2>5 DEF Present, Submitted, Final, SubmitNode
    <3>2. Caused'
      <4>1. st[Root] = "waiting_child" /\ run \notin Final /\ st'[Root] = st[Root] /\ run' = run
        BY <1>1, <1>3, <2>1, <2>3, <2>5 DEF Present, Submitted, SubmitNode
      <4> QED BY <1>1, <2>1, <2>5, <4>1 DEF Caused, Final, Started
    <3> QED BY <3>1, <3>2
  <2> QED BY <2>1, <2>2, <2>4, <2>5 DEF Inv, Serial, Whole
<1>4. CASE SubmitDone
  <2>1. /\ sub = size + 2 /\ sub' = sub + 1 /\ run' \in {"human_review", "running"}
        /\ UNCHANGED <<def, reco, canc, restarts>>
        /\ \A i \in Nodes : st'[i] = st[i]
        /\ st'[Root] = IF size = 0 THEN "pending" ELSE st[Root]
    BY <1>1, <1>4 DEF SubmitDone, TypeOK
  <2>2. TypeOK'
    BY <1>1, <1>4, <2>1 DEF TypeOK, SubmitDone, TaskStatuses, Queued, RunStatuses, RunActive
  <2>3. ASSUME Serial, Ordered PROVE Ordered'
    <3>1. Created' /\ cpc' = "idle"
      BY <1>1, <2>1, <2>3 DEF Ordered, Created
    <3>2. Snapshots' /\ DependencyOrder'
      BY <1>1, <2>1, <2>3 DEF Ordered, Snapshots, DependencyOrder
    <3> QED BY <3>1, <3>2 DEF Ordered
  <2>4. ASSUME Serial, Whole, Ordered, Present, Caused PROVE Present' /\ Caused'
    <3>1. Present'
      BY <1>1, <2>1, <2>4 DEF Present, Submitted, Final
    <3>2. Caused'
      BY <1>1, <2>1, <2>4 DEF Caused, Present, Ordered, Snapshots, TypeOK, Submitted, Final, Started, AllDone, SomeFailed
    <3> QED BY <3>1, <3>2
  <2> QED BY <2>1, <2>2, <2>3, <2>4 DEF Inv, Serial, Whole
<1> QED BY <1>2, <1>3, <1>4 DEF Submit

-----------------------------------------------------------------------------
(* Workers, and requests about single tasks.                               *)
LEMMA MoveStep ==
  ASSUME Inv, NEW i \in Parts,
         \/ Claim(i) \/ Refuse(i) \/ Retry(i) \/ Settle(i)
         \/ CancelTask(i) \/ StopTask(i)
  PROVE  Inv'
<1> USE BoundsAssumption DEF Nodes, Parts, Root, def, reco, canc
<1>1. /\ TypeOK /\ size \in Nat /\ sub \in Int
      /\ Nodes \subseteq Parts /\ \A j \in Nodes : deps[j] \subseteq Nodes
  BY DEF Inv, TypeOK
<1>2. PICK to \in {"running", "failed", "retrying", "succeeded", "cancelled"} :
        Move(i, Queued \cup {"running"}, to)
  BY DEF Claim, Refuse, Retry, Settle, Succeed, Fail, CancelTask, StopTask, Move
<1>3. /\ st[i] \in {"pending", "retrying", "running"} /\ st' = [st EXCEPT ![i] = to]
      /\ UNCHANGED <<def, run, sub, reco, canc, restarts>> /\ Visible
  BY <1>2 DEF Move, Queued
<1>4. TypeOK'
  BY <1>1, <1>3 DEF TypeOK, TaskStatuses, Queued, Settled
<1>5. st'[i] = to /\ \A j \in Parts \ {i} : st'[j] = st[j]
  BY <1>1, <1>3 DEF TypeOK
<1>6. ASSUME Serial, Ordered PROVE Ordered'
  <2>1. Created' /\ cpc' = "idle"
    BY <1>1, <1>3, <1>5, <1>6 DEF Ordered, Created
  <2>2. Snapshots'
    BY <1>1, <1>3, <1>5, <1>6 DEF Ordered, Snapshots, Final
  <2>3. DependencyOrder'
    BY <1>1, <1>3, <1>5, <1>6 DEF Ordered, DependencyOrder, Started, TypeOK
  <2> QED BY <2>1, <2>2, <2>3 DEF Ordered
<1>7. ASSUME Serial, Whole, Ordered, Present, Caused PROVE Present' /\ Caused'
  <2>1. Submitted
    BY <1>1, <1>3, <1>7 DEF Visible, Whole, Present, Abandoned
  <2>2. Present'
    BY <1>1, <1>3, <1>5, <1>7, <2>1 DEF Present, Submitted
  <2>3. Caused'
    BY <1>1, <1>3, <1>5, <1>7 DEF Caused, Final, Started, AllDone, SomeFailed
  <2> QED BY <2>2, <2>3
<1> QED BY <1>3, <1>4, <1>6, <1>7 DEF Inv, Serial, Whole

(* The review of a node settles it and begins a reconciliation.            *)
LEMMA ReviewStep ==
  ASSUME Inv, NEW i \in Parts, Review(i)
  PROVE  Inv'
<1> USE BoundsAssumption DEF Nodes, Parts, Root, def, reco, canc, Reconcilers
<1>1. /\ TypeOK /\ size \in Nat /\ sub \in Int
      /\ Nodes \subseteq Parts /\ \A j \in Nodes : deps[j] \subseteq Nodes
  BY DEF Inv, TypeOK
<1>2. PICK v \in Final : st' = [st EXCEPT ![i] = v]
  BY DEF Review, Final
<1>3. /\ st[i] = "human_review" /\ rpc["review"] = "idle" /\ Alone("review") /\ Visible
      /\ rpc' = [rpc EXCEPT !["review"] = "listed"]
      /\ seen' = [seen EXCEPT !["review"] = run]
      /\ snap' = [snap EXCEPT !["review"][i] = st'[i]]
      /\ UNCHANGED <<def, run, sub, canc, restarts>>
  BY DEF Review
<1>4. st'[i] = v /\ \A j \in Parts \ {i} : st'[j] = st[j]
  BY <1>1, <1>2 DEF TypeOK
<1>5. TypeOK'
  BY <1>1, <1>2, <1>3, <1>4 DEF TypeOK, TaskStatuses, Settled, Final
<1>6. /\ snap'["review"][i] = v /\ \A j \in Parts \ {i} : snap'["review"][j] = snap["review"][j]
      /\ snap'["poll"] = snap["poll"]
      /\ rpc'["review"] = "listed" /\ rpc'["poll"] = rpc["poll"]
  BY <1>1, <1>3, <1>4 DEF TypeOK
<1>7. ASSUME Serial, Ordered PROVE Ordered'
  <2>1. Created' /\ cpc' = "idle"
    BY <1>1, <1>3, <1>4, <1>7 DEF Ordered, Created
  <2>2. rpc["poll"] = "idle"
    BY <1>3, <1>7 DEF Alone, Serial
  <2>3. Snapshots'
    BY <1>1, <1>3, <1>4, <1>6, <1>7, <2>2 DEF Ordered, Snapshots, Final
  <2>4. DependencyOrder'
    BY <1>1, <1>3, <1>4, <1>7 DEF Ordered, DependencyOrder, Started, Final, TypeOK
  <2> QED BY <2>1, <2>3, <2>4 DEF Ordered
<1>8. ASSUME Serial, Whole, Ordered, Present, Caused PROVE Present' /\ Caused'
  <2>1. Submitted
    BY <1>1, <1>3, <1>8 DEF Visible, Whole, Present, Abandoned
  <2>2. Present'
    BY <1>1, <1>3, <1>4, <1>6, <1>8, <2>1 DEF Present, Submitted, Final
  <2>3. Caused'
    BY <1>1, <1>3, <1>4, <1>6, <1>8 DEF Caused, Final, Started, AllDone, SomeFailed
  <2> QED BY <2>2, <2>3
<1> QED BY <1>3, <1>5, <1>7, <1>8 DEF Inv, Serial, Whole

-----------------------------------------------------------------------------
(* The steps of a reconciliation that leave the tasks as they are.         *)

(* What the reconciliation of r leaves alone: the submission, the other    *)
(* reconciliation, the request that cancels.                               *)
Frame(r) == /\ UNCHANGED <<def, sub, canc>>
            /\ \A q \in Reconcilers \ {r} : rpc'[q] = rpc[q] /\ snap'[q] = snap[q]

(* The poll lists a run that is submitted; nobody else reconciles it.      *)
LEMMA ListStep ==
  ASSUME Inv, PollList
  PROVE  Inv'
<1> USE BoundsAssumption DEF Nodes, Parts, Root, def, reco, canc, Reconcilers
<1>1. /\ TypeOK /\ size \in Nat /\ sub \in Int
      /\ Nodes \subseteq Parts /\ \A j \in Nodes : deps[j] \subseteq Nodes
  BY DEF Inv, TypeOK
<1>2. /\ UNCHANGED <<def, run, st, sub, snap, canc, restarts>> /\ Visible /\ Alone("poll")
      /\ rpc["poll"] = "idle" /\ rpc'["poll"] = "listed" /\ rpc'["review"] = rpc["review"]
  BY <1>1 DEF PollList, TypeOK
<1>3. TypeOK'
  BY <1>1 DEF PollList, TypeOK
<1>4. ASSUME Serial, Ordered PROVE Ordered'
  <2>1. rpc["review"] = "idle"
    BY <1>2, <1>4 DEF Alone, Serial
  <2>2. Created' /\ cpc' = "idle" /\ DependencyOrder'
    BY <1>2, <1>4 DEF Ordered, Created, DependencyOrder
  <2>3. Snapshots'
    BY <1>1, <1>2, <1>4, <2>1 DEF Ordered, Snapshots, Final
  <2> QED BY <2>2, <2>3 DEF Ordered
<1>5. ASSUME Serial, Whole, Ordered, Present, Caused PROVE Present' /\ Caused'
  <2>1. Submitted
    BY <1>1, <1>2, <1>5 DEF Visible, Whole, Present, Abandoned
  <2> QED BY <1>1, <1>2, <1>5, <2>1 DEF Present, Submitted, Caused, AllDone, SomeFailed
<1> QED BY <1>2, <1>3, <1>4, <1>5 DEF Inv, Serial, Whole

(* A query of the tasks: what it adds is what is stored.                   *)
LEMMA ReadStep ==
  ASSUME Inv, NEW r \in Reconcilers, Load(r) \/ Refresh(r)
  PROVE  Inv'
<1> USE BoundsAssumption DEF Nodes, Parts, Root, def, reco, canc
<1>1. /\ TypeOK /\ size \in Nat /\ sub \in Int
      /\ Nodes \subseteq Parts /\ \A j \in Nodes : deps[j] \subseteq Nodes
  BY DEF Inv, TypeOK
<1>2. /\ UNCHANGED <<def, run, st, sub, canc, restarts>> /\ Frame(r)
      /\ \A i \in Parts : snap'[r][i] = IF snap[r][i] = "absent" THEN st[i] ELSE snap[r][i]
      /\ rpc[r] \in {"listed", "applied"}
      /\ rpc'[r] = IF rpc[r] = "listed" THEN "loaded" ELSE "refreshed"
  BY <1>1 DEF Load, Refresh, TypeOK, Query, Frame
<1>3. TypeOK'
  <2>1. Query(snap[r]) \in [Parts -> TaskStatuses]
    BY <1>1 DEF TypeOK, Query
  <2>2. CASE Load(r)
    BY <1>1, <2>1, <2>2 DEF Load, TypeOK
  <2>3. CASE Refresh(r)
    BY <1>1, <2>1, <2>3 DEF Refresh, TypeOK
  <2> QED BY <2>2, <2>3
<1>4. ASSUME Serial, Ordered PROVE Ordered'
  <2>1. Created' /\ cpc' = "idle" /\ DependencyOrder'
    BY <1>2, <1>4 DEF Ordered, Created, DependencyOrder
  <2>2. Snapshots'
    BY <1>1, <1>2, <1>4 DEF Ordered, Snapshots, Final, Frame
  <2> QED BY <2>1, <2>2 DEF Ordered
<1>5. ASSUME Serial, Whole, Ordered, Present, Caused PROVE Present' /\ Caused'
  <2>1. Submitted /\ \A i \in Nodes \cup {Root} : st[i] # "absent"
    BY <1>1, <1>2, <1>5 DEF Present, Submitted
  <2>2. Present'
    BY <1>1, <1>2, <1>5, <2>1 DEF Present, Submitted, Frame
  <2>3. Caused'
    BY <1>1, <1>2, <1>5 DEF Caused, Frame, AllDone, SomeFailed
  <2> QED BY <2>2, <2>3
<1> QED BY <1>2, <1>3, <1>4, <1>5 DEF Inv, Serial, Whole

(* A reconciliation that ends, or is broken off, forgets what it loaded.   *)
(* The outcome it writes is that of the tasks.                             *)
LEMMA LeaveStep ==
  ASSUME Inv, NEW r \in Reconcilers,
         RootMissing(r) \/ FinishReview(r) \/ FinishRun(r) \/ ReconcileCrash(r)
  PROVE  Inv'
<1> USE BoundsAssumption DEF Nodes, Parts, Root, def, reco, canc
<1>1. /\ TypeOK /\ size \in Nat /\ sub \in Int
      /\ Nodes \subseteq Parts /\ \A j \in Nodes : deps[j] \subseteq Nodes
  BY DEF Inv, TypeOK
<1>2. /\ UNCHANGED <<def, st, sub, canc>> /\ Frame(r)
      /\ rpc[r] # "idle" /\ rpc'[r] = "idle" /\ \A i \in Parts : snap'[r][i] = "absent"
  BY <1>1 DEF RootMissing, FinishReview, FinishRun, ReconcileCrash, Leave, TypeOK, Absent, Frame
<1>3. /\ run' = run \/ (run' = "failed" /\ RootMissing(r))
                    \/ (run' \in {"human_review", "running"})
                    \/ (run' \in Final /\ run' = snap[r][Root] /\ rpc[r] = "refreshed")
  BY DEF RootMissing, FinishReview, FinishRun, ReconcileCrash, WriteRun, RunOutcome, Final
<1>4. TypeOK'
  <2>1. run' \in RunStatuses
    BY <1>1, <1>3 DEF TypeOK, RunStatuses, RunActive, Settled, Final
  <2>2. rpc' \in [Reconcilers -> {"idle", "listed", "loaded", "applied", "refreshed"}]
        /\ snap' \in [Reconcilers -> [Parts -> TaskStatuses]] /\ seen' \in [Reconcilers -> RunStatuses]
    <3>1. Leave(r) /\ Absent \in [Parts -> TaskStatuses] /\ "absent" \in RunStatuses
      BY DEF RootMissing, FinishReview, FinishRun, ReconcileCrash, Absent, TaskStatuses, RunStatuses
    <3> QED BY <1>1, <3>1 DEF Leave, TypeOK
  <2>3. restarts' \in 0..MaxRestarts
    BY <1>1 DEF RootMissing, FinishReview, FinishRun, ReconcileCrash, Trouble, TypeOK
  <2> QED BY <1>1, <1>2, <2>1, <2>2, <2>3 DEF TypeOK
<1>5. ASSUME Serial, Ordered PROVE Ordered'
  <2>1. Created' /\ cpc' = "idle" /\ DependencyOrder'
    BY <1>2, <1>5 DEF Ordered, Created, DependencyOrder
  <2>2. Snapshots'
    BY <1>1, <1>2, <1>5 DEF Ordered, Snapshots, Final, Frame
  <2> QED BY <2>1, <2>2 DEF Ordered
<1>6. ASSUME Serial, Whole, Ordered, Present, Caused PROVE Present' /\ Caused'
  <2>1. Submitted /\ ~RootMissing(r)
    BY <1>1, <1>2, <1>6 DEF Present, RootMissing
  <2>2. Present'
    BY <1>1, <1>2, <1>6, <2>1 DEF Present, Submitted, Frame
  <2>3. run' \in Final => run' = run \/ run' = st[Root]
    BY <1>3, <1>6, <2>1 DEF Caused, Final
  <2>4. Caused'
    BY <1>1, <1>2, <1>6, <2>3 DEF Caused, Final, Frame, AllDone, SomeFailed
  <2> QED BY <2>2, <2>4
<1> QED BY <1>2, <1>4, <1>5, <1>6 DEF Inv, Serial, Whole

-----------------------------------------------------------------------------
(* The commits of a reconciliation to the tasks.                           *)

(* A release of nodes, possibly with a failure of the root, that was       *)
(* decided on the snapshot: it finds the nodes waiting that it changes.    *)
LEMMA WriteNodes ==
  ASSUME TypeOK, Ordered, UNCHANGED def,
         NEW r \in Reconcilers, rpc[r] = "loaded",
         NEW t \in [Parts -> TaskStatuses], Advances(snap[r], t),
         NEW u \in [Parts -> TaskStatuses], \A i \in Nodes : u[i] = t[i],
         WriteTasks(snap[r], u)
  PROVE  /\ st' \in [Parts -> TaskStatuses]
         /\ \A i \in Nodes :
              \/ st'[i] = st[i] /\ u[i] = snap[r][i]
              \/ /\ st[i] = "waiting_child" /\ snap[r][i] = "waiting_child"
                 /\ st'[i] = u[i] /\ u[i] \in {"cancelled", "human_review", "pending"}
         /\ DependencyOrder'
<1> USE BoundsAssumption DEF Nodes, Parts, Root, def
<1>1. /\ size \in Nat /\ Nodes \subseteq Parts /\ \A j \in Nodes : deps[j] \subseteq Nodes
  BY DEF TypeOK
<1>2. \A i \in Parts : st'[i] = IF snap[r][i] = u[i] THEN st[i] ELSE u[i]
  BY DEF WriteTasks
<1>3. st' \in [Parts -> TaskStatuses]
  BY DEF WriteTasks, TypeOK
<1>4. \A i \in Nodes :
        \/ st'[i] = st[i] /\ u[i] = snap[r][i]
        \/ /\ st[i] = "waiting_child" /\ snap[r][i] = "waiting_child" /\ st'[i] = u[i]
           /\ u[i] = "cancelled" \/ (u[i] \in {"human_review", "pending"} /\ Ready(snap[r], i))
  BY <1>1, <1>2 DEF Advances, Ordered, Snapshots
<1>5. \A i \in Nodes : st[i] = "succeeded" => st'[i] = "succeeded"
  BY <1>4
<1>6. ASSUME NEW i \in Nodes, st'[i] \in Started, NEW d \in deps[i] PROVE st'[d] = "succeeded"
  <2>1. d \in Nodes
    BY <1>1
  <2>2. CASE st'[i] = st[i]
    BY <1>5, <1>6, <2>1, <2>2 DEF Ordered, DependencyOrder
  <2>3. CASE st'[i] # st[i]
    <3>1. Ready(snap[r], i)
      BY <1>4, <1>6, <2>3 DEF Started
    <3>2. snap[r][d] = "succeeded"
      BY <3>1 DEF Ready
    <3> QED BY <1>5, <2>1, <3>2 DEF Ordered, Snapshots, Final
  <2> QED BY <2>2, <2>3
<1>7. DependencyOrder'
  BY <1>6 DEF DependencyOrder
<1> QED BY <1>3, <1>4, <1>7

(* _fail_run touches the root only.                                        *)
LEMMA FailRootOnly ==
  ASSUME NEW s \in [Parts -> TaskStatuses]
  PROVE  /\ FailRoot(s) \in [Parts -> TaskStatuses]
         /\ \A i \in Parts \ {Root} : FailRoot(s)[i] = s[i]
         /\ FailRoot(s)[Root] = s[Root] \/
              (s[Root] \in {"waiting_child", "pending"} /\ FailRoot(s)[Root] = "failed")
BY BoundsAssumption DEF FailRoot, Parts, Root, TaskStatuses, Settled

(* The least orphan is one.                                                *)
LEMMA FirstOrphanIsNode ==
  ASSUME TypeOK, NEW s, Orphans(s) # {}
  PROVE  FirstOrphan(s) \in Nodes
<1>1. Orphans(s) \subseteq Nodes /\ Nodes \subseteq Nat
  BY BoundsAssumption DEF Orphans, Children, TypeOK, Nodes
<1>2. \E i \in Orphans(s) : \A j \in Orphans(s) : i <= j
  BY <1>1, Least
<1> QED BY <1>1, <1>2 DEF FirstOrphan

(* The first commit of a reconciliation that goes on.                      *)
LEMMA ApplyStep ==
  ASSUME Inv, NEW r \in Reconcilers, Apply(r)
  PROVE  Inv'
<1> USE BoundsAssumption DEF Nodes, Parts, Root, def, reco, canc
<1> DEFINE t == Pass(snap[r], size)
<1>1. /\ TypeOK /\ size \in Nat /\ sub \in Int /\ size \in 0..size
      /\ Nodes \subseteq Parts /\ \A j \in Nodes : deps[j] \subseteq Nodes
      /\ snap[r] \in [Parts -> TaskStatuses]
  BY DEF Inv, TypeOK
<1>2. Advances(snap[r], t)
  BY <1>1, PassAdvances
<1> HIDE DEF t
<1>3. /\ t \in [Parts -> TaskStatuses] /\ t[Root] = snap[r][Root]
  BY <1>1, <1>2 DEF Advances
<1>4. /\ UNCHANGED <<def, run, sub, seen, canc, restarts>> /\ Frame(r)
      /\ rpc[r] = "loaded" /\ rpc'[r] = "applied" /\ snap'[r] = t
      /\ WriteTasks(snap[r], t)
  BY <1>1 DEF Apply, Clean, TypeOK, Frame, t
<1>5. st' \in [Parts -> TaskStatuses] /\ st'[Root] = st[Root]
  BY <1>1, <1>3, <1>4 DEF WriteTasks, TypeOK
<1>6. TypeOK'
  BY <1>1, <1>3, <1>4, <1>5 DEF TypeOK, Apply, t
<1>7. ASSUME Serial, Ordered
      PROVE  /\ Ordered'
             /\ \A i \in Nodes : st'[i] = st[i] \/ (st[i] = "waiting_child" /\ st'[i] \notin Final \cup {"absent"})
  <2>1. /\ \A i \in Nodes :
             \/ st'[i] = st[i] /\ t[i] = snap[r][i]
             \/ /\ st[i] = "waiting_child" /\ snap[r][i] = "waiting_child"
                /\ st'[i] = t[i] /\ t[i] \in {"cancelled", "human_review", "pending"}
        /\ DependencyOrder'
    BY <1>1, <1>2, <1>3, <1>4, <1>7, WriteNodes
  <2>2. Created' /\ cpc' = "idle"
    BY <1>4, <1>7, <2>1 DEF Ordered, Created
  <2>3. Snapshots'
    BY <1>1, <1>4, <1>7, <2>1 DEF Ordered, Snapshots, Final, Frame
  <2> QED BY <2>1, <2>2, <2>3 DEF Ordered, Final
<1>8. ASSUME Serial, Whole, Ordered, Present, Caused PROVE Present' /\ Caused'
  <2>1. Submitted /\ \A i \in Nodes : snap[r][i] # "absent"
    BY <1>4, <1>8 DEF Present
  <2>2. \A i \in Nodes \cup {Root} : t[i] # "absent"
    BY <1>1, <1>2, <1>3, <1>4, <1>8, <2>1 DEF Advances, Present
  <2>3. Present'
    BY <1>1, <1>4, <1>5, <1>7, <1>8, <2>1, <2>2 DEF Present, Submitted, Frame
  <2>4. Caused'
    BY <1>1, <1>3, <1>4, <1>5, <1>7, <1>8 DEF Caused, Final, Frame, AllDone, SomeFailed
  <2> QED BY <2>3, <2>4
<1> QED BY <1>4, <1>6, <1>7, <1>8 DEF Inv, Serial, Whole

(* The commit of a reconciliation that fails the run, because a child has  *)
(* failed or a dependency has no task.                                     *)
LEMMA FailStep ==
  ASSUME Inv, NEW r \in Reconcilers, ChildFailed(r) \/ DependencyMissing(r)
  PROVE  Inv'
<1> USE BoundsAssumption DEF Nodes, Parts, Root, def, reco, canc
<1>1. /\ TypeOK /\ size \in Nat /\ sub \in Int
      /\ Nodes \subseteq Parts /\ \A j \in Nodes : deps[j] \subseteq Nodes
      /\ snap[r] \in [Parts -> TaskStatuses]
  BY DEF Inv, TypeOK
<1>2. PICK t \in [Parts -> TaskStatuses] :
        /\ Advances(snap[r], t) /\ WriteTasks(snap[r], FailRoot(t))
        /\ ChildFailed(r) => t = snap[r]
  <2>1. CASE ChildFailed(r)
    <3>1. Advances(snap[r], snap[r])
      BY <1>1 DEF Advances
    <3> QED BY <1>1, <2>1, <3>1 DEF ChildFailed
  <2>2. CASE DependencyMissing(r)
    <3> DEFINE n == FirstOrphan(snap[r]) - 1
    <3>1. n \in 0..size
      BY <1>1, <2>2, FirstOrphanIsNode DEF DependencyMissing
    <3>2. Advances(snap[r], Pass(snap[r], n))
      BY <1>1, <3>1, PassAdvances
    <3>3. ~ChildFailed(r)
      BY <2>2 DEF DependencyMissing, ChildFailed, Clean
    <3>4. WriteTasks(snap[r], FailRoot(Pass(snap[r], n)))
      BY <2>2 DEF DependencyMissing
    <3> QED BY <3>2, <3>3, <3>4 DEF Advances
  <2> QED BY <2>1, <2>2
<1> DEFINE u == FailRoot(t)
<1>3. /\ u \in [Parts -> TaskStatuses] /\ \A i \in Nodes : u[i] = t[i]
      /\ u[Root] = t[Root] \/ (t[Root] \in {"waiting_child", "pending"} /\ u[Root] = "failed")
  BY <1>1, FailRootOnly
<1> HIDE DEF u
<1>4. /\ UNCHANGED <<def, sub, canc, restarts>> /\ Frame(r)
      /\ run' \in {run, "failed"} /\ Leave(r) /\ WriteTasks(snap[r], u)
      /\ rpc[r] = "loaded" /\ rpc'[r] = "idle" /\ \A i \in Parts : snap'[r][i] = "absent"
  BY <1>1, <1>2 DEF ChildFailed, DependencyMissing, Clean, Leave, WriteRun, TypeOK, Absent, Frame, u
<1>5. st' \in [Parts -> TaskStatuses]
  BY <1>1, <1>3, <1>4 DEF WriteTasks, TypeOK
<1>6. TypeOK'
  <2>1. Absent \in [Parts -> TaskStatuses] /\ "absent" \in RunStatuses /\ run' \in RunStatuses
    BY <1>1, <1>4 DEF Absent, TaskStatuses, RunStatuses, Settled, TypeOK
  <2> QED BY <1>1, <1>4, <1>5, <2>1 DEF TypeOK, Leave
<1>7. ASSUME Serial, Ordered
      PROVE  /\ Ordered'
             /\ \A i \in Nodes : st'[i] = st[i] \/ (st[i] = "waiting_child" /\ st'[i] \notin Final \cup {"absent"})
  <2>1. /\ \A i \in Nodes :
             \/ st'[i] = st[i] /\ u[i] = snap[r][i]
             \/ /\ st[i] = "waiting_child" /\ snap[r][i] = "waiting_child"
                /\ st'[i] = u[i] /\ u[i] \in {"cancelled", "human_review", "pending"}
        /\ DependencyOrder'
    BY <1>1, <1>2, <1>3, <1>4, <1>7, WriteNodes
  <2>2. Created' /\ cpc' = "idle"
    BY <1>4, <1>7, <2>1 DEF Ordered, Created
  <2>3. Snapshots'
    BY <1>1, <1>4, <1>7, <2>1, SMTT(30) DEF Ordered, Snapshots, Final, Frame
  <2> QED BY <2>1, <2>2, <2>3 DEF Ordered, Final
<1>8. ASSUME Serial, Whole, Ordered, Present, Caused PROVE Present' /\ Caused'
  <2>1. Submitted /\ \A i \in Nodes : snap[r][i] # "absent"
    BY <1>4, <1>8 DEF Present
  <2>2. ChildFailed(r) /\ t = snap[r]
    <3>1. Orphans(snap[r]) = {}
      BY <1>1, <2>1 DEF Orphans, Children
    <3> QED BY <1>2, <3>1 DEF DependencyMissing
  <2>3. PICK i \in Nodes : st[i] = "failed" /\ st'[i] = "failed"
    <3>1. PICK i \in Nodes : snap[r][i] = "failed"
      BY <2>2 DEF ChildFailed, SomeFailed
    <3>2. st[i] = "failed"
      BY <3>1, <1>8 DEF Ordered, Snapshots, Final
    <3> QED BY <1>7, <1>8, <3>2
  <2>4. st[Root] \notin Started
    BY <1>8, <2>3 DEF Caused, AllDone
  <2>5. st'[Root] \in {st[Root], "failed"}
    BY <1>1, <1>3, <1>4, <2>2 DEF WriteTasks, TypeOK
  <2>6. Present'
    <3>1. \A j \in Nodes : st[j] # "absent" => st'[j] # "absent"
      BY <1>7, <1>8
    <3>2. sub' = sub /\ size' = size /\ Submitted' /\ (st[Root] # "absent" => st'[Root] # "absent")
      BY <1>4, <2>1, <2>5 DEF Submitted
    <3> QED BY <1>1, <1>4, <1>8, <2>1, <3>1, <3>2, SMTT(30) DEF Present, Submitted, Frame
  <2>7. \A q \in Reconcilers \ {r} : snap'[q][Root] = "absent"
    BY <1>1, <1>4, <1>8 DEF Ordered, Snapshots, Frame
  <2>8. run' \in {"absent", "failed"} \cup RunActive \cup {"cancelled"} /\ SomeFailed(st)'
    <3>1. run # "succeeded"
      BY <1>8, <2>4 DEF Caused, Started
    <3> QED BY <1>1, <1>4, <2>3, <3>1 DEF TypeOK, RunStatuses, Settled, SomeFailed
  <2>9. Caused'
    BY <1>1, <1>4, <2>4, <2>5, <2>7, <2>8 DEF Caused, Final, Started, RunActive
  <2> QED BY <2>6, <2>9
<1> QED BY <1>4, <1>6, <1>7, <1>8 DEF Inv, Serial, Whole

(* The second commit releases the manager after every node of the run.     *)
LEMMA ManagerStep ==
  ASSUME Inv, NEW r \in Reconcilers, ReleaseManager(r)
  PROVE  Inv'
<1> USE BoundsAssumption DEF Nodes, Parts, Root, def, reco, canc
<1>1. /\ TypeOK /\ size \in Nat /\ sub \in Int
      /\ Nodes \subseteq Parts /\ \A j \in Nodes : deps[j] \subseteq Nodes
  BY DEF Inv, TypeOK
<1>2. /\ UNCHANGED <<def, sub, canc, restarts>> /\ Frame(r) /\ Leave(r)
      /\ run' \in {run, "running"}
      /\ rpc[r] = "refreshed" /\ rpc'[r] = "idle" /\ \A i \in Parts : snap'[r][i] = "absent"
      /\ snap[r][Root] = "waiting_child" /\ AllSucceeded(snap[r])
      /\ st' = [st EXCEPT ![Root] = "pending"]
  BY <1>1 DEF ReleaseManager, Leave, WriteRun, TypeOK, Absent, Frame
<1>3. st'[Root] = "pending" /\ \A i \in Nodes : st'[i] = st[i]
  BY <1>1, <1>2 DEF TypeOK
<1>4. TypeOK'
  <2>1. Absent \in [Parts -> TaskStatuses] /\ "absent" \in RunStatuses /\ run' \in RunStatuses
    BY <1>1, <1>2 DEF Absent, TaskStatuses, RunStatuses, RunActive, TypeOK
  <2>2. st' \in [Parts -> TaskStatuses]
    BY <1>1, <1>2 DEF TypeOK, TaskStatuses, Queued
  <2> QED BY <1>1, <1>2, <2>1, <2>2 DEF TypeOK, Leave
<1>5. ASSUME Serial, Ordered PROVE Ordered'
  <2>1. Created' /\ cpc' = "idle" /\ DependencyOrder'
    BY <1>1, <1>2, <1>3, <1>5 DEF Ordered, Created, DependencyOrder
  <2>2. Snapshots'
    BY <1>1, <1>2, <1>3, <1>5 DEF Ordered, Snapshots, Final, Frame
  <2> QED BY <2>1, <2>2 DEF Ordered
<1>6. ASSUME Serial, Whole, Ordered, Present, Caused PROVE Present' /\ Caused'
  <2>1. Submitted /\ st[Root] = "waiting_child"
    BY <1>2, <1>6 DEF Present, Caused
  <2>2. AllDone
    BY <1>1, <1>2, <1>6 DEF AllSucceeded, Children, Present, Ordered, Snapshots, Final, AllDone
  <2>3. Present'
    BY <1>1, <1>2, <1>3, <1>6, <2>1 DEF Present, Submitted, Frame
  <2>4. \A q \in Reconcilers \ {r} : snap'[q][Root] = "absent"
    BY <1>1, <1>2, <1>6 DEF Ordered, Snapshots, Frame
  <2>5. AllDone' /\ run' # "succeeded"
    BY <1>1, <1>2, <1>3, <1>6, <2>1, <2>2 DEF AllDone, Caused
  <2>6. ~SomeFailed(st)
    BY <2>2 DEF AllDone, SomeFailed
  <2>7. run' # "failed"
    BY <1>2, <1>6, <2>1, <2>6 DEF Caused
  <2> QED BY <1>2, <1>3, <2>3, <2>4, <2>5, <2>7 DEF Caused, Final
<1> QED BY <1>2, <1>4, <1>5, <1>6 DEF Inv, Serial, Whole

(* Cancelling the run is outside of what Serial allows.                    *)
LEMMA CancelStep ==
  ASSUME Inv, CancelRunCheck \/ CancelRunCommit
  PROVE  Inv'
<1> USE DEF def, reco, canc
<1>1. TypeOK'
  BY DEF Inv, TypeOK, CancelRunCheck, CancelRunCommit, RunStatuses, Settled, TaskStatuses, Absent, Parts, Nodes
<1>2. ~Serial
  BY DEF Inv, Ordered, Serial, CancelRunCheck, CancelRunCommit
<1>3. ~Serial'
  BY <1>2 DEF Serial, CancelRunCheck, CancelRunCommit
<1> QED BY <1>1, <1>3 DEF Inv

-----------------------------------------------------------------------------
(* Nothing exists at first.                                                *)
LEMMA InvInitially == Init => Inv
<1> SUFFICES ASSUME Init PROVE Inv
  OBVIOUS
<1> USE BoundsAssumption DEF Nodes, Parts, Root
<1>1. TypeOK
  BY DEF Init, TypeOK, Definitions, Absent, TaskStatuses, RunStatuses
<1>2. Ordered
  BY DEF Init, Ordered, Created, Snapshots, DependencyOrder, Absent, Final, Started, TypeOK
<1>3. Present /\ Caused
  BY DEF Init, Present, Caused, Absent, Final, Started, Submitted, AllDone, SomeFailed
<1> QED BY <1>1, <1>2, <1>3 DEF Inv

(* Inv is inductive.                                                       *)
LEMMA InvNext == Inv /\ [Next]_vars => Inv'
<1> SUFFICES ASSUME Inv, [Next]_vars PROVE Inv'
  OBVIOUS
<1>1. CASE Submit \/ SubmitAbort
  BY <1>1, SubmitStep
<1>2. ASSUME NEW i \in Parts,
             \/ Claim(i) \/ Refuse(i) \/ Retry(i) \/ Settle(i)
             \/ CancelTask(i) \/ StopTask(i) \/ Review(i)
      PROVE  Inv'
  BY <1>2, MoveStep, ReviewStep
<1>3. CASE PollList
  BY <1>3, ListStep
<1>4. ASSUME NEW r \in Reconcilers, Reconcile(r) \/ ReconcileCrash(r)
      PROVE  Inv'
  BY <1>4, ReadStep, LeaveStep, ApplyStep, FailStep, ManagerStep DEF Reconcile
<1>5. CASE CancelRunCheck \/ CancelRunCommit
  BY <1>5, CancelStep
<1>6. CASE UNCHANGED vars
  BY <1>6 DEF vars, def, reco, canc, Inv, TypeOK, Serial, Whole, Ordered, Created, Snapshots,
              DependencyOrder, Present, Caused, Submitted, AllDone, SomeFailed, Nodes, Final, Started
<1> QED BY <1>1, <1>2, <1>3, <1>4, <1>5, <1>6 DEF Next

(* Inv holds in every reachable state.                                     *)
LEMMA Invariance == Spec => []Inv
BY InvInitially, InvNext, PTL DEF Spec

(* Whatever the environment does, statuses and places stay in their        *)
(* domains: reconcile_run writes a status of a run, never one of a task.   *)
THEOREM OrchestrationTypeCorrect == Spec => []TypeOK
<1>1. Inv => TypeOK
  BY DEF Inv
<1> QED BY <1>1, Invariance, PTL

(* For workflows of any size and shape, met by workers, by the poll and by *)
(* reviews while they are submitted, left half submitted, with tasks that  *)
(* are cancelled and reconciliations that die: reconcile_run releases a    *)
(* node after everything it depends on succeeded, as long as               *)
(* reconciliations do not overlap and nobody cancels the run.              *)
THEOREM NodesFollowDependencies == Spec => [](Serial => DependencyOrder)
<1>1. Inv => (Serial => DependencyOrder)
  BY DEF Inv, Ordered
<1> QED BY <1>1, Invariance, PTL

(* If besides the run is reconciled only after its submission is complete, *)
(* the manager is released after all nodes succeeded (orchestrator.py:234).*)
THEOREM ManagerFollowsNodes == Spec => [](Serial /\ Whole => ManagerAfterAll)
<1>1. Inv => (Serial /\ Whole => ManagerAfterAll)
  BY DEF Inv, Caused, AllDone, ManagerAfterAll
<1> QED BY <1>1, Invariance, PTL

(* Under the same conditions a run fails only for a node or a manager that *)
(* failed, and succeeds only when all tasks have (orchestrator.py:254-262).*)
THEOREM OutcomeIsCaused == Spec => [](Serial /\ Whole => OutcomeForCause)
<1>1. Inv => (Serial /\ Whole => OutcomeForCause)
  BY DEF Inv, Caused, AllDone, OutcomeForCause, SomeFailed, Started
<1> QED BY <1>1, Invariance, PTL
=============================================================================

---------------------- MODULE CapabilityGatewayProofs ----------------------
(***************************************************************************)
(* Proofs about CapabilityGateway, for any number of calls, bindings and   *)
(* connectors and any quotas.                                              *)
(***************************************************************************)
EXTENDS CapabilityGateway, FiniteSetTheorems, TLAPS

(* TypeOK made inductive: a call that may be sent has been sent less than  *)
(* three times.                                                            *)
Typed ==
  /\ TypeOK
  /\ \A c \in Calls : pc[c] \in Unrecorded \cup {"admitted", "calling"} => sent[c] < 3

(* A call that counts holds the locks it has acquired, and no call has a   *)
(* row before it is admitted.                                              *)
Locks ==
  \A c \in Calls :
    /\ pc[c] \in InQuota => holder[BindingOf[c]] = c
    /\ pc[c] \in {"locked", "counted"} => holder[ConnectorOf[c]] = c
    /\ pc[c] \in Unrecorded => row[c].status = "absent"

(* What a call has counted stays true until it is admitted.                *)
Room ==
  \A c \in Calls : At(c, "counted") =>
    \A k \in Uses[c] : Cardinality(Active(k)) < Concurrency[k]

Bounded == Room /\ ConcurrencyBound

Inv == Typed /\ Locks /\ Bounded

(* The calls that take up concurrency.                                     *)
Inside == {c \in Calls : row[c].status = "PENDING"}

(* A step of QuotaGate, or none.                                           *)
GateStep == Gate!Next \/ Inside' = Inside

-----------------------------------------------------------------------------
(* The keys of a call are keys.                                            *)
LEMMA UsesKeys ==
  ASSUME NEW c \in Calls
  PROVE  /\ BindingOf[c] \in Keys /\ ConnectorOf[c] \in Keys
         /\ Uses[c] = {BindingOf[c], ConnectorOf[c]}
         /\ Uses[c] \subseteq Keys
BY QuotaAssumption DEF Keys, Uses

(* The calls that use a key are finitely many, and so are those after a    *)
(* step.                                                                   *)
LEMMA ActiveFinite ==
  ASSUME NEW k
  PROVE  /\ IsFiniteSet(Active(k)) /\ Cardinality(Active(k)) \in Nat
         /\ IsFiniteSet(Active(k)') /\ Cardinality(Active(k)') \in Nat
<1>1. Active(k) \subseteq Calls /\ Active(k)' \subseteq Calls
  BY DEF Active
<1>2. IsFiniteSet(Active(k)) /\ IsFiniteSet(Active(k)')
  BY <1>1, CallsAssumption, FS_Subset
<1> QED BY <1>2, FS_CardinalityType

-----------------------------------------------------------------------------
(* Steps that admit nobody: a call goes on outside the transaction that    *)
(* counts, gives its locks back or not, and if its row is written then not *)
(* as PENDING.                                                             *)
LEMMA OutsideStep ==
  ASSUME Inv, NEW c \in Calls, NEW place, Goto(c, place), place \notin InQuota,
         place \in Unrecorded => pc[c] \in Unrecorded /\ row' = row,
         holder' = holder \/ Release(c),
         \/ row' = row
         \/ \E r : r.status # "PENDING" /\ row' = [row EXCEPT ![c] = r]
  PROVE  Locks' /\ Bounded' /\ GateStep
<1>1. \A d \in Calls : d # c => pc'[d] = pc[d] /\ row'[d] = row[d]
  BY DEF Goto, Inv, Typed, TypeOK
<1>2. pc'[c] = place
  BY DEF Goto, Inv, Typed, TypeOK
<1>3. \A k \in Keys, d \in Calls : d # c /\ holder[k] = d => holder'[k] = d
  BY DEF Release
<1>4. Locks'
  BY <1>1, <1>2, <1>3, UsesKeys DEF Inv, Locks, InQuota, Unrecorded
<1>5. ASSUME NEW k \in Keys PROVE Cardinality(Active(k)') <= Cardinality(Active(k))
  <2>1. Active(k)' \subseteq Active(k)
    BY <1>1 DEF Active, Inv, Typed, TypeOK
  <2> QED BY <2>1, ActiveFinite, FS_Subset
<1>6. ConcurrencyBound'
  BY <1>5, ActiveFinite, QuotaAssumption DEF Inv, Bounded, ConcurrencyBound
<1>7. ASSUME NEW d \in Calls, At(d, "counted")', NEW k \in Uses[d]
      PROVE  Cardinality(Active(k)') < Concurrency[k]
  <2>1. At(d, "counted")
    BY <1>1, <1>2, <1>7 DEF At, InQuota
  <2>2. k \in Keys /\ Cardinality(Active(k)) < Concurrency[k]
    BY <2>1, UsesKeys, <1>7 DEF Inv, Bounded, Room
  <2> QED BY <2>2, <1>5, ActiveFinite, QuotaAssumption
<1>8. Inside' = Inside \/ (c \in Inside /\ Inside' = Inside \ {c})
  BY <1>1 DEF Inside, Inv, Typed, TypeOK
<1>9. GateStep
  BY <1>8 DEF GateStep, Gate!Next, Gate!Leave, Inside
<1> QED BY <1>4, <1>6, <1>7, <1>9 DEF Bounded, Room

(* Steps within that transaction: rows do not change.                      *)
LEMMA LockStep ==
  ASSUME Inv, NEW c \in Calls, LockBinding(c) \/ LockConnector(c)
  PROVE  Locks' /\ Bounded' /\ GateStep
<1>1. ASSUME NEW key \in Keys, NEW place, Acquire(c, key, place), place # "counted"
      PROVE  /\ \A d \in Calls : d # c => pc'[d] = pc[d]
             /\ pc'[c] = place
             /\ \A k \in Keys, d \in Calls : d # c /\ holder[k] = d => holder'[k] = d
             /\ holder'[key] = c
             /\ holder[key] = None
             /\ \A k \in Keys : holder[k] = c => holder'[k] = c
             /\ row' = row
             /\ Bounded' /\ GateStep
  <2>1. /\ \A d \in Calls : d # c => pc'[d] = pc[d]
        /\ pc'[c] = place /\ row' = row
    BY <1>1 DEF Acquire, Goto, Inv, Typed, TypeOK, state
  <2>2. /\ \A k \in Keys, d \in Calls : d # c /\ holder[k] = d => holder'[k] = d
        /\ holder'[key] = c /\ holder[key] = None
        /\ \A k \in Keys : holder[k] = c => holder'[k] = c
    BY <1>1, CallsAssumption DEF Acquire, Inv, Typed, TypeOK
  <2>3. \A k : Active(k)' = Active(k)
    BY <2>1 DEF Active
  <2>4. Bounded'
    BY <2>1, <2>3, <1>1 DEF Inv, Bounded, Room, ConcurrencyBound, At
  <2>5. GateStep
    BY <2>1 DEF GateStep, Inside
  <2> QED BY <2>1, <2>2, <2>4, <2>5
<1>2. CASE LockBinding(c)
  <2>1. Acquire(c, BindingOf[c], "half") /\ pc[c] = "locking"
    BY <1>2 DEF LockBinding, At
  <2> QED BY <2>1, <1>1, UsesKeys DEF Inv, Locks, InQuota, Unrecorded
<1>3. CASE LockConnector(c)
  <2>1. Acquire(c, ConnectorOf[c], "locked") /\ pc[c] = "half"
    BY <1>3 DEF LockConnector, At
  <2> QED BY <2>1, <1>1, UsesKeys DEF Inv, Locks, InQuota, Unrecorded
<1> QED BY <1>2, <1>3

(* A call that has counted finds room.                                     *)
LEMMA CountStep ==
  ASSUME Inv, NEW c \in Calls, Count(c)
  PROVE  Locks' /\ Bounded' /\ GateStep
<1>1. /\ \A d \in Calls : d # c => pc'[d] = pc[d]
      /\ pc[c] = "locked" /\ pc'[c] = "counted" /\ row' = row /\ holder' = holder
  BY DEF Count, Goto, At, Inv, Typed, TypeOK, state
<1>2. \A k : Active(k)' = Active(k)
  BY <1>1 DEF Active
<1>3. \A k \in Uses[c] : Cardinality(Active(k)) < Concurrency[k]
  BY DEF Count, WithinQuota
<1>4. Locks'
  BY <1>1 DEF Inv, Locks, InQuota, Unrecorded
<1>5. Room'
  BY <1>1, <1>2, <1>3 DEF Inv, Bounded, Room, At
<1>6. ConcurrencyBound'
  BY <1>2 DEF Inv, Bounded, ConcurrencyBound
<1>7. GateStep
  BY <1>1 DEF GateStep, Inside
<1> QED BY <1>4, <1>5, <1>6, <1>7 DEF Bounded

(* A call that is admitted fills the room it has found: its locks have     *)
(* kept all others that use one of its keys from counting meanwhile.       *)
LEMMA AdmitStep ==
  ASSUME Inv, NEW c \in Calls, At(c, "counted"), Record(c, "PENDING"),
         Release(c), NEW place, Goto(c, place), place \notin Unrecorded
  PROVE  Locks' /\ Bounded' /\ GateStep
<1>1. /\ \A d \in Calls : d # c => pc'[d] = pc[d] /\ row'[d] = row[d]
      /\ pc'[c] = place /\ row[c].status = "absent" /\ row'[c].status = "PENDING"
  BY DEF Goto, Record, At, Inv, Typed, TypeOK, Locks, InQuota, Unrecorded
<1>2. \A k \in Keys, d \in Calls : d # c /\ holder[k] = d => holder'[k] = d
  BY DEF Release
<1>3. Locks'
  BY <1>1, <1>2, UsesKeys DEF Inv, Locks, InQuota, Unrecorded
<1>4. ASSUME NEW k \in Keys
      PROVE  /\ Active(k)' = IF k \in Uses[c] THEN Active(k) \cup {c} ELSE Active(k)
             /\ c \notin Active(k)
  BY <1>1 DEF Active
<1>5. ASSUME NEW k \in Uses[c]
      PROVE  k \in Keys /\ Cardinality(Active(k)') <= Concurrency[k]
  <2>1. k \in Keys /\ Cardinality(Active(k)) < Concurrency[k]
    BY UsesKeys DEF Inv, Bounded, Room
  <2>2. Cardinality(Active(k)') = Cardinality(Active(k)) + 1
    BY <2>1, <1>4, ActiveFinite, FS_AddElement
  <2> QED BY <2>1, <2>2, ActiveFinite, QuotaAssumption
<1>6. ConcurrencyBound'
  <2> SUFFICES ASSUME NEW k \in Keys PROVE Cardinality(Active(k)') <= Concurrency[k]
    BY DEF ConcurrencyBound
  <2>1. CASE k \in Uses[c]
    BY <2>1, <1>5
  <2>2. CASE k \notin Uses[c]
    BY <2>2, <1>4 DEF Inv, Bounded, ConcurrencyBound
  <2> QED BY <2>1, <2>2
<1>7. Room'
  <2> SUFFICES ASSUME NEW d \in Calls, At(d, "counted")', NEW k \in Uses[d]
               PROVE  Cardinality(Active(k)') < Concurrency[k]
    BY DEF Room
  <2>1. d # c /\ At(d, "counted")
    BY <1>1 DEF At, Unrecorded, InQuota
  <2>2. k \in Keys /\ holder[k] = d
    BY <2>1, UsesKeys DEF Inv, Locks, At, InQuota
  <2>3. \A j \in Uses[c] : holder[j] = c
    BY UsesKeys DEF Inv, Locks, At, InQuota
  <2>4. Active(k)' = Active(k)
    BY <2>1, <2>2, <2>3, <1>4
  <2> QED BY <2>1, <2>4 DEF Inv, Bounded, Room
<1>8. c \notin Inside /\ Inside' = Inside \cup {c}
  BY <1>1 DEF Inside
<1>9. GateStep
  <2>1. \A k \in Uses[c] : Active(k) = Gate!Users(k)
    BY DEF Active, Gate!Users
  <2>2. \A k \in Uses[c] : Cardinality(Gate!Users(k)) < Concurrency[k]
    BY <2>1 DEF Inv, Bounded, Room
  <2>3. \A S : Gate!Cardinality(S) = Cardinality(S)
    BY DEF Gate!Cardinality, Cardinality
  <2>4. Gate!Enter(c)
    BY <2>2, <2>3, <1>8 DEF Gate!Enter, Inside
  <2> QED BY <2>4 DEF GateStep, Gate!Next
<1> QED BY <1>3, <1>6, <1>7, <1>9 DEF Bounded

-----------------------------------------------------------------------------
(* Every step of a call keeps the locks and the bounds.                    *)
LEMMA CheckStep ==
  ASSUME Inv, NEW c \in Calls, Check(c)
  PROVE  Locks' /\ Bounded' /\ GateStep
<1>1. \E place \in {"verified", "authorized", "locking", "failing", "done"} :
        /\ Goto(c, place) /\ row' = row /\ holder' = holder
        /\ pc[c] \in Unrecorded
  BY DEF Check, Verify, Authorize, Prepare, Refuse, Reject, Reply, At, state, Unrecorded
<1> QED BY <1>1, OutsideStep DEF InQuota

LEMMA QuotaStep ==
  ASSUME Inv, NEW c \in Calls, Quota(c)
  PROVE  Locks' /\ Bounded' /\ GateStep
<1>1. CASE OverQuota(c)
  <2>1. Goto(c, "failing") /\ row' = row /\ Release(c)
    BY <1>1 DEF OverQuota, state
  <2> QED BY <2>1, OutsideStep DEF InQuota, Unrecorded
<1>2. CASE Admit(c)
  <2>1. /\ At(c, "counted") /\ Record(c, "PENDING") /\ Release(c)
        /\ Goto(c, "admitted")
    BY <1>2 DEF Admit
  <2> QED BY <2>1, AdmitStep DEF InQuota, Unrecorded
<1> QED BY <1>1, <1>2, LockStep, CountStep DEF Quota

LEMMA ProvideStep ==
  ASSUME Inv, NEW c \in Calls, Provide(c)
  PROVE  Locks' /\ Bounded' /\ GateStep
<1>1. \E place \in {"finishing", "calling", "waiting", "failing", "replied", "timedOut"} :
        Goto(c, place) /\ row' = row /\ holder' = holder
  BY DEF Provide, CacheHit, CacheMiss, Send, Unsendable, Attempt, Accept,
         OutputInvalid, state
<1> QED BY <1>1, OutsideStep DEF InQuota, Unrecorded

(* A row that is written, but not as PENDING.                              *)
LEMMA WriteRow ==
  ASSUME Inv, NEW c \in Calls, NEW status, status # "PENDING",
         Write(c, status) \/ Record(c, status)
  PROVE  \E r : r.status # "PENDING" /\ row' = [row EXCEPT ![c] = r]
<1>1. CASE row' = [row EXCEPT ![c] = [status |-> status, keys |-> known[c]]]
  BY <1>1
<1>2. CASE row' = [row EXCEPT ![c].status = status]
  <2>1. row' = [row EXCEPT ![c] = [row[c] EXCEPT !.status = status]]
    BY <1>2
  <2>2. [row[c] EXCEPT !.status = status].status = status
    BY DEF Inv, Typed, TypeOK, Rows
  <2> QED BY <2>1, <2>2
<1> QED BY <1>1, <1>2 DEF Write, Record

LEMMA ConcludeStep ==
  ASSUME Inv, NEW c \in Calls, Conclude(c)
  PROVE  Locks' /\ Bounded' /\ GateStep
<1>1. \E place \in {"tracing", "done"} : Goto(c, place) /\ holder' = holder
  BY DEF Conclude, Finish, Trace, TimedOut, AuditFailure, Reply
<1>2. row' = row \/ \E status \in {"SUCCEEDED", "FAILED"} :
        Write(c, status) \/ Record(c, status)
  BY DEF Conclude, Finish, Trace, TimedOut, AuditFailure
<1> QED BY <1>1, <1>2, WriteRow, OutsideStep DEF InQuota, Unrecorded

LEMMA DisturbStep ==
  ASSUME Inv, NEW c \in Calls, Disturb(c)
  PROVE  Locks' /\ Bounded' /\ GateStep
<1>1. CASE AdmitError(c)
  <2>1. Goto(c, "failing") /\ Release(c)
    BY <1>1 DEF AdmitError
  <2>2. CASE At(c, "counted") /\ Record(c, "PENDING")
    BY <2>1, <2>2, AdmitStep DEF InQuota, Unrecorded
  <2>3. CASE row' = row
    BY <2>1, <2>3, OutsideStep DEF InQuota, Unrecorded
  <2> QED BY <1>1, <2>2, <2>3 DEF AdmitError
<1>2. CASE FinishError(c) \/ AuditError(c)
  <2>1. \E place \in {"failing", "done"} : Goto(c, place) /\ holder' = holder
    BY <1>2 DEF FinishError, AuditError, Reply
  <2>2. row' = row \/ \E status \in {"SUCCEEDED", "FAILED"} :
          Write(c, status) \/ Record(c, status)
    BY <1>2 DEF FinishError, AuditError
  <2> QED BY <2>1, <2>2, WriteRow, OutsideStep DEF InQuota, Unrecorded
<1>3. CASE Die(c)
  <2>1. Goto(c, "done") /\ Release(c) /\ row' = row
    BY <1>3 DEF Die
  <2> QED BY <2>1, OutsideStep DEF InQuota, Unrecorded
<1> QED BY <1>1, <1>2, <1>3 DEF Disturb

(* Neither time nor the executions touch the rows or the locks.            *)
LEMMA ElsewhereStep ==
  ASSUME Inv, UNCHANGED <<pc, row, holder>>
  PROVE  Locks' /\ Bounded' /\ GateStep
<1>1. \A k : Active(k)' = Active(k)
  BY DEF Active
<1>2. Locks'
  BY DEF Inv, Locks
<1>3. Bounded'
  BY <1>1 DEF Inv, Bounded, Room, ConcurrencyBound, At
<1>4. GateStep
  BY DEF GateStep, Inside
<1> QED BY <1>2, <1>3, <1>4

-----------------------------------------------------------------------------
(* What every step of a call leaves well-typed: a place, an answer, a row. *)
LEMMA RecordTyped ==
  ASSUME Typed, NEW c \in Calls, NEW status \in {"PENDING", "SUCCEEDED", "FAILED"},
         (Write(c, status) /\ UNCHANGED recent) \/ Record(c, status)
  PROVE  row' \in [Calls -> Rows] /\ recent' \subseteq Calls
<1>1. [status |-> status, keys |-> known[c]] \in Rows
  BY DEF Typed, TypeOK, Rows
<1>2. row' = [row EXCEPT ![c].status = status] => row' \in [Calls -> Rows]
  BY DEF Typed, TypeOK, Rows
<1> QED BY <1>1, <1>2 DEF Write, Record, Typed, TypeOK

LEMMA CheckTyped ==
  ASSUME Typed, NEW c \in Calls, Check(c)
  PROVE  Typed'
<1>1. CASE Verify(c) \/ Authorize(c)
  BY <1>1 DEF Verify, Authorize, Reject, Reply, At, Goto, Typed, TypeOK, state, env,
              Places, Unrecorded, InQuota
<1>2. CASE Prepare(c) \/ Refuse(c)
  BY <1>2, UsesKeys DEF Prepare, Refuse, At, Goto, Typed, TypeOK, env,
              Places, Unrecorded, InQuota
<1> QED BY <1>1, <1>2 DEF Check

LEMMA QuotaTyped ==
  ASSUME Typed, NEW c \in Calls, Quota(c)
  PROVE  Typed'
<1>1. CASE LockBinding(c) \/ LockConnector(c)
  BY <1>1, UsesKeys DEF LockBinding, LockConnector, Acquire, At, Goto, Typed, TypeOK,
              state, env, Places, Unrecorded, InQuota
<1>2. CASE Count(c) \/ OverQuota(c)
  BY <1>2 DEF Count, OverQuota, Release, At, Goto, Typed, TypeOK, state, env,
              Places, Unrecorded, InQuota
<1>3. CASE Admit(c)
  <2>1. row' \in [Calls -> Rows] /\ recent' \subseteq Calls
    BY <1>3, RecordTyped DEF Admit
  <2> QED BY <1>3, <2>1 DEF Admit, Release, At, Goto, Typed, TypeOK, env, Places,
              Unrecorded, InQuota
<1> QED BY <1>1, <1>2, <1>3 DEF Quota

LEMMA ProvideTyped ==
  ASSUME Typed, NEW c \in Calls, Provide(c)
  PROVE  Typed'
<1>1. CASE CacheHit(c) \/ CacheMiss(c) \/ Unsendable(c) \/ Attempt(c) \/ OutputInvalid(c)
  BY <1>1 DEF CacheHit, CacheMiss, Unsendable, Attempt, OutputInvalid, At, Goto, Typed,
              TypeOK, state, env, Places, Unrecorded, InQuota
<1>2. CASE Send(c)
  BY <1>2 DEF Send, At, Goto, Typed, TypeOK, env, Places, Unrecorded, InQuota
<1>3. CASE Accept(c)
  BY <1>3, UsesKeys DEF Accept, At, Goto, Typed, TypeOK, env, Places, Unrecorded,
              InQuota
<1> QED BY <1>1, <1>2, <1>3 DEF Provide

LEMMA ConcludeTyped ==
  ASSUME Typed, NEW c \in Calls, Conclude(c)
  PROVE  Typed'
<1>1. row' \in [Calls -> Rows] /\ recent' \subseteq Calls
  BY RecordTyped DEF Conclude, Finish, Trace, TimedOut, AuditFailure, Typed, TypeOK
<1> QED BY <1>1 DEF Conclude, Finish, Trace, TimedOut, AuditFailure, Reply, At, Goto,
              Typed, TypeOK, env, Places, Unrecorded, InQuota

LEMMA DisturbTyped ==
  ASSUME Typed, NEW c \in Calls, Disturb(c)
  PROVE  Typed'
<1>1. row' \in [Calls -> Rows] /\ recent' \subseteq Calls
  BY RecordTyped DEF Disturb, AdmitError, FinishError, AuditError, Die, Typed, TypeOK
<1>2. hurt' \subseteq Calls
  BY DEF Disturb, AdmitError, FinishError, AuditError, Die, Disturbed, Typed, TypeOK
<1>3. holder' \in [Keys -> Calls \cup {None}]
  BY DEF Disturb, AdmitError, FinishError, AuditError, Die, Release, Typed, TypeOK
<1> QED BY <1>1, <1>2, <1>3 DEF Disturb, AdmitError, FinishError, AuditError, Die, Reply,
              At, Goto, Typed, TypeOK, env, Places, Unrecorded, InQuota

-----------------------------------------------------------------------------
(* Nobody has called at first.                                             *)
LEMMA InvInitially == Init => Inv /\ Gate!Init
<1> SUFFICES ASSUME Init PROVE Inv /\ Gate!Init
  OBVIOUS
<1>1. Typed
  BY DEF Init, Typed, TypeOK, Places, Rows
<1>2. Locks
  BY DEF Init, Locks, InQuota
<1>3. \A k : Active(k) = {}
  BY DEF Init, Active
<1>4. Bounded
  <2>1. ConcurrencyBound
    <3>1. \A k : Cardinality(Active(k)) = 0
      BY <1>3, FS_EmptySet
    <3>2. \A k \in Keys : Concurrency[k] \in Nat
      BY QuotaAssumption
    <3> QED BY <3>1, <3>2 DEF ConcurrencyBound
  <2>2. Room
    BY DEF Init, Room, At
  <2> QED BY <2>1, <2>2 DEF Bounded
<1>5. Gate!Init
  BY DEF Init, Gate!Init
<1> QED BY <1>1, <1>2, <1>4, <1>5 DEF Inv

(* Inv is inductive, and every step is one of QuotaGate or none.           *)
LEMMA InvNext == Inv /\ [Next]_vars => Inv' /\ GateStep
<1> SUFFICES ASSUME Inv, [Next]_vars PROVE Inv' /\ GateStep
  OBVIOUS
<1> USE DEF Inv
<1>1. ASSUME NEW c \in Calls, Check(c) PROVE Inv' /\ GateStep
  BY <1>1, CheckTyped, CheckStep
<1>2. ASSUME NEW c \in Calls, Quota(c) PROVE Inv' /\ GateStep
  BY <1>2, QuotaTyped, QuotaStep
<1>3. ASSUME NEW c \in Calls, Provide(c) PROVE Inv' /\ GateStep
  BY <1>3, ProvideTyped, ProvideStep
<1>4. ASSUME NEW c \in Calls, Conclude(c) PROVE Inv' /\ GateStep
  BY <1>4, ConcludeTyped, ConcludeStep
<1>5. ASSUME NEW c \in Calls, Disturb(c) PROVE Inv' /\ GateStep
  BY <1>5, DisturbTyped, DisturbStep
<1>6. ASSUME \/ \E c \in Calls : MinutePasses(c)
             \/ \E x \in Executions : EndExecution(x) \/ Revoke(x)
             \/ Expire
             \/ UNCHANGED vars
      PROVE  Inv' /\ GateStep
  <2>1. UNCHANGED <<pc, row, holder>>
    BY <1>6 DEF MinutePasses, EndExecution, Revoke, Expire, vars, state
  <2>2. Typed'
    BY <1>6 DEF MinutePasses, EndExecution, Revoke, Expire, vars, state, env, Typed, TypeOK
  <2> QED BY <2>1, <2>2, ElsewhereStep
<1> QED BY <1>1, <1>2, <1>3, <1>4, <1>5, <1>6 DEF Next, Proceed

(* Inv holds in every reachable state.                                     *)
LEMMA Invariance == Spec => []Inv
BY InvInitially, InvNext, PTL DEF Spec

(* The variables stay in their domains; in particular nothing is sent to   *)
(* a provider more than three times (_invoke_provider).                    *)
THEOREM GatewayTypeCorrect == Spec => []TypeOK
<1>1. Inv => TypeOK
  BY DEF Inv, Typed
<1> QED BY <1>1, Invariance, PTL

(* The advisory locks make _enforce_quota and the insertion one step: the  *)
(* concurrency of a binding and of a connector is never exceeded, whatever *)
(* calls overlap, die, or lose their database.                             *)
THEOREM ConcurrencyIsBounded == Spec => []ConcurrencyBound
<1>1. Inv => ConcurrencyBound
  BY DEF Inv, Bounded
<1> QED BY <1>1, Invariance, PTL

(* The PENDING rows go in and out as QuotaGate says.                       *)
THEOREM GatewayRefinesGate == Spec => ImplementsGate
<1>1. Inv /\ [Next]_vars => [Gate!Next]_Inside
  BY InvNext DEF GateStep
<1> QED BY <1>1, InvInitially, Invariance, PTL DEF Spec, ImplementsGate, Gate!Spec, Inside

-----------------------------------------------------------------------------
(* What reaches the providers, and what is recorded of it.                 *)

(* The calls that have reached their provider or may reach it now.         *)
Entered == {c \in Calls : sent[c] > 0 \/ pc[c] \in {"admitted", "calling"}}

(* How often a call was sent, by its place.                                *)
Sends(c) ==
  /\ pc[c] \in Unrecorded \cup {"admitted"} => sent[c] = 0
  /\ At(c, "calling") => sent[c] <= Retries[c]
  /\ At(c, "waiting") => sent[c] > 0
  /\ sent[c] <= Retries[c] + 1

(* A call knows what it uses before it counts, and its row refers to that. *)
Refers(c) ==
  /\ pc[c] \in InQuota \cup {"locking"} => known[c] = Uses[c]
  /\ c \in Entered => row[c].status # "absent" /\ row[c].keys = Uses[c]

(* AuditTrail made inductive: a call is answered in its last step, and the *)
(* success is recorded before it is answered.                              *)
Audited(c) ==
  /\ ~At(c, "done") => answer[c] = "none"
  /\ At(c, "tracing") => row[c].status = "SUCCEEDED"
  /\ answer[c] = "SUCCEEDED" => row[c].status = "SUCCEEDED"
  /\ At(c, "done") /\ c \notin hurt =>
       /\ answer[c] \in {"REJECTED", "SUCCEEDED", "FAILED"}
       /\ answer[c] = "REJECTED" => row[c].status = "absent" /\ sent[c] = 0
       /\ answer[c] = "FAILED" => row[c].status = "FAILED"

Book == \A c \in Calls : Sends(c) /\ Refers(c) /\ Audited(c)

(* The calls that count against the two kinds of quota.                    *)
ByExecution(c) == {d \in Entered : ExecutionOf[d] = ExecutionOf[c] /\ BindingOf[d] = BindingOf[c]}
ByMinute(k)    == {d \in Entered \cap recent : k \in Uses[d]}

(* What a call has counted of them stays true until it is admitted.        *)
CallRoom ==
  \A c \in Calls : At(c, "counted") =>
    /\ Cardinality(ByExecution(c)) < PerExecution[BindingOf[c]]
    /\ \A k \in Uses[c] : Cardinality(ByMinute(k)) < PerMinute[k]

CallQuotas ==
  /\ \A c \in Calls : Cardinality(ByExecution(c)) <= PerExecution[BindingOf[c]]
  /\ \A k \in Keys : Cardinality(ByMinute(k)) <= PerMinute[k]

CallInv == Inv /\ Book /\ CallRoom /\ CallQuotas

-----------------------------------------------------------------------------
(* The step of a call concerns its own place, row and answers only.        *)
LEMMA Apart ==
  ASSUME Inv, NEW c \in Calls, Proceed(c) \/ Disturb(c)
  PROVE  \A d \in Calls : d # c =>
           /\ pc'[d] = pc[d] /\ row'[d] = row[d] /\ known'[d] = known[d]
           /\ sent'[d] = sent[d] /\ answer'[d] = answer[d]
           /\ d \in hurt => d \in hurt'
           /\ d \in hurt' => d \in hurt
           /\ d \in recent' => d \in recent
<1> USE DEF Inv, Typed, TypeOK, Goto
<1>1. ASSUME Check(c) PROVE pc' = [pc EXCEPT ![c] = pc'[c]] /\ UNCHANGED <<row, recent, sent, hurt>>
             /\ known' = [known EXCEPT ![c] = known'[c]] /\ answer' = [answer EXCEPT ![c] = answer'[c]]
  BY <1>1 DEF Check, Verify, Authorize, Prepare, Refuse, Reject, Reply, state
<1>2. ASSUME Quota(c) PROVE pc' = [pc EXCEPT ![c] = pc'[c]] /\ UNCHANGED <<known, sent, answer, hurt>>
             /\ row' = [row EXCEPT ![c] = row'[c]] /\ recent' \subseteq recent \cup {c}
  BY <1>2 DEF Quota, LockBinding, LockConnector, Acquire, Count, OverQuota, Admit, Record, Write, state
<1>3. ASSUME Provide(c) PROVE pc' = [pc EXCEPT ![c] = pc'[c]] /\ UNCHANGED <<row, known, recent, answer, hurt>>
             /\ sent' = [sent EXCEPT ![c] = sent'[c]]
  BY <1>3 DEF Provide, CacheHit, CacheMiss, Send, Unsendable, Attempt, Accept, OutputInvalid, state
<1>4. ASSUME Conclude(c) PROVE pc' = [pc EXCEPT ![c] = pc'[c]] /\ UNCHANGED <<known, sent, hurt>>
             /\ row' = [row EXCEPT ![c] = row'[c]] /\ recent' \subseteq recent \cup {c}
             /\ answer' = [answer EXCEPT ![c] = answer'[c]]
  BY <1>4 DEF Conclude, Finish, Trace, TimedOut, AuditFailure, Reply, Record, Write
<1>5. ASSUME Disturb(c) PROVE pc' = [pc EXCEPT ![c] = pc'[c]] /\ UNCHANGED <<known, sent>>
             /\ row' = [row EXCEPT ![c] = row'[c]] /\ recent' \subseteq recent \cup {c}
             /\ answer' = [answer EXCEPT ![c] = answer'[c]] /\ hurt' = hurt \cup {c}
  BY <1>5 DEF Disturb, AdmitError, FinishError, AuditError, Die, Disturbed, Reply, Record, Write
<1> QED BY <1>1, <1>2, <1>3, <1>4, <1>5 DEF Proceed

(* What the step does to the book of its own call.                         *)
LEMMA CheckBook ==
  ASSUME Inv, Book, NEW c \in Calls, Check(c)
  PROVE  (Sends(c) /\ Refers(c) /\ Audited(c))'
<1> USE DEF Inv, Typed, TypeOK, Locks, Book, Goto, At, Sends, Refers, Audited, Entered,
        Unrecorded, InQuota
<1>1. CASE Verify(c) \/ Authorize(c)
  BY <1>1 DEF Verify, Authorize, Reject, Reply, state
<1>2. CASE Prepare(c) \/ Refuse(c)
  BY <1>2 DEF Prepare, Refuse
<1> QED BY <1>1, <1>2 DEF Check

LEMMA QuotaBook ==
  ASSUME Inv, Book, NEW c \in Calls, Quota(c)
  PROVE  (Sends(c) /\ Refers(c) /\ Audited(c))'
<1> USE DEF Inv, Typed, TypeOK, Locks, Book, Goto, At, Sends, Refers, Audited, Entered,
        Unrecorded, InQuota
<1>1. CASE LockBinding(c) \/ LockConnector(c) \/ Count(c) \/ OverQuota(c)
  BY <1>1 DEF LockBinding, LockConnector, Acquire, Count, OverQuota, state
<1>2. CASE Admit(c)
  BY <1>2 DEF Admit, Record
<1> QED BY <1>1, <1>2 DEF Quota

LEMMA ProvideBook ==
  ASSUME Inv, Book, NEW c \in Calls, Provide(c)
  PROVE  (Sends(c) /\ Refers(c) /\ Audited(c))'
<1> USE QuotaAssumption DEF Inv, Typed, TypeOK, Book, Goto, At, Sends, Refers, Audited,
        Entered, Unrecorded, InQuota
<1>1. CASE CacheHit(c) \/ CacheMiss(c)
  BY <1>1 DEF CacheHit, CacheMiss, state
<1>2. CASE Unsendable(c) \/ OutputInvalid(c)
  BY <1>2 DEF Unsendable, OutputInvalid, state
<1>3. CASE Attempt(c)
  BY <1>3 DEF Attempt, state
<1>4. CASE Send(c) \/ Accept(c)
  BY <1>4 DEF Send, Accept
<1> QED BY <1>1, <1>2, <1>3, <1>4 DEF Provide

LEMMA ConcludeBook ==
  ASSUME Inv, Book, NEW c \in Calls, Conclude(c)
  PROVE  (Sends(c) /\ Refers(c) /\ Audited(c))'
<1> USE DEF Inv, Typed, TypeOK, Rows, Book, Goto, At, Sends, Refers, Audited, Entered,
        Unrecorded, InQuota
<1>1. CASE Finish(c) \/ Trace(c) \/ TimedOut(c)
  BY <1>1 DEF Finish, Trace, TimedOut, Reply, Write
<1>2. CASE AuditFailure(c)
  BY <1>2 DEF AuditFailure, Reply, Record, Write
<1> QED BY <1>1, <1>2 DEF Conclude

LEMMA DisturbBook ==
  ASSUME Inv, Book, NEW c \in Calls, Disturb(c)
  PROVE  (Sends(c) /\ Refers(c) /\ Audited(c))'
<1> USE DEF Inv, Typed, TypeOK, Rows, Book, Goto, At, Sends, Refers, Audited, Entered,
        Unrecorded, InQuota, Disturbed
<1>1. CASE AdmitError(c)
  BY <1>1 DEF AdmitError, Record, Write
<1>2. CASE FinishError(c)
  BY <1>2 DEF FinishError, Write
<1>3. CASE AuditError(c)
  BY <1>3 DEF AuditError, Reply, Record, Write
<1>4. CASE Die(c)
  BY <1>4 DEF Die
<1> QED BY <1>1, <1>2, <1>3, <1>4 DEF Disturb

(* So the book is kept by every step of a call.                            *)
LEMMA BookStep ==
  ASSUME Inv, Book, NEW c \in Calls, Proceed(c) \/ Disturb(c)
  PROVE  Book'
<1>1. (Sends(c) /\ Refers(c) /\ Audited(c))'
  BY CheckBook, QuotaBook, ProvideBook, ConcludeBook, DisturbBook DEF Proceed
<1>2. ASSUME NEW d \in Calls, d # c PROVE (Sends(d) /\ Refers(d) /\ Audited(d))'
  BY <1>2, Apart DEF Book, Sends, Refers, Audited, At, Entered
<1> QED BY <1>1, <1>2 DEF Book
-----------------------------------------------------------------------------
(* The counted calls are finitely many, and so are those after a step.     *)
LEMMA CallsFinite ==
  ASSUME NEW S, S \subseteq Calls
  PROVE  IsFiniteSet(S) /\ Cardinality(S) \in Nat
BY CallsAssumption, FS_Subset, FS_CardinalityType

(* A step by which no call enters and none counts.                         *)
LEMMA NobodyEnters ==
  ASSUME CallInv, Entered' \subseteq Entered, (Entered \cap recent)' \subseteq Entered \cap recent,
         \A d \in Calls : At(d, "counted")' => At(d, "counted")
  PROVE  CallRoom' /\ CallQuotas'
<1> DEFINE Fewer(S, T) == Cardinality(S) \in Nat /\ Cardinality(T) \in Nat /\ Cardinality(S) <= Cardinality(T)
<1>1. ASSUME NEW c \in Calls PROVE Fewer(ByExecution(c)', ByExecution(c))
  <2>1. ByExecution(c)' \subseteq ByExecution(c) /\ ByExecution(c) \subseteq Calls
    BY DEF ByExecution, Entered
  <2> QED BY <2>1, CallsFinite, FS_Subset
<1>2. ASSUME NEW k PROVE Fewer(ByMinute(k)', ByMinute(k))
  <2>1. ByMinute(k)' \subseteq ByMinute(k) /\ ByMinute(k) \subseteq Calls
    BY DEF ByMinute, Entered
  <2> QED BY <2>1, CallsFinite, FS_Subset
<1> HIDE DEF Fewer
<1>3. \A c \in Calls : PerExecution[BindingOf[c]] \in Nat
  BY QuotaAssumption
<1>4. \A k \in Keys : PerMinute[k] \in Nat
  BY QuotaAssumption
<1>5. CallRoom'
  <2> SUFFICES ASSUME NEW c \in Calls, At(c, "counted")'
               PROVE  /\ Cardinality(ByExecution(c)') < PerExecution[BindingOf[c]]
                      /\ \A k \in Uses[c] : Cardinality(ByMinute(k)') < PerMinute[k]
    BY DEF CallRoom
  <2>1. /\ Cardinality(ByExecution(c)) < PerExecution[BindingOf[c]]
        /\ \A k \in Uses[c] : k \in Keys /\ Cardinality(ByMinute(k)) < PerMinute[k]
    BY UsesKeys DEF CallInv, CallRoom
  <2> QED BY <2>1, <1>1, <1>2, <1>3, <1>4 DEF Fewer
<1>6. CallQuotas'
  <2>1. \A c \in Calls : Cardinality(ByExecution(c)') <= PerExecution[BindingOf[c]]
    BY <1>1, <1>3 DEF CallInv, CallQuotas, Fewer
  <2>2. \A k \in Keys : Cardinality(ByMinute(k)') <= PerMinute[k]
    BY <1>2, <1>4 DEF CallInv, CallQuotas, Fewer
  <2> QED BY <2>1, <2>2 DEF CallQuotas
<1> QED BY <1>5, <1>6

(* A call that has counted finds room: what may reach a provider is        *)
(* recorded, so it has been counted.                                       *)
LEMMA CountCalls ==
  ASSUME CallInv, NEW c \in Calls, Count(c)
  PROVE  CallRoom' /\ CallQuotas'
<1>1. /\ \A d \in Calls : d # c => pc'[d] = pc[d]
      /\ pc[c] = "locked" /\ pc'[c] = "counted" /\ UNCHANGED <<row, recent, sent>>
  BY DEF Count, Goto, At, CallInv, Inv, Typed, TypeOK, state
<1>2. Entered' = Entered
  BY <1>1 DEF Entered
<1>3. (\A d : ByExecution(d)' = ByExecution(d)) /\ (\A k : ByMinute(k)' = ByMinute(k))
  BY <1>1, <1>2 DEF ByExecution, ByMinute
<1>4. \A d \in Entered : d \in Calls /\ \A k \in Uses[d] : d \in Recorded(k)
  BY DEF Entered, Recorded, CallInv, Book, Refers
<1>5. Cardinality(ByExecution(c)) < PerExecution[BindingOf[c]]
  <2>1. ByExecution(c) \subseteq Recorded(BindingOf[c]) \cap Siblings(c)
    BY <1>4, UsesKeys DEF ByExecution, Siblings
  <2>2. /\ IsFiniteSet(Recorded(BindingOf[c]) \cap Siblings(c))
        /\ Cardinality(Recorded(BindingOf[c]) \cap Siblings(c)) \in Nat
    BY CallsFinite DEF Recorded
  <2>3. /\ Cardinality(ByExecution(c)) <= Cardinality(Recorded(BindingOf[c]) \cap Siblings(c))
        /\ Cardinality(ByExecution(c)) \in Nat
    BY <2>1, <2>2, FS_Subset, FS_CardinalityType
  <2>4. Cardinality(Recorded(BindingOf[c]) \cap Siblings(c)) < PerExecution[BindingOf[c]]
    BY DEF Count, WithinQuota
  <2>5. PerExecution[BindingOf[c]] \in Nat
    BY QuotaAssumption
  <2> QED BY <2>2, <2>3, <2>4, <2>5
<1>6. ASSUME NEW k \in Uses[c] PROVE Cardinality(ByMinute(k)) < PerMinute[k]
  <2>1. ByMinute(k) \subseteq Recorded(k) \cap recent
    BY <1>4 DEF ByMinute
  <2>2. IsFiniteSet(Recorded(k) \cap recent) /\ Cardinality(Recorded(k) \cap recent) \in Nat
    BY CallsFinite DEF Recorded
  <2>3. /\ Cardinality(ByMinute(k)) <= Cardinality(Recorded(k) \cap recent)
        /\ Cardinality(ByMinute(k)) \in Nat
    BY <2>1, <2>2, FS_Subset, FS_CardinalityType
  <2>4. Cardinality(Recorded(k) \cap recent) < PerMinute[k]
    BY DEF Count, WithinQuota
  <2>5. PerMinute[k] \in Nat
    BY UsesKeys, QuotaAssumption
  <2> QED BY <2>2, <2>3, <2>4, <2>5
<1>7. CallRoom'
  BY <1>1, <1>3, <1>5, <1>6 DEF CallInv, CallRoom, At
<1>8. CallQuotas'
  BY <1>3 DEF CallInv, CallQuotas
<1> QED BY <1>7, <1>8

(* A call that is admitted fills the room it has found: its locks have     *)
(* kept all others of its binding or connector from counting meanwhile.    *)
LEMMA AdmitCalls ==
  ASSUME CallInv, NEW c \in Calls, Admit(c)
  PROVE  CallRoom' /\ CallQuotas'
<1>1. /\ \A d \in Calls : d # c => pc'[d] = pc[d]
      /\ pc[c] = "counted" /\ pc'[c] = "admitted" /\ UNCHANGED sent
      /\ recent' = recent \cup {c} /\ c \notin Entered
  BY DEF Admit, Record, Goto, At, CallInv, Inv, Typed, TypeOK, Locks, Book, Sends, Entered,
         Unrecorded, InQuota
<1>2. Entered' = Entered \cup {c}
  BY <1>1 DEF Entered
<1>3. ASSUME NEW d \in Calls
      PROVE  /\ ByExecution(d)' = IF BindingOf[c] = BindingOf[d] /\ ExecutionOf[c] = ExecutionOf[d]
                                    THEN ByExecution(d) \cup {c} ELSE ByExecution(d)
             /\ c \notin ByExecution(d)
  BY <1>1, <1>2 DEF ByExecution
<1>4. ASSUME NEW k
      PROVE  /\ ByMinute(k)' = IF k \in Uses[c] THEN ByMinute(k) \cup {c} ELSE ByMinute(k)
             /\ c \notin ByMinute(k)
  BY <1>1, <1>2 DEF ByMinute
<1>5. (\A d \in Calls : ByExecution(d) = ByExecution(c) \/ BindingOf[c] # BindingOf[d]
                          \/ ExecutionOf[c] # ExecutionOf[d])
  BY DEF ByExecution
<1>6. /\ Cardinality(ByExecution(c)) < PerExecution[BindingOf[c]]
      /\ \A k \in Uses[c] : k \in Keys /\ Cardinality(ByMinute(k)) < PerMinute[k]
  BY <1>1, UsesKeys DEF CallInv, CallRoom, At
<1>7. /\ \A d \in Calls : IsFiniteSet(ByExecution(d)) /\ Cardinality(ByExecution(d)) \in Nat
                           /\ PerExecution[BindingOf[d]] \in Nat
      /\ \A k : IsFiniteSet(ByMinute(k)) /\ Cardinality(ByMinute(k)) \in Nat
      /\ \A k \in Keys : PerMinute[k] \in Nat
  BY CallsFinite, QuotaAssumption DEF ByExecution, ByMinute, Entered
<1>8. CallQuotas'
  <2>1. ASSUME NEW d \in Calls PROVE Cardinality(ByExecution(d)') <= PerExecution[BindingOf[d]]
    <3>1. CASE BindingOf[c] = BindingOf[d] /\ ExecutionOf[c] = ExecutionOf[d]
      <4>1. Cardinality(ByExecution(d)') = Cardinality(ByExecution(d)) + 1
        BY <3>1, <1>3, <1>7, FS_AddElement
      <4>2. Cardinality(ByExecution(d)) < PerExecution[BindingOf[d]]
        BY <3>1, <1>5, <1>6
      <4> QED BY <4>1, <4>2, <1>7
    <3>2. CASE ~(BindingOf[c] = BindingOf[d] /\ ExecutionOf[c] = ExecutionOf[d])
      BY <3>2, <1>3 DEF CallInv, CallQuotas
    <3> QED BY <3>1, <3>2
  <2>2. ASSUME NEW k \in Keys PROVE Cardinality(ByMinute(k)') <= PerMinute[k]
    <3>1. CASE k \in Uses[c]
      <4>1. Cardinality(ByMinute(k)') = Cardinality(ByMinute(k)) + 1
        BY <3>1, <1>4, <1>7, FS_AddElement
      <4> QED BY <4>1, <3>1, <1>6, <1>7
    <3>2. CASE k \notin Uses[c]
      BY <3>2, <1>4 DEF CallInv, CallQuotas
    <3> QED BY <3>1, <3>2
  <2> QED BY <2>1, <2>2 DEF CallQuotas
<1>9. CallRoom'
  <2> SUFFICES ASSUME NEW d \in Calls, At(d, "counted")'
               PROVE  /\ Cardinality(ByExecution(d)') < PerExecution[BindingOf[d]]
                      /\ \A k \in Uses[d] : Cardinality(ByMinute(k)') < PerMinute[k]
    BY DEF CallRoom
  <2>1. d # c /\ At(d, "counted")
    BY <1>1 DEF At
  <2>2. \A k \in Uses[d] : k \in Keys /\ holder[k] = d
    BY <2>1, UsesKeys DEF CallInv, Inv, Locks, At, InQuota
  <2>3. \A k \in Uses[c] : holder[k] = c
    BY <1>1, UsesKeys DEF CallInv, Inv, Locks, InQuota
  <2>4. BindingOf[c] \in Uses[c] /\ BindingOf[d] \in Uses[d]
    BY UsesKeys
  <2>5. ByExecution(d)' = ByExecution(d) /\ \A k \in Uses[d] : ByMinute(k)' = ByMinute(k)
    BY <2>1, <2>2, <2>3, <2>4, <1>3, <1>4
  <2> QED BY <2>1, <2>5 DEF CallInv, CallRoom
<1> QED BY <1>8, <1>9

(* No other step of a call lets it enter.                                  *)
LEMMA OtherCalls ==
  ASSUME CallInv, NEW c \in Calls, Proceed(c) \/ Disturb(c), ~Count(c), ~Admit(c)
  PROVE  CallRoom' /\ CallQuotas'
<1> USE DEF Goto, At
<1>1. /\ At(c, "counted")' => At(c, "counted")
      /\ c \in Entered' => c \in Entered /\ (c \in recent' => c \in recent)
  <2> USE DEF CallInv, Inv, Typed, TypeOK, Locks, Book, Sends, Refers, Entered, Unrecorded, InQuota
  <2>1. CASE Check(c)
    BY <2>1 DEF Check, Verify, Authorize, Prepare, Refuse, Reject, Reply, state
  <2>2. CASE Quota(c)
    BY <2>2 DEF Quota, LockBinding, LockConnector, Acquire, OverQuota, state
  <2>3. CASE Provide(c)
    BY <2>3 DEF Provide, CacheHit, CacheMiss, Send, Unsendable, Attempt, Accept, OutputInvalid, state
  <2>4. CASE Conclude(c)
    BY <2>4 DEF Conclude, Finish, Trace, TimedOut, AuditFailure, Reply, Record
  <2>5. CASE Disturb(c)
    BY <2>5 DEF Disturb, AdmitError, FinishError, AuditError, Die, Reply, Record
  <2> QED BY <2>1, <2>2, <2>3, <2>4, <2>5 DEF Proceed
<1>2. /\ Entered' \subseteq Entered
      /\ (Entered \cap recent)' \subseteq Entered \cap recent
      /\ \A d \in Calls : At(d, "counted")' => At(d, "counted")
  BY <1>1, Apart DEF CallInv, Entered
<1> QED BY <1>2, NobodyEnters

-----------------------------------------------------------------------------
(* Nobody has called at first.                                             *)
LEMMA CallsInitially == Init => CallInv
<1> SUFFICES ASSUME Init PROVE CallInv
  OBVIOUS
<1>1. Entered = {}
  BY DEF Init, Entered
<1>2. \A c \in Calls : Sends(c) /\ Refers(c) /\ Audited(c)
  BY <1>1, QuotaAssumption DEF Init, Sends, Refers, Audited, At, InQuota
<1>3. (\A c : Cardinality(ByExecution(c)) = 0) /\ (\A k : Cardinality(ByMinute(k)) = 0)
  BY <1>1, FS_EmptySet DEF ByExecution, ByMinute
<1>4. CallQuotas
  BY <1>3, QuotaAssumption DEF CallQuotas
<1>5. CallRoom
  BY DEF Init, CallRoom, At
<1> QED BY <1>2, <1>4, <1>5, InvInitially DEF CallInv, Book

(* CallInv is inductive.                                                   *)
LEMMA CallsNext == CallInv /\ [Next]_vars => CallInv'
<1> SUFFICES ASSUME CallInv, [Next]_vars PROVE CallInv'
  OBVIOUS
<1>1. Inv'
  BY InvNext DEF CallInv
<1>2. ASSUME NEW c \in Calls, Proceed(c) \/ Disturb(c)
      PROVE  (Book /\ CallRoom /\ CallQuotas)'
  BY <1>2, BookStep, CountCalls, AdmitCalls, OtherCalls DEF CallInv
<1>3. ASSUME \/ \E c \in Calls : MinutePasses(c)
             \/ \E x \in Executions : EndExecution(x) \/ Revoke(x)
             \/ Expire
             \/ UNCHANGED vars
      PROVE  (Book /\ CallRoom /\ CallQuotas)'
  <2>1. UNCHANGED <<pc, row, known, sent, answer, hurt>> /\ recent' \subseteq recent
    BY <1>3 DEF MinutePasses, EndExecution, Revoke, Expire, vars, state
  <2>2. Book'
    BY <2>1 DEF CallInv, Book, Sends, Refers, Audited, Entered, At
  <2>3. (CallRoom /\ CallQuotas)'
    BY <2>1, NobodyEnters DEF Entered, At
  <2> QED BY <2>2, <2>3
<1> QED BY <1>1, <1>2, <1>3 DEF Next, CallInv

(* CallInv holds in every reachable state.                                 *)
LEMMA CallsInvariance == Spec => []CallInv
BY CallsInitially, CallsNext, PTL DEF Spec

(* No more calls reach their provider than _enforce_quota allows, although *)
(* refused calls are recorded meanwhile without a lock and executions and  *)
(* minutes are counted apart from the concurrency.                         *)
THEOREM CallsAreBounded == Spec => []CallsBound
<1>1. ASSUME CallInv PROVE CallsBound
  <2> DEFINE reached == {c \in Calls : sent[c] > 0}
  <2>1. \A c \in Calls : sent[c] <= Retries[c] + 1
    BY <1>1 DEF CallInv, Book, Sends
  <2>2. ASSUME NEW c \in Calls
        PROVE  Cardinality({d \in reached \cap Siblings(c) : BindingOf[d] = BindingOf[c]})
                 <= PerExecution[BindingOf[c]]
    <3> DEFINE S == {d \in reached \cap Siblings(c) : BindingOf[d] = BindingOf[c]}
    <3>1. S \subseteq ByExecution(c) /\ ByExecution(c) \subseteq Calls
      BY DEF ByExecution, Entered, Siblings
    <3>2. Cardinality(S) <= Cardinality(ByExecution(c))
      BY <3>1, CallsFinite, FS_Subset
    <3>3. Cardinality(S) \in Nat /\ Cardinality(ByExecution(c)) \in Nat
      BY <3>1, CallsFinite
    <3>4. Cardinality(ByExecution(c)) <= PerExecution[BindingOf[c]] /\ PerExecution[BindingOf[c]] \in Nat
      BY <1>1, QuotaAssumption DEF CallInv, CallQuotas
    <3> HIDE DEF S
    <3>5. Cardinality(S) <= PerExecution[BindingOf[c]]
      BY <3>2, <3>3, <3>4
    <3> QED BY <3>5 DEF S
  <2>3. ASSUME NEW k \in Keys
        PROVE  Cardinality({d \in reached \cap recent : k \in Uses[d]}) <= PerMinute[k]
    <3> DEFINE S == {d \in reached \cap recent : k \in Uses[d]}
    <3>1. S \subseteq ByMinute(k) /\ ByMinute(k) \subseteq Calls
      BY DEF ByMinute, Entered
    <3>2. Cardinality(S) <= Cardinality(ByMinute(k))
      BY <3>1, CallsFinite, FS_Subset
    <3>3. Cardinality(S) \in Nat /\ Cardinality(ByMinute(k)) \in Nat
      BY <3>1, CallsFinite
    <3>4. Cardinality(ByMinute(k)) <= PerMinute[k] /\ PerMinute[k] \in Nat
      BY <1>1, QuotaAssumption DEF CallInv, CallQuotas
    <3> HIDE DEF S
    <3>5. Cardinality(S) <= PerMinute[k]
      BY <3>2, <3>3, <3>4
    <3> QED BY <3>5 DEF S
  <2> QED BY <2>1, <2>2, <2>3 DEF CallsBound
<1> QED BY <1>1, CallsInvariance, PTL

(* What invoke_capability answers is what it has recorded, and a row stays *)
(* PENDING only if the call died or the database failed.                   *)
THEOREM AuditIsComplete == Spec => []AuditTrail
<1>1. CallInv => AuditTrail
  BY DEF CallInv, Book, Audited, AuditTrail
<1> QED BY <1>1, CallsInvariance, PTL
=============================================================================

------------------------- MODULE CapabilityGateway -------------------------
(***************************************************************************)
(* Calls of capabilities: invoke_capability of                             *)
(* services/mcp-gateway/hermes_mcp_gateway/capability_gateway.py.          *)
(*                                                                         *)
(* A call is checked (token, execution, binding, approval, arguments),     *)
(* counted against the quotas of its binding and of its connector under    *)
(* two advisory locks, recorded as PENDING, answered from the cache or by  *)
(* the provider, and recorded again with its outcome.  One step is one     *)
(* Redis command, one database transaction or statement that others can    *)
(* see, or one answer of the provider.                                     *)
(*                                                                         *)
(* FAILED stands for DENIED as well.  What is cached is kept per binding   *)
(* and connector: all calls of a binding have the same arguments.          *)
(* Contents, policies on arguments, latencies and the renewal of tokens    *)
(* are left out.                                                           *)
(*                                                                         *)
(* Operators whose name ends in "Bug" are variants of the operator that    *)
(* follows them, with a mistake somebody could make in that code; no       *)
(* specification uses them.                                                *)
(***************************************************************************)
EXTENDS Naturals, FiniteSets

CONSTANTS
  Calls, Bindings, Connectors, Executions,
  BindingOf, ConnectorOf, ExecutionOf,  \* functions on Calls
  Concurrency,   \* max_concurrency of a binding or connector
  PerMinute,     \* calls_per_minute of a binding or connector
  PerExecution,  \* calls_per_execution of a binding
  Retries,       \* max_retries of a call that may be sent again; else 0
  Cacheable,     \* the bindings whose results are cached
  Trouble,       \* kinds of trouble: "death", "database"
  MaxTrouble,    \* how often
  None

Keys == Bindings \cup Connectors

(* A quota of 0 in a policy means the default (capability_gateway.py:533). *)
ASSUME QuotaAssumption ==
  /\ BindingOf \in [Calls -> Bindings]
  /\ ConnectorOf \in [Calls -> Connectors]
  /\ ExecutionOf \in [Calls -> Executions]
  /\ Concurrency \in [Keys -> Nat \ {0}]
  /\ PerMinute \in [Keys -> Nat \ {0}]
  /\ PerExecution \in [Bindings -> Nat \ {0}]
  /\ Retries \in [Calls -> Nat]
  /\ Cacheable \subseteq Bindings
  /\ MaxTrouble \in Nat
ASSUME CallsAssumption == IsFiniteSet(Calls) /\ None \notin Calls
ASSUME KeysAssumption  == Bindings \cap Connectors = {}

VARIABLES
  pc,       \* where a call is
  row,      \* the rows of capability_invocations, one per call
  known,    \* the bindings and connectors a call has loaded
  recent,   \* the calls recorded less than a minute ago
  holder,   \* who holds the advisory lock of a key
  sent,     \* how often a call was sent to the provider
  cached,   \* the bindings and connectors with a result in the cache
  answer,   \* what the runtime was answered
  running,  \* the executions that run
  revoked,  \* the executions whose token is revoked
  hurt      \* history: the calls that died or whose row could not be written

state == <<row, known, recent, sent, cached, answer, hurt>>
env   == <<running, revoked>>
vars  == <<pc, row, known, recent, holder, sent, cached, answer, running,
           revoked, hurt>>

-----------------------------------------------------------------------------
Uses      == [c \in Calls |-> {BindingOf[c], ConnectorOf[c]}]
InQuota   == {"half", "locked", "counted"}   \* in the transaction that counts
Places    == {"new", "verified", "authorized", "locking"} \cup InQuota \cup
             {"admitted", "calling", "waiting", "replied", "finishing",
              "tracing", "failing", "timedOut", "done"}
Unrecorded == {"new", "verified", "authorized", "locking"} \cup InQuota

Active(k)   == {c \in Calls : row[c].status = "PENDING" /\ k \in Uses[c]}
Recorded(k) == {c \in Calls : row[c].status # "absent" /\ k \in row[c].keys}
Siblings(c) == {d \in Calls : ExecutionOf[d] = ExecutionOf[c]}

Init ==
  /\ pc = [c \in Calls |-> "new"]
  /\ row = [c \in Calls |-> [status |-> "absent", keys |-> {}]]
  /\ known = [c \in Calls |-> {}]
  /\ recent = {}
  /\ holder = [k \in Keys |-> None]
  /\ sent = [c \in Calls |-> 0]
  /\ cached = {}
  /\ answer = [c \in Calls |-> "none"]
  /\ running = Executions
  /\ revoked = {}
  /\ hurt = {}

At(c, place)   == pc[c] = place
Goto(c, place) == pc' = [pc EXCEPT ![c] = place]

Reply(c, a) ==
  /\ answer' = [answer EXCEPT ![c] = a]
  /\ Goto(c, "done")

(* The end of the transaction that counts, committed or not.               *)
Release(c) ==
  holder' = [k \in Keys |-> IF holder[k] = c THEN None ELSE holder[k]]

Write(c, status) == row' = [row EXCEPT ![c].status = status]

Disturbed(c, kind) ==
  /\ kind \in Trouble
  /\ hurt' = hurt \cup {c}
  /\ Cardinality(hurt') <= MaxTrouble

-----------------------------------------------------------------------------
(* The checks.                                                             *)

Reject(c) ==
  /\ Reply(c, "REJECTED")
  /\ UNCHANGED <<row, known, recent, holder, sent, cached, hurt, env>>

(* _ensure_not_revoked; a failure up to here is not recorded.              *)
Verify(c) ==
  /\ At(c, "new")
  /\ \/ ExecutionOf[c] \notin revoked /\ Goto(c, "verified")
        /\ UNCHANGED <<state, holder, env>>
     \/ Reject(c)

Authorize(c) ==
  /\ At(c, "verified")
  /\ \/ ExecutionOf[c] \in running /\ Goto(c, "authorized")
        /\ UNCHANGED <<state, holder, env>>
     \/ Reject(c)

(* Everything between the authorisation and the quota.                     *)
Prepare(c) ==
  /\ At(c, "authorized")
  /\ known' = [known EXCEPT ![c] = Uses[c]]
  /\ Goto(c, "locking")
  /\ UNCHANGED <<row, recent, holder, sent, cached, answer, hurt, env>>

Refuse(c) ==
  /\ At(c, "authorized")
  /\ \E keys \in {{}, {BindingOf[c]}, Uses[c]} :
       known' = [known EXCEPT ![c] = keys]
  /\ Goto(c, "failing")
  /\ UNCHANGED <<row, recent, holder, sent, cached, answer, hurt, env>>

-----------------------------------------------------------------------------
(* The quota.                                                              *)

(* A lock that does not exclude.                                           *)
AcquireBug(c, key, place) ==
  /\ holder' = [holder EXCEPT ![key] = c]
  /\ Goto(c, place)
  /\ UNCHANGED <<state, env>>

Acquire(c, key, place) ==
  /\ holder[key] = None
  /\ holder' = [holder EXCEPT ![key] = c]
  /\ Goto(c, place)
  /\ UNCHANGED <<state, env>>

(* Sorted by name, bindings come before connectors.                        *)
LockBinding(c)   == At(c, "locking") /\ Acquire(c, BindingOf[c], "half")
LockConnector(c) == At(c, "half") /\ Acquire(c, ConnectorOf[c], "locked")

(* What the connector allows in a minute is forgotten.                     *)
WithinQuotaBug(c) ==
  LET b == BindingOf[c] IN
  /\ Cardinality(Recorded(b) \cap Siblings(c)) < PerExecution[b]
  /\ Cardinality(Recorded(b) \cap recent) < PerMinute[b]
  /\ \A k \in Uses[c] : Cardinality(Active(k)) < Concurrency[k]

(* _enforce_quota: calls that were refused count, too.                     *)
WithinQuota(c) ==
  /\ Cardinality(Recorded(BindingOf[c]) \cap Siblings(c)) < PerExecution[BindingOf[c]]
  /\ \A k \in Uses[c] : /\ Cardinality(Recorded(k) \cap recent) < PerMinute[k]
                        /\ Cardinality(Active(k)) < Concurrency[k]

Count(c) ==
  /\ At(c, "locked")
  /\ WithinQuota(c)
  /\ Goto(c, "counted")
  /\ UNCHANGED <<state, holder, env>>

OverQuota(c) ==
  /\ At(c, "locked")
  /\ ~WithinQuota(c)
  /\ Goto(c, "failing")
  /\ Release(c)
  /\ UNCHANGED <<state, env>>

(* A row is written, new or again: a new one refers to what is known.      *)
Record(c, status) ==
  IF row[c].status = "absent"
    THEN /\ row' = [row EXCEPT ![c] = [status |-> status, keys |-> known[c]]]
         /\ recent' = recent \cup {c}
    ELSE Write(c, status) /\ UNCHANGED recent

Admit(c) ==
  /\ At(c, "counted")
  /\ Record(c, "PENDING")
  /\ Goto(c, "admitted")
  /\ Release(c)
  /\ UNCHANGED <<known, sent, cached, answer, hurt, env>>

(* A statement fails, or the commit, which may have been applied.          *)
AdmitError(c) ==
  /\ pc[c] \in InQuota
  /\ Disturbed(c, "database")
  /\ \/ At(c, "counted") /\ Record(c, "PENDING")
     \/ UNCHANGED <<row, recent>>
  /\ Goto(c, "failing")
  /\ Release(c)
  /\ UNCHANGED <<known, sent, cached, answer, env>>

-----------------------------------------------------------------------------
(* The cache and the provider.                                             *)

CacheHit(c) ==
  /\ At(c, "admitted")
  /\ Uses[c] \in cached
  /\ Goto(c, "finishing")
  /\ UNCHANGED <<state, holder, env>>

(* A miss: nothing is cached, or what is cached does not fit the contract  *)
(* or could not be read.                                                   *)
CacheMiss(c) ==
  /\ At(c, "admitted")
  /\ Goto(c, "calling")
  /\ UNCHANGED <<state, holder, env>>

Send(c) ==
  /\ At(c, "calling")
  /\ sent' = [sent EXCEPT ![c] = @ + 1]
  /\ Goto(c, "waiting")
  /\ UNCHANGED <<row, known, recent, holder, cached, answer, hurt, env>>

(* The credential cannot be decrypted, or the address is not allowed.      *)
Unsendable(c) ==
  /\ At(c, "calling")
  /\ Goto(c, "failing")
  /\ UNCHANGED <<state, holder, env>>

(* The outcomes of an attempt.  Only timeouts and answers of 429 or 5xx    *)
(* are tried again (the latter end as a failure, the former as a timeout). *)
Attempt(c) ==
  /\ At(c, "waiting")
  /\ \/ Goto(c, "replied")
     \/ sent[c] <= Retries[c] /\ sent[c] < 3 /\ Goto(c, "calling")
     \/ sent[c] > Retries[c] /\ Goto(c, "timedOut")
     \/ Goto(c, "failing")
  /\ UNCHANGED <<state, holder, env>>

(* The output fits the contract and is cached; or else the call fails.     *)
Accept(c) ==
  /\ At(c, "replied")
  /\ Goto(c, "finishing")
  /\ cached' = cached \cup {u \in {Uses[c]} : BindingOf[c] \in Cacheable}
  /\ UNCHANGED <<row, known, recent, holder, sent, answer, hurt, env>>

OutputInvalid(c) ==
  /\ At(c, "replied")
  /\ Goto(c, "failing")
  /\ UNCHANGED <<state, holder, env>>

-----------------------------------------------------------------------------
(* The outcome.                                                            *)

Finish(c) ==
  /\ At(c, "finishing")
  /\ Write(c, "SUCCEEDED")
  /\ Goto(c, "tracing")
  /\ UNCHANGED <<known, recent, holder, sent, cached, answer, hurt, env>>

(* _trace, the last step before the answer.                                *)
Trace(c) ==
  /\ At(c, "tracing")
  /\ Reply(c, "SUCCEEDED")
  /\ UNCHANGED <<row, known, recent, holder, sent, cached, hurt, env>>

(* The database fails, before or after it has applied the statement: the   *)
(* call is recorded as failed, whatever was recorded of it before.         *)
FinishError(c) ==
  /\ At(c, "finishing") \/ At(c, "tracing")
  /\ Disturbed(c, "database")
  /\ Write(c, "SUCCEEDED") \/ UNCHANGED row
  /\ Goto(c, "failing")
  /\ UNCHANGED <<known, recent, holder, sent, cached, answer, env>>

(* The handler of timeouts does not record them.                           *)
TimedOutBug(c) ==
  /\ At(c, "timedOut")
  /\ Reply(c, "FAILED")
  /\ UNCHANGED <<row, known, recent, holder, sent, cached, hurt, env>>

TimedOut(c) ==
  /\ At(c, "timedOut")
  /\ Write(c, "FAILED")
  /\ Reply(c, "FAILED")
  /\ UNCHANGED <<known, recent, holder, sent, cached, hurt, env>>

(* _audit_failure: one statement that inserts the row or overwrites it.    *)
AuditFailure(c) ==
  /\ At(c, "failing")
  /\ Record(c, "FAILED")
  /\ Reply(c, "FAILED")
  /\ UNCHANGED <<known, holder, sent, cached, hurt, env>>

(* The handler fails itself, before or after the statement is applied.     *)
AuditError(c) ==
  /\ At(c, "failing") \/ At(c, "timedOut")
  /\ Disturbed(c, "database")
  /\ Record(c, "FAILED") \/ UNCHANGED <<row, recent>>
  /\ Reply(c, "FAILED")
  /\ UNCHANGED <<known, holder, sent, cached, env>>

(* The task of the call is cancelled (no handler catches that) or its      *)
(* process dies; the database rolls back and frees the locks.              *)
Die(c) ==
  /\ ~At(c, "new") /\ ~At(c, "done")
  /\ Disturbed(c, "death")
  /\ Goto(c, "done")
  /\ Release(c)
  /\ UNCHANGED <<row, known, recent, sent, cached, answer, env>>

-----------------------------------------------------------------------------
(* The environment: time, and the executions.                              *)

MinutePasses(c) ==
  /\ c \in recent
  /\ recent' = recent \ {c}
  /\ UNCHANGED <<pc, row, known, holder, sent, cached, answer, hurt, env>>

Expire ==
  /\ cached # {}
  /\ cached' = {}
  /\ UNCHANGED <<pc, row, known, recent, holder, sent, answer, hurt, env>>

EndExecution(e) ==
  /\ e \in running
  /\ running' = running \ {e}
  /\ UNCHANGED <<pc, state, holder, revoked>>

Revoke(e) ==
  /\ e \notin running /\ e \notin revoked
  /\ revoked' = revoked \cup {e}
  /\ UNCHANGED <<pc, state, holder, running>>

-----------------------------------------------------------------------------
Check(c)   == Verify(c) \/ Authorize(c) \/ Prepare(c) \/ Refuse(c)
Quota(c)   == LockBinding(c) \/ LockConnector(c) \/ Count(c) \/ OverQuota(c) \/ Admit(c)
Provide(c) == CacheHit(c) \/ CacheMiss(c) \/ Send(c) \/ Unsendable(c)
                \/ Attempt(c) \/ Accept(c) \/ OutputInvalid(c)
Conclude(c) == Finish(c) \/ Trace(c) \/ TimedOut(c) \/ AuditFailure(c)
Disturb(c) == AdmitError(c) \/ FinishError(c) \/ AuditError(c) \/ Die(c)

Proceed(c) == Check(c) \/ Quota(c) \/ Provide(c) \/ Conclude(c)

Next ==
  \/ \E c \in Calls : Proceed(c) \/ Disturb(c) \/ MinutePasses(c)
  \/ \E e \in Executions : EndExecution(e) \/ Revoke(e)
  \/ Expire

(* A call that has been received goes on: the gateway runs, the database   *)
(* answers, and timeouts bound the wait for the provider.                  *)
Fairness == \A c \in Calls : WF_vars(Proceed(c) /\ ~At(c, "new"))

Spec == Init /\ [][Next]_vars /\ Fairness

-----------------------------------------------------------------------------
(* Correctness.                                                            *)

Rows == [status : {"absent", "PENDING", "SUCCEEDED", "FAILED"}, keys : SUBSET Keys]

(* The domains of the variables.                                           *)
TypeOK ==
  /\ pc \in [Calls -> Places]
  /\ row \in [Calls -> Rows]
  /\ known \in [Calls -> SUBSET Keys]
  /\ recent \subseteq Calls
  /\ holder \in [Keys -> Calls \cup {None}]
  /\ sent \in [Calls -> 0..3]
  /\ cached \subseteq SUBSET Keys
  /\ answer \in [Calls -> {"none", "SUCCEEDED", "FAILED", "REJECTED"}]
  /\ running \subseteq Executions
  /\ revoked \subseteq Executions
  /\ hurt \subseteq Calls

(* No binding and no connector is used by more calls at a time than its    *)
(* max_concurrency allows, however calls interleave (_enforce_quota).      *)
ConcurrencyBound ==
  \A k \in Keys : Cardinality(Active(k)) <= Concurrency[k]

(* No more calls of a binding reach the provider than its quota allows to  *)
(* an execution, and no more in a minute than that of the binding and that *)
(* of the connector allow; and none is sent again that must not be.        *)
CallsBound ==
  LET reached == {c \in Calls : sent[c] > 0} IN
  /\ \A c \in Calls :
       /\ Cardinality({d \in reached \cap Siblings(c) : BindingOf[d] = BindingOf[c]})
            <= PerExecution[BindingOf[c]]
       /\ sent[c] <= Retries[c] + 1
  /\ \A k \in Keys :
       Cardinality({d \in reached \cap recent : k \in Uses[d]}) <= PerMinute[k]

(* What the runtime is told and what is recorded agree, unless the call    *)
(* died or the database failed: in particular a row stays PENDING, and     *)
(* takes up concurrency for ever, for no other reason.                     *)
AuditTrail ==
  \A c \in Calls :
    /\ answer[c] = "SUCCEEDED" => row[c].status = "SUCCEEDED"
    /\ At(c, "done") /\ c \notin hurt =>
         CASE answer[c] = "REJECTED"  -> row[c].status = "absent" /\ sent[c] = 0
           [] answer[c] = "SUCCEEDED" -> row[c].status = "SUCCEEDED"
           [] OTHER                   -> row[c].status = "FAILED"

(* Every call that is received is over some day: nobody waits for locks    *)
(* that are never freed.                                                   *)
EveryCallEnds ==
  \A c \in Calls : ~At(c, "new") ~> At(c, "done")

Gate == INSTANCE QuotaGate WITH
          Limit <- Concurrency, inside <- {c \in Calls : row[c].status = "PENDING"}

(* The rows that are PENDING go in and out as QuotaGate says: to count and *)
(* to insert under the two locks amounts to one step.                      *)
ImplementsGate == Gate!Spec
=============================================================================

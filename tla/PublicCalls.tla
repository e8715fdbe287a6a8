---------------------------- MODULE PublicCalls ----------------------------
(***************************************************************************)
(* The calls of the public API for one Agent (backend/app/api/publications *)
(* .py) and what they stand on: the API client, its keys and its binding   *)
(* (api/production.py, repositories/production.py), the fixed window of    *)
(* the rate limit in Redis, and the audit row with the counters that one   *)
(* transaction writes with it.                                             *)
(*                                                                         *)
(* A step is one transaction, one command to Redis, or one run of the      *)
(* Agent.  The client is the one that key rotation issues its keys for;    *)
(* the other endpoints treat it like any client.  That the Agent is active *)
(* with a version in service is one flag (AgentVersions says when).        *)
(*                                                                         *)
(* Operators whose name ends in "Bug" are variants of the operator that    *)
(* follows them, with a mistake somebody could make in that code.          *)
(***************************************************************************)
EXTENDS Naturals, FiniteSets

CONSTANTS
  Calls,
  Streamed,     \* the calls that are answered with a stream
  Keys, Rotations,
  First,        \* the key there is at the beginning
  Limits,       \* of rate_limit_per_minute
  Scenes,       \* which calls there are, what administrators do, how long it takes
  MaxMinute,    \* bound: the last minute of a scene
  MaxChanges,   \* bound: how often administrators act
  None

(* rate_limit_per_minute is a natural number (schemas.py).                 *)
PublicSetting ==
  /\ IsFiniteSet(Calls) /\ Limits \subseteq Nat /\ MaxMinute \in Nat /\ First \in Keys
  /\ \A s \in Scenes : s.calls \subseteq Calls /\ s.last \in 0..MaxMinute

VARIABLES
  scene,        \* fixed
  account,      \* the status of the client, or "gone"
  quota,        \* its rate_limit_per_minute
  bound,        \* it may invoke the Agent
  serving,      \* the Agent and its publication are in service
  keys,         \* the status of each key
  shown,        \* the key whose digest the publication carries
  rotated,      \* the keys that rotations have issued
  turn,         \* the active keys a rotation has revoked, not yet committed
  minute,
  counters,     \* of the windows, in Redis
  stage,        \* where a call is
  presented,    \* its key
  window,       \* the minute it is counted in
  allowance,    \* the limit that was read with the client, 0 before
  intent,       \* the status it is about to record
  audit,        \* audit_logs: the status that is recorded
  answer,       \* what the caller was told
  total,        \* call_count of the publication
  tally,        \* success_count and failure_count
  barred,       \* history: the calls that came with a key already revoked
  started,      \* history: the calls that reached the Agent
  passed,       \* history: the calls that passed the rate limit in time
  changes

accounts == <<scene, account, quota, bound, serving, keys, shown, rotated, turn>>
clock    == <<minute, counters>>
ledger   == <<audit, total, tally>>
called   == <<presented, window, allowance, barred, started, passed>>
publicVars == <<accounts, clock, stage, intent, answer, ledger, called, changes>>

Statuses == {"succeeded", "failed", "rejected"}

Init ==
  /\ scene \in Scenes
  /\ account = "active" /\ bound = TRUE /\ serving = TRUE
  /\ quota \in Limits
  /\ keys = [k \in Keys |-> IF k = First THEN "active" ELSE "unused"]
  /\ shown = First /\ rotated = {First}
  /\ turn = [r \in Rotations |-> None]
  /\ minute = 0 /\ counters = [w \in 0..MaxMinute |-> 0]
  /\ stage = [c \in Calls |-> "new"]
  /\ presented = [c \in Calls |-> None]
  /\ window = [c \in Calls |-> 0] /\ allowance = [c \in Calls |-> 0]
  /\ intent = [c \in Calls |-> "none"]
  /\ audit = [c \in Calls |-> "none"] /\ answer = [c \in Calls |-> "none"]
  /\ total = 0 /\ tally = [success |-> 0, failure |-> 0]
  /\ barred = {} /\ started = {} /\ passed = {}
  /\ changes = 0

Go(c, from, to) == stage[c] = from /\ stage' = [stage EXCEPT ![c] = to]

(* Whatever is decided, a row is recorded before the answer.               *)
Conclude(c, from, status) ==
  /\ Go(c, from, "auditing")
  /\ intent' = [intent EXCEPT ![c] = status]

Usable(k) == keys[k] = "active" /\ account = "active"
Invocable == bound /\ serving

-----------------------------------------------------------------------------
(* Admission: _execute_public_agent.                                       *)

Arrive(c, k) ==
  /\ keys[k] # "unused"
  /\ IF serving THEN Go(c, "new", "entered") /\ UNCHANGED intent
                ELSE Conclude(c, "new", "rejected")
  /\ presented' = [presented EXCEPT ![c] = k]
  /\ barred' = IF keys[k] = "revoked" THEN barred \cup {c} ELSE barred
  /\ UNCHANGED <<accounts, clock, answer, ledger, window, allowance, started, passed, changes>>

(* The client is known, and its limit is read with it.                     *)
Attribute(c) == allowance' = [allowance EXCEPT ![c] = quota]

(* enforce_rate_limit reads the clock, then calls Redis.                   *)
ReadClock(c) == window' = [window EXCEPT ![c] = minute]

(* authenticate_api_key: all in one query; else the reason is looked for.  *)
Authenticate(c) ==
  /\ stage[c] = "entered"
  /\ IF Usable(presented[c]) /\ Invocable
       THEN Go(c, "entered", "counting") /\ Attribute(c) /\ ReadClock(c)
       ELSE Go(c, "entered", "unknown") /\ UNCHANGED <<allowance, window>>
  /\ UNCHANGED <<accounts, clock, intent, answer, ledger, presented, barred, started, passed, changes>>

(* authenticate_client_key                                                 *)
Known(c) == Usable(presented[c])

AuthenticateClient(c) ==
  /\ stage[c] = "unknown"
  /\ \/ Known(c) /\ Go(c, "unknown", "known") /\ Attribute(c) /\ UNCHANGED intent
     \/ ~Known(c) /\ Conclude(c, "unknown", "rejected") /\ UNCHANGED allowance
  /\ UNCHANGED <<accounts, clock, answer, ledger, presented, window, barred, started, passed, changes>>

(* has_invoke_permission, which may have been granted in the meantime.     *)
HasInvokePermission(c) ==
  /\ \/ Invocable /\ Go(c, "known", "counting") /\ ReadClock(c) /\ UNCHANGED intent
     \/ ~Invocable /\ Conclude(c, "known", "rejected") /\ UNCHANGED window
  /\ UNCHANGED <<accounts, clock, answer, ledger, presented, allowance, barred, started, passed, changes>>

(* enforce_rate_limit: INCR, in the window of the clock read before.       *)
EnforceRateLimit(c) ==
  LET w == window[c]
      allowed == counters[w] < allowance[c]
  IN
  /\ IF allowed THEN Go(c, "counting", "admitted") /\ UNCHANGED intent
                ELSE Conclude(c, "counting", "rejected")
  /\ counters' = [counters EXCEPT ![w] = @ + 1]
  /\ passed' = IF allowed /\ w = minute THEN passed \cup {c} ELSE passed
  /\ UNCHANGED <<accounts, minute, answer, ledger, presented, window, allowance, barred, started, changes>>

(* RedisError, whether or not the command was carried out.                 *)
RateLimitUnavailable(c) ==
  /\ Conclude(c, "counting", "failed")
  /\ \E n \in {0, 1} : counters' = [counters EXCEPT ![window[c]] = @ + n]
  /\ UNCHANGED <<accounts, minute, answer, ledger, called, changes>>

(* The API version, its schema, the envelope and the input; then a stream  *)
(* is prepared and a run is started.                                       *)
Validate(c) ==
  /\ \/ Go(c, "admitted", "executing") /\ UNCHANGED intent
     \/ Conclude(c, "admitted", "rejected")
     \/ c \in Streamed /\ Conclude(c, "admitted", "failed")
  /\ started' = IF stage'[c] = "executing" THEN started \cup {c} ELSE started
  /\ UNCHANGED <<accounts, clock, answer, ledger, presented, window, allowance, barred, passed, changes>>

-----------------------------------------------------------------------------
(* The run, the record and the answer.                                     *)

RunAgent(c) ==
  /\ \E status \in {"succeeded", "failed"} : Conclude(c, "executing", status)
  /\ UNCHANGED <<accounts, clock, answer, ledger, called, changes>>

(* The caller of a stream leaves: a failure, if the stream was waiting for *)
(* the runtime.  Otherwise, and when a process ends, the call is over.     *)
Disconnect(c) ==
  /\ c \in Streamed /\ Conclude(c, "executing", "failed")
  /\ UNCHANGED <<accounts, clock, answer, ledger, called, changes>>

Vanish(c) ==
  /\ stage[c] \notin {"new", "done"}
  /\ stage' = [stage EXCEPT ![c] = "done"]
  /\ UNCHANGED <<accounts, clock, intent, answer, ledger, called, changes>>

(* The row of an earlier attempt is overwritten.                           *)
FreshBug(c) == TRUE

(* request_id is unique.                                                   *)
Fresh(c) == audit[c] = "none"

Count(c) ==
  IF intent[c] = "succeeded"
    THEN total' = total + 1 /\ tally' = [tally EXCEPT !.success = @ + 1]
    ELSE UNCHANGED total /\ tally' = [tally EXCEPT !.failure = @ + 1]

(* record_public_call, one transaction; the row refers to the client, once *)
(* it is known.                                                            *)
Record(c) ==
  /\ Fresh(c)
  /\ account # "gone" \/ allowance[c] = 0
  /\ audit' = [audit EXCEPT ![c] = intent[c]]
  /\ Count(c)

RecordPublicCall(c) ==
  /\ Record(c)
  /\ Go(c, "auditing", "done")
  /\ answer' = [answer EXCEPT ![c] = intent[c]]
  /\ UNCHANGED <<accounts, clock, intent, called, changes>>

(* It fails, or the caller of a stream leaves in the middle, and nobody    *)
(* knows whether it was committed.  A stream then records a failure.       *)
RecordFails(c) ==
  /\ Record(c) \/ UNCHANGED ledger
  /\ IF c \in Streamed /\ intent[c] = "succeeded"
       THEN Conclude(c, "auditing", "failed")
       ELSE Go(c, "auditing", "done") /\ UNCHANGED intent
  /\ UNCHANGED <<accounts, clock, answer, called, changes>>

-----------------------------------------------------------------------------
(* Administration.                                                         *)

Open == {r \in Rotations : turn[r] # None}

(* A rotation that has begun holds the client's row.                       *)
Change(what) ==
  /\ what \in scene.admin
  /\ changes < MaxChanges
  /\ changes' = changes + 1
  /\ UNCHANGED <<scene, clock, stage, intent, answer, ledger, called>>

UpdateAPIClient ==
  /\ Change("client") /\ Open = {}
  /\ account # "gone"
  /\ \/ account' \in {"active", "suspended"} \ {account} /\ UNCHANGED quota
     \/ quota' \in Limits \ {quota} /\ UNCHANGED account
  /\ UNCHANGED <<bound, serving, keys, shown, rotated, turn>>

(* The keys and the binding go with it.                                    *)
DeleteAPIClient ==
  /\ Change("client") /\ Open = {}
  /\ account # "gone"
  /\ account' = "gone" /\ bound' = FALSE
  /\ keys' = [k \in Keys |-> IF keys[k] = "active" THEN "revoked" ELSE keys[k]]
  /\ UNCHANGED <<quota, serving, shown, rotated, turn>>

Bind ==
  /\ Change("binding")
  /\ account # "gone"
  /\ bound' = ~bound
  /\ UNCHANGED <<account, quota, serving, keys, shown, rotated, turn>>

Serve ==
  /\ Change("binding")
  /\ serving' = ~serving
  /\ UNCHANGED <<account, quota, bound, keys, shown, rotated, turn>>

RevokeAPIKey(k) ==
  /\ Change("keys")
  /\ keys[k] = "active"
  /\ keys' = [keys EXCEPT ![k] = "revoked"]
  /\ UNCHANGED <<account, quota, bound, serving, shown, rotated, turn>>

(* The client was active when it was read; the insertion waits for a       *)
(* rotation that holds its row.                                            *)
CreateAPIKey(k) ==
  /\ Change("keys") /\ Open = {}
  /\ account # "gone" /\ keys[k] = "unused"
  /\ keys' = [keys EXCEPT ![k] = "active"]
  /\ UNCHANGED <<account, quota, bound, serving, shown, rotated, turn>>

(* Nobody locks the Agent.                                                 *)
LockBug(r) == turn[r] = None

(* rotate_legacy_publication_key locks the Agent's row ...                 *)
Lock(r) == Open = {}

(* ... revokes what is active ...                                          *)
RevokeLegacyKeys(r) ==
  /\ Change("rotation")
  /\ Lock(r) /\ turn[r] = None
  /\ account = "active"
  /\ turn' = [turn EXCEPT ![r] = {k \in Keys : keys[k] = "active"}]
  /\ UNCHANGED <<account, quota, bound, serving, keys, shown, rotated>>

(* ... and issues a key, all in one transaction, which may be given up.    *)
IssueLegacyKey(r, k) ==
  /\ turn[r] # None /\ keys[k] = "unused"
  /\ keys' = [l \in Keys |-> IF l = k THEN "active"
                             ELSE IF l \in turn[r] THEN "revoked" ELSE keys[l]]
  /\ shown' = k /\ rotated' = rotated \cup {k}
  /\ bound' = TRUE
  /\ turn' = [turn EXCEPT ![r] = None]
  /\ UNCHANGED <<scene, account, quota, serving, clock, stage, intent, answer, ledger, called, changes>>

AbandonRotation(r) ==
  /\ turn[r] # None
  /\ turn' = [turn EXCEPT ![r] = None]
  /\ UNCHANGED <<scene, account, quota, bound, serving, keys, shown, rotated>>
  /\ UNCHANGED <<clock, stage, intent, answer, ledger, called, changes>>

-----------------------------------------------------------------------------
(* Time.                                                                   *)

Tick ==
  /\ minute < scene.last
  /\ minute' = minute + 1
  /\ UNCHANGED <<accounts, counters, stage, intent, answer, ledger, called, changes>>

(* The time to live is shorter than the window.                            *)
OverBug(w) == w <= minute

(* EXPIRE 60, set by the first INCR: at the earliest in the next minute.   *)
Over(w) == w < minute

Expire(w) ==
  /\ Over(w)
  /\ counters[w] > 0
  /\ counters' = [counters EXCEPT ![w] = 0]
  /\ UNCHANGED <<accounts, minute, stage, intent, answer, ledger, called, changes>>

-----------------------------------------------------------------------------
Admit(c) == (\E k \in Keys : Arrive(c, k)) \/ Authenticate(c) \/ AuthenticateClient(c)
              \/ HasInvokePermission(c) \/ EnforceRateLimit(c) \/ RateLimitUnavailable(c) \/ Validate(c)
Serving(c) == RunAgent(c) \/ Disconnect(c) \/ Vanish(c) \/ RecordPublicCall(c) \/ RecordFails(c)
Administer == \/ UpdateAPIClient \/ DeleteAPIClient \/ Bind \/ Serve
              \/ \E k \in Keys : RevokeAPIKey(k) \/ CreateAPIKey(k)
              \/ \E r \in Rotations : \/ RevokeLegacyKeys(r) \/ AbandonRotation(r)
                                      \/ \E k \in Keys : IssueLegacyKey(r, k)

Next ==
  \/ \E c \in scene.calls : Admit(c) \/ Serving(c)
  \/ Administer \/ Tick
  \/ \E w \in 0..MaxMinute : Expire(w)

Spec == Init /\ [][Next]_publicVars

-----------------------------------------------------------------------------
(* Correctness.                                                            *)

TypeOK ==
  /\ account \in {"active", "suspended", "gone"} /\ quota \in Limits
  /\ bound \in BOOLEAN /\ serving \in BOOLEAN
  /\ keys \in [Keys -> {"unused", "active", "revoked"}]
  /\ shown \in rotated /\ rotated \subseteq Keys
  /\ turn \in [Rotations -> (SUBSET Keys) \cup {None}]
  /\ minute \in 0..MaxMinute /\ counters \in [0..MaxMinute -> Nat]
  /\ stage \in [Calls -> {"new", "entered", "unknown", "known", "counting", "admitted",
                          "executing", "auditing", "done"}]
  /\ intent \in [Calls -> Statuses \cup {"none"}]
  /\ audit \in [Calls -> Statuses \cup {"none"}] /\ answer \in [Calls -> Statuses \cup {"none"}]
  /\ total \in Nat

(* A caller that was answered finds in the audit what it was told, a call  *)
(* that is recorded as rejected never reached the Agent, even when the     *)
(* record of a stream was tried twice (publications.py:625-649), and the   *)
(* counters of the publication and of the day are those of the audit rows, *)
(* whatever overlaps or fails (production.py:332-403).                     *)
AuditAgrees ==
  /\ \A c \in Calls : /\ answer[c] # "none" => audit[c] = answer[c]
                      /\ audit[c] = "rejected" => c \notin started
  /\ total = Cardinality({c \in Calls : audit[c] = "succeeded"})
  /\ tally.success = total
  /\ tally.failure = Cardinality({c \in Calls : audit[c] \in {"failed", "rejected"}})

(* Of the calls that are counted while their minute lasts no more pass     *)
(* than the highest limit one of them has read (production.py:1160-1189).  *)
RateBound ==
  \A w \in 0..MaxMinute :
    LET inTime == {c \in passed : window[c] = w} IN
    inTime # {} => \E c \in inTime : Cardinality(inTime) <= allowance[c]

(* A call with a key that was revoked before it came does not reach the    *)
(* Agent by either way through the authentication (production.py:261-329,  *)
(* publications.py:281-316); and at most one of the keys that rotations    *)
(* have issued is active, the one whose digest the publication carries     *)
(* (production.py:122-192).                                                *)
KeysExact ==
  /\ barred \cap started = {}
  /\ \A k \in rotated : keys[k] = "active" => k = shown
=============================================================================

------------------------ MODULE DatabaseConnections ------------------------
(***************************************************************************)
(* One database connection: its registry (backend/app/database_connections *)
(* .py, api/database_connections.py), which creates a revision per         *)
(* endpoint, carries scopes forward and rotates the credential, and the    *)
(* MCP service that runs the queries of Agents over pooled connections     *)
(* (services/postgres-mcp/hermes_postgres_mcp/server.py, adapters.py).     *)
(*                                                                         *)
(* An administrator's operation reads the registry, lets the MCP service   *)
(* test or discover the database, then writes in one transaction, and may  *)
(* have the pools invalidated; operations overlap.  The endpoint of a      *)
(* connection is the number of its revision, a credential the number of    *)
(* its rotation.  What the SQL policy and the scope allow of a query, and  *)
(* health, which no later step reads, are left out.                        *)
(*                                                                         *)
(* Operators whose name ends in "Bug" are variants of the operator that    *)
(* follows them, with a mistake somebody could make in that code.          *)
(***************************************************************************)
EXTENDS Naturals, FiniteSets

CONSTANTS
  Admins, Queries, Scopes,
  Worlds,       \* the kinds of database, with who works on it
  MaxRevision,  \* bound: how many endpoints
  MaxRotation,  \* bound: how many credentials
  None

(* No scope has the name of what is excused of the connection itself, its  *)
(* endpoint with its credential and its catalogue.                         *)
DatabaseSetting ==
  /\ MaxRevision \in Nat /\ MaxRotation \in Nat
  /\ Scopes \cap {"pair", "catalogue"} = {}

VARIABLES
  kind,       \* the database_type; only "postgresql" has pools
  busy,       \* the administrators and the queries there are
  enabled,
  current,    \* the revision in use, the last
  epoch,      \* the credential in use
  scopes,     \* the connector revision in the current revision of a scope
  catalogue,  \* the revision whose discovery is stored
  job,        \* the operation of an administrator
  pools,      \* TARGET_POOLS: revision and credential
  query,      \* where a query is
  runtime,    \* the revision and the credential it was authorised with
  closing,    \* the queries whose pool is being closed
  tried,      \* history: the endpoints and credentials that were tested together
  crossed,    \* history: the operations another one wrote during
  excused,    \* history: what a crossed operation has written
  disturbed,  \* history: the queries something changed during
  late        \* history: a pool was made, or not closed, after disabling

registry == <<kind, busy, enabled, current, epoch, scopes, catalogue>>
service  == <<pools, query, runtime, closing>>
history  == <<tried, crossed, excused, disturbed, late>>
databaseVars == <<registry, job, service, history>>

Idle    == [op |-> "none"]
Running == {a \in Admins : job[a].op \notin {"none", "invalidate"}}

(* create_database_connection: the first revision, tested, with a scope.   *)
Init ==
  /\ \E world \in Worlds : kind = world.kind /\ busy = world.admins \cup world.queries
  /\ enabled = TRUE /\ current = 1 /\ epoch = 1 /\ catalogue = 1
  /\ \E first \in Scopes : scopes = [s \in Scopes |-> IF s = first THEN 1 ELSE 0]
  /\ job = [a \in Admins |-> Idle]
  /\ pools = {} /\ closing = {}
  /\ query = [q \in Queries |-> "new"] /\ runtime = [q \in Queries |-> None]
  /\ tried = {<<1, 1>>}
  /\ crossed = {} /\ excused = {} /\ disturbed = {} /\ late = FALSE

Under == {q \in Queries : query[q] \in {"authorised", "waiting", "executing"}}

-----------------------------------------------------------------------------
(* Operations.                                                             *)

(* The registry is read, and the service is asked to test or to discover;  *)
(* a connection that is disabled is only discovered for a new endpoint or  *)
(* a new credential.                                                       *)
Begin(a, op) ==
  /\ job[a] = Idle
  /\ op \in {"discover", "scope"} => enabled
  /\ op = "patch" => current < MaxRevision
  /\ op = "replace" => epoch < MaxRotation
  /\ job' = [job EXCEPT ![a] = [op |-> op, revision |-> current, epoch |-> epoch]]
  /\ crossed' = crossed \ {a}
  /\ UNCHANGED <<registry, service, tried, excused, disturbed, late>>

(* Nothing is written, and what was read is forgotten.                     *)
Refuse(a, ops) ==
  /\ job[a].op \in ops
  /\ job' = [job EXCEPT ![a] = Idle]
  /\ UNCHANGED <<registry, service, history>>

(* The service cannot reach the database with that, or log in, or find     *)
(* anything in it; the name of the revision was taken.                     *)
TestFails(a) == Refuse(a, {"patch", "replace", "discover", "scope"})

(* What was discovered does not contain what the scope asks for, or what   *)
(* one of those that are carried forward does.                             *)
ScopeInvalid(a) == Refuse(a, {"scope", "revise"})

(* A transaction of a: those under way have read what it changes.          *)
Commit(a, next) ==
  /\ job' = [job EXCEPT ![a] = next]
  /\ crossed' = crossed \cup (Running \ {a})
  /\ UNCHANGED <<kind, busy>>

(* Everything a wrote while another wrote may be out of date.              *)
Excuse(a, own, gone) ==
  excused' = (excused \ gone) \cup IF a \in crossed THEN own ELSE {}

(* PATCH with an endpoint, tested with the credential that was read: the   *)
(* revision is inserted, whose number nobody else can insert now, and the  *)
(* scopes there are are selected.                                          *)
InsertRevision(a) ==
  /\ job[a].op = "patch" /\ current < MaxRevision
  /\ \A b \in Admins : job[b].op # "revise"
  /\ job' = [job EXCEPT ![a] =
       [op |-> "revise", revision |-> job[a].revision, epoch |-> job[a].epoch,
        scopes |-> {s \in Scopes : scopes[s] # 0}]]
  /\ UNCHANGED <<registry, service, history>>

(* revise_scopes_for_connector_revision: every scope that was selected gets*)
(* a revision.                                                             *)
CarryForward(chosen, revision) ==
  scopes' = [s \in Scopes |-> IF s \in chosen THEN revision ELSE scopes[s]]

Missed(chosen) == {s \in Scopes \ chosen : scopes[s] # 0}

UpdateEndpoint(a, enable) ==
  /\ job[a].op = "revise"
  /\ current' = current + 1
  /\ CarryForward(job[a].scopes, current + 1)
  /\ catalogue' = current + 1
  /\ enabled' = enable
  /\ tried' = tried \cup {<<current + 1, job[a].epoch>>}
  /\ Excuse(a, {"pair"} \cup Missed(job[a].scopes), {"pair", "catalogue"} \cup job[a].scopes)
  /\ Commit(a, [op |-> "invalidate"])
  /\ UNCHANGED <<epoch, service, disturbed, late>>

(* PATCH of enabled alone, and DELETE; only the end has the pools closed.  *)
Switch(a, enable) ==
  /\ enabled' = enable
  /\ Commit(a, IF enable THEN Idle ELSE [op |-> "invalidate"])
  /\ UNCHANGED <<pools, closing>>

SetEnabled(a, enable) ==
  /\ job[a] = Idle
  /\ enabled # enable
  /\ Switch(a, enable)
  /\ UNCHANGED <<current, epoch, scopes, catalogue, query, runtime, tried, excused, disturbed, late>>

(* The new password is stored without a test.                              *)
TestedBug(a) == UNCHANGED tried

(* It is tested with the endpoint that was read.                           *)
Tested(a) == tried' = tried \cup {<<job[a].revision, epoch + 1>>}

ReplaceCredential(a) ==
  /\ job[a].op = "replace" /\ epoch < MaxRotation
  /\ Tested(a)
  /\ epoch' = epoch + 1
  /\ disturbed' = disturbed \cup Under
  /\ Excuse(a, {"pair"}, {"pair"})
  /\ Commit(a, [op |-> "invalidate"])
  /\ UNCHANGED <<enabled, current, scopes, catalogue, service, late>>

(* store_resources replaces what was stored.                               *)
Discover(a) ==
  /\ job[a].op = "discover"
  /\ catalogue' = job[a].revision
  /\ Excuse(a, {"catalogue"}, {"catalogue"})
  /\ Commit(a, Idle)
  /\ UNCHANGED <<enabled, current, epoch, scopes, service, tried, disturbed, late>>

CreateScope(a, s) ==
  /\ job[a].op = "scope" /\ scopes[s] = 0
  /\ scopes' = [scopes EXCEPT ![s] = job[a].revision]
  /\ Excuse(a, {s}, {})
  /\ Commit(a, Idle)
  /\ UNCHANGED <<enabled, current, epoch, catalogue, service, tried, disturbed, late>>

Close(keys) ==
  /\ pools' = pools \ keys
  /\ closing' = closing \cup
       {q \in Queries : query[q] \in {"waiting", "executing"} /\ runtime[q] \in keys}

(* invalidate_connector_pools, per revision; an error is passed over.      *)
Invalidate(a, reached) ==
  /\ job[a].op = "invalidate"
  /\ reached \subseteq 1..current
  /\ Close({key \in pools : key[1] \in reached})
  /\ job' = [job EXCEPT ![a] = Idle]
  /\ disturbed' = disturbed \cup Under
  /\ late' = (late \/ reached # 1..current)
  /\ UNCHANGED <<registry, query, runtime, tried, crossed, excused>>

-----------------------------------------------------------------------------
(* Queries.                                                                *)

Enter(q, from, to) == query[q] \in from /\ query' = [query EXCEPT ![q] = to]

(* _authorize: the binding of the version names any revision there was.    *)
Authorize(q, revision) ==
  /\ Enter(q, {"new"}, "authorised")
  /\ enabled
  /\ runtime' = [runtime EXCEPT ![q] = <<revision, epoch>>]
  /\ disturbed' = IF \E p \in Under : runtime[p][2] # epoch THEN disturbed \cup {q} ELSE disturbed
  /\ UNCHANGED <<registry, job, pools, closing, tried, crossed, excused, late>>

(* The token, then the statement, then its objects and functions may not be*)
(* allowed; the functions are looked up with a connection of the pool.     *)
Deny(q, from) ==
  /\ Enter(q, {from}, "done")
  /\ closing' = closing \ {q}
  /\ UNCHANGED <<registry, job, pools, runtime, history>>

DenyToken(q)     == Deny(q, "new")
DenyStatement(q) == Deny(q, "authorised")
DenyFunction(q)  == kind = "postgresql" /\ Deny(q, "executing")

(* A pool of a revision serves whatever the credential.                    *)
PoolOfBug(q) == IF \E key \in pools : key[1] = runtime[q][1]
                  THEN CHOOSE key \in pools : key[1] = runtime[q][1]
                  ELSE runtime[q]

PoolOf(q) == runtime[q]

Stale(q) == {key \in pools : key[1] = runtime[q][1] /\ key # runtime[q]}

(* _target_pool: the pool there is, or a new one; then every other pool of *)
(* the revision is closed, also that of a newer credential.                *)
TargetPool(q) ==
  LET key == PoolOf(q) IN
  /\ kind = "postgresql"
  /\ Enter(q, {"authorised"}, "waiting")
  /\ runtime' = [runtime EXCEPT ![q] = key]
  /\ IF key \in pools
       THEN UNCHANGED <<pools, closing>>
       ELSE /\ pools' = (pools \ Stale(q)) \cup {key}
            /\ closing' = closing \cup
                 {p \in Queries : query[p] \in {"waiting", "executing"} /\ runtime[p] \in Stale(q)}
  /\ late' = (late \/ (key \notin pools /\ ~enabled))
  /\ UNCHANGED <<registry, job, tried, crossed, excused, disturbed>>

(* A connection of the pool; a pool that is closing gives none.            *)
AcquireConnection(q) ==
  /\ Enter(q, {"waiting"}, IF q \in closing THEN "closed" ELSE "executing")
  /\ UNCHANGED <<registry, job, pools, runtime, closing, history>>

(* The other databases: a connection of one's own.                         *)
Connect(q) ==
  /\ kind = "other"
  /\ Enter(q, {"authorised"}, "executing")
  /\ UNCHANGED <<registry, job, pools, runtime, closing, history>>

(* They are allowed, and the statement asks for the pool itself.           *)
Again(q) ==
  /\ kind = "postgresql"
  /\ Enter(q, {"executing"}, "authorised")
  /\ closing' = closing \ {q}
  /\ UNCHANGED <<registry, job, pools, runtime, history>>

Execute(q) ==
  /\ Enter(q, {"executing"}, "done")
  /\ closing' = closing \ {q}
  /\ UNCHANGED <<registry, job, pools, runtime, history>>

-----------------------------------------------------------------------------
Operate(a) ==
  \/ \E op \in {"patch", "replace", "discover", "scope"} : Begin(a, op)
  \/ TestFails(a) \/ ScopeInvalid(a) \/ InsertRevision(a) \/ ReplaceCredential(a) \/ Discover(a)
  \/ \E enable \in BOOLEAN : UpdateEndpoint(a, enable) \/ SetEnabled(a, enable)
  \/ \E s \in Scopes : CreateScope(a, s)
  \/ \E reached \in SUBSET (1..MaxRevision) : Invalidate(a, reached)

Run(q) ==
  \/ \E revision \in 1..current : Authorize(q, revision)
  \/ DenyToken(q) \/ DenyStatement(q) \/ DenyFunction(q) \/ TargetPool(q) \/ AcquireConnection(q) \/ Connect(q) \/ Again(q) \/ Execute(q)

Next == (\E a \in Admins \cap busy : Operate(a)) \/ \E q \in Queries \cap busy : Run(q)

Spec == Init /\ [][Next]_databaseVars

-----------------------------------------------------------------------------
(* Correctness.                                                            *)

PoolKeys == (1..MaxRevision) \X (1..MaxRotation)

TypeOK ==
  /\ kind \in {"postgresql", "other"} /\ busy \subseteq Admins \cup Queries
  /\ enabled \in BOOLEAN /\ late \in BOOLEAN
  /\ current \in 1..MaxRevision /\ catalogue \in 1..MaxRevision /\ epoch \in 1..MaxRotation
  /\ scopes \in [Scopes -> 0..MaxRevision]
  /\ \A a \in Admins : job[a].op \in {"none", "patch", "revise", "replace", "discover", "scope", "invalidate"}
  /\ pools \subseteq PoolKeys /\ tried \subseteq PoolKeys
  /\ query \in [Queries -> {"new", "authorised", "waiting", "executing", "closed", "done"}]
  /\ runtime \in [Queries -> PoolKeys \cup {None}]
  /\ closing \subseteq Queries /\ disturbed \subseteq Queries /\ crossed \subseteq Admins
  /\ excused \subseteq {"pair", "catalogue"} \cup Scopes

(* Scopes, catalogue and credential belong to the endpoint in use: each    *)
(* scope and the stored discovery name the current revision, and endpoint  *)
(* and credential were tested together, unless what wrote them overlapped  *)
(* another operation (api/database_connections.py:108-160, 219-290).       *)
RegistryCoherent ==
  /\ \A s \in Scopes \ excused : scopes[s] \in {0, current}
  /\ "catalogue" \notin excused => catalogue = current
  /\ "pair" \notin excused => <<current, epoch>> \in tried

(* A query runs with the credential that was in use when it was authorised *)
(* and there is one pool per revision, even when invalidations are lost    *)
(* (server.py:478-507). It only meets a closing pool when the connection   *)
(* was changed while it ran, or when it was overtaken by one that was      *)
(* authorised before the credential was rotated (server.py:503-515). And a *)
(* disabled connection has no pools once the operation is over, unless the *)
(* service was not reached, or a query that was authorised before came for *)
(* its pool after (api/database_connections.py:160-180).                   *)
PoolsFollow ==
  /\ \A q \in Queries : query[q] = "executing" /\ q \notin disturbed => runtime[q][2] = epoch
  /\ \A k, l \in pools : k[1] = l[1] => k = l
  /\ \A q \in Queries : query[q] = "closed" => q \in disturbed
  /\ ~enabled /\ (\A a \in Admins : job[a].op # "invalidate") => pools = {} \/ late
=============================================================================

--------------------------- MODULE AgentVersions ---------------------------
(***************************************************************************)
(* One Agent, its versions and its publication: the management endpoints   *)
(* of backend/app/api/production.py, publications.py, agents.py and        *)
(* console.py over backend/app/repositories/production.py.                 *)
(*                                                                         *)
(* A request loads rows, decides on what it loaded and writes later; only  *)
(* publish and rollback lock rows, and they lock after they have loaded.   *)
(* A lock does not load a row again, and a column is written only when it  *)
(* differs from the loaded value (SQLAlchemy; SessionFactory keeps loaded  *)
(* values across commits).  Flush says exactly that.  A step is one load   *)
(* or one transaction; an unlocked transaction, whose only statement is    *)
(* its write, is one step.                                                 *)
(*                                                                         *)
(* A configuration stands for everything a snapshot holds: prompt, model,  *)
(* runtime, Skills, MCP servers and schemas.  Public schemas and API       *)
(* bindings have endpoints of their own and are not modelled, and          *)
(* agent_publications.status, which no endpoint here reads, is left out.   *)
(*                                                                         *)
(* Operators whose name ends in "Bug" are variants of the operator that    *)
(* follows them, with a mistake somebody could make in that code; no       *)
(* specification uses them.                                                *)
(***************************************************************************)
EXTENDS Naturals

CONSTANTS
  Versions,  \* the versions the Agent may come to have
  Configs,   \* configurations
  Requests,  \* requests in flight at a time
  None

ASSUME NoneAssumption == None \notin Versions \cup Configs \cup Requests

VARIABLES
  agent,        \* the row of agents
  version,      \* the rows of agent_versions
  lock,         \* the request whose transaction holds the row locks
  req,          \* per request: the place it is at and what it has loaded
  raced         \* history: a request wrote what it decided on older rows

vars == <<agent, version, lock, req, raced>>

-----------------------------------------------------------------------------
Drafts        == {"development", "testing", "release_candidate"}
Released      == {"published", "deprecated"}
AgentStatuses == {"active", "inactive", "archived"}

VersionEdges == [development       |-> {"testing"},
                 testing           |-> {"development", "release_candidate"},
                 release_candidate |-> {"testing"}]
AgentEdges   == [active   |-> {"inactive", "archived"},
                 inactive |-> {"active", "archived"},
                 archived |-> {}]

Absent   == [status |-> "absent", snapshot |-> None]
NoAgent  == [status |-> "archived", current |-> None, apiEnabled |-> FALSE,
             config |-> None]
Idle     == [at |-> "idle", v |-> None, to |-> None, agent |-> NoAgent,
             ver |-> Absent, old |-> {}, fresh |-> TRUE]

Exists(v)     == version[v].status # "absent"
InStatus(S)   == {v \in Versions : version[v].status \in S}

(* What a transaction leaves of a row: the columns in which the object in  *)
(* memory differs from what was loaded, over what is stored by now.        *)
Flush(row, loaded, object) ==
  [c \in DOMAIN row |-> IF object[c] = loaded[c] THEN row[c] ELSE object[c]]

Init ==
  /\ agent \in [status : AgentStatuses, current : {None},
                apiEnabled : {FALSE}, config : Configs]
  /\ version = [v \in Versions |-> Absent]
  /\ lock = None
  /\ req = [r \in Requests |-> Idle]
  /\ raced = FALSE

-----------------------------------------------------------------------------
(* Requests.                                                               *)

At(r, place) == req[r].at = place

Columns == DOMAIN NoAgent

(* A request that has loaded the Agent goes on to place, where it uses the *)
(* columns cols of what it loaded.                                         *)
LoadAgent(r, place, to, cols) ==
  /\ At(r, "idle")
  /\ req' = [req EXCEPT ![r] =
               [Idle EXCEPT !.at = place, !.to = to, !.agent =
                  [c \in Columns |-> IF c \in cols THEN agent[c] ELSE NoAgent[c]]]]
  /\ UNCHANGED <<agent, version, lock, raced>>

LoadVersion(r, place, v, to) ==
  req' = [req EXCEPT ![r] =
            [@ EXCEPT !.at = place, !.v = v, !.to = to, !.ver = version[v]]]

(* A transaction of r ends and r goes on as rest: everybody else in flight *)
(* works on rows that may have changed (which does not matter any more     *)
(* after a race).                                                          *)
Commit(r, rest) ==
  /\ raced' = (raced \/ ~req[r].fresh)
  /\ req' = [q \in Requests |->
               IF q = r THEN [rest EXCEPT !.fresh = TRUE]
               ELSE [req[q] EXCEPT !.fresh = At(q, "idle") \/ raced']]

(* The locks are held on the Agent, its publication, the target version    *)
(* and the versions that are about to be deprecated.                       *)
AgentFree      == lock = None
VersionFree(v) == lock # None => v \notin {req[lock].v} \cup req[lock].old

(* A request ends without a write of its current transaction: a check      *)
(* fails (health, preflight, missing Skills, constraint), the client is    *)
(* gone, the process dies.                                                 *)
Abandon(r) ==
  /\ ~At(r, "idle")
  /\ req' = [req EXCEPT ![r] = Idle]
  /\ lock' = IF lock = r THEN None ELSE lock
  /\ UNCHANGED <<agent, version, raced>>

-----------------------------------------------------------------------------
(* Versions: create, edit, promote.                                        *)

AskCreate(r) == agent.status # "archived" /\ LoadAgent(r, "insert", None, {"config"})

(* The new row refers to the Agent, whose row must not be locked.          *)
Insert(v, config) ==
  /\ AgentFree /\ ~Exists(v)
  /\ version' = [version EXCEPT ![v] = [status   |-> "development",
                                        snapshot |-> config]]

CreateVersion(r) ==
  /\ At(r, "insert")
  /\ \E v \in Versions : Insert(v, req[r].agent.config)
  /\ Commit(r, Idle)
  /\ UNCHANGED <<agent, lock>>

(* Published and deprecated versions may be edited.                        *)
AskUpdateBug(r) ==
  /\ At(r, "idle")
  /\ \E v \in InStatus(Drafts \cup Released) :
       \E c \in Configs \ {version[v].snapshot} :
         LoadVersion(r, "snapshot", v, c)
  /\ UNCHANGED <<agent, version, lock, raced>>

(* A request for the value that is loaded writes nothing and is left out.  *)
AskUpdate(r) ==
  /\ At(r, "idle")
  /\ \E v \in InStatus(Drafts) : \E c \in Configs \ {version[v].snapshot} :
       LoadVersion(r, "snapshot", v, c)
  /\ UNCHANGED <<agent, version, lock, raced>>

AskTransition(r) ==
  /\ At(r, "idle")
  /\ \E v \in InStatus(Drafts) : \E s \in VersionEdges[version[v].status] :
       LoadVersion(r, "status", v, s)
  /\ UNCHANGED <<agent, version, lock, raced>>

(* Writes object to the version r has loaded.                              *)
WriteVersion(r, object) ==
  /\ VersionFree(req[r].v)
  /\ version' = [version EXCEPT ![req[r].v] = Flush(@, req[r].ver, object)]
  /\ UNCHANGED <<agent, lock>>

UpdateVersion(r) ==
  /\ At(r, "snapshot")
  /\ WriteVersion(r, [req[r].ver EXCEPT !.snapshot = req[r].to])
  /\ Commit(r, Idle)

TransitionVersion(r) ==
  /\ At(r, "status")
  /\ WriteVersion(r, [req[r].ver EXCEPT !.status = req[r].to])
  /\ Commit(r, Idle)

-----------------------------------------------------------------------------
(* The Agent: lifecycle and configuration.                                 *)

LifecycleColumns == Columns \ {"config"}

AskLifecycle(r) ==
  \E s \in AgentEdges[agent.status] :
    LoadAgent(r, "lifecycle", s, LifecycleColumns)

WriteAgent(r, object) ==
  /\ AgentFree
  /\ agent' = Flush(agent, req[r].agent, object)
  /\ UNCHANGED <<version, lock>>

(* transition_agent: the API is enabled for an active Agent that has been  *)
(* published.                                                              *)
InLifecycle(row, s) ==
  [row EXCEPT !.status = s,
              !.apiEnabled = (s = "active" /\ row.current # None)]

TransitionAgent(r) ==
  /\ At(r, "lifecycle")
  /\ WriteAgent(r, InLifecycle(req[r].agent, req[r].to))
  /\ Commit(r, Idle)

AskConfigure(r) ==
  /\ agent.status # "archived"
  /\ agent.current = None
  /\ \E c \in Configs \ {agent.config} : LoadAgent(r, "configure", c, {"config"})

Configure(r) ==
  /\ At(r, "configure")
  /\ WriteAgent(r, [req[r].agent EXCEPT !.config = req[r].to])
  /\ Commit(r, Idle)

-----------------------------------------------------------------------------
(* Publish and rollback: load the Agent, load the version, lock, write.    *)

AskRelease(r) ==
  /\ agent.status = "active"
  /\ \E status \in {"release_candidate", "deprecated"} :
       LoadAgent(r, "target", status, Columns)

LoadTarget(r) ==
  /\ At(r, "target")
  /\ \E v \in InStatus({req[r].to}) : LoadVersion(r, "lock", v, None)
  /\ UNCHANGED <<agent, version, lock, raced>>

(* Publish and rollback lock only the version they are about.              *)
LockBug(r) ==
  /\ At(r, "lock")
  /\ lock # None => req[lock].v # req[r].v
  /\ lock' = r
  /\ req' = [req EXCEPT ![r] =
               [@ EXCEPT !.at = "locked",
                         !.old = InStatus({"published"}) \ {req[r].v}]]
  /\ UNCHANGED <<agent, version, raced>>

(* _lock_agent_publication_and_version, and the UPDATE that deprecates     *)
(* whatever else is published by now.                                      *)
Lock(r) ==
  /\ At(r, "lock")
  /\ lock = None
  /\ lock' = r
  /\ req' = [req EXCEPT ![r] =
               [@ EXCEPT !.at = "locked",
                         !.old = InStatus({"published"}) \ {req[r].v}]]
  /\ UNCHANGED <<agent, version, raced>>

(* A version that is published again does not become the current one.      *)
InServiceBug(r) ==
  [status     |-> "active",
   current    |-> IF req[r].agent.current = None THEN req[r].v
                                                 ELSE req[r].agent.current,
   apiEnabled |-> TRUE,
   config     |-> req[r].ver.snapshot]

(* The Agent as r publishes it: restore_agent_version takes the            *)
(* configuration from the snapshot.                                        *)
InService(r) ==
  [status |-> "active", current |-> req[r].v, apiEnabled |-> TRUE,
   config |-> req[r].ver.snapshot]

Publish(r) ==
  /\ At(r, "locked")
  /\ version' = [w \in Versions |->
       IF w = req[r].v
         THEN Flush(version[w], req[r].ver,
                    [req[r].ver EXCEPT !.status = "published"])
         ELSE [version[w] EXCEPT !.status =
                 IF w \in req[r].old THEN "deprecated" ELSE @]]
  /\ agent' = Flush(agent, req[r].agent, InService(r))
  /\ lock' = None
  /\ Commit(r, Idle)

-----------------------------------------------------------------------------
(* update_publication, as far as it acts on the Agent.                     *)

(* Asking for "published" publishes a candidate of an active Agent that is *)
(* not live, and changes nothing for a live one, even when its publication *)
(* is withheld.                                                            *)
IsLive(row) == row.status = "active" /\ row.current # None /\ row.apiEnabled

AskPublished(r) ==
  /\ agent.status = "active"
  /\ ~IsLive(agent)
  /\ LoadAgent(r, "target", "release_candidate", Columns)

(* Asking for "disabled" takes an active Agent out of service; every other *)
(* case writes agent_publications only.                                    *)
AskDisabled(r) ==
  agent.status = "active" /\ LoadAgent(r, "disable", None, LifecycleColumns)

DisableAgent(r) ==
  /\ At(r, "disable")
  /\ WriteAgent(r, InLifecycle(req[r].agent, "inactive"))
  /\ Commit(r, Idle)

-----------------------------------------------------------------------------
(* The console edits, tests and publishes the draft of the Agent, which it *)
(* creates when there is none.  It checks neither the status of the Agent  *)
(* nor whether it is published.                                            *)

AskConsole(r) ==
  \/ LoadAgent(r, "draft", "test", {"config"})
  \/ LoadAgent(r, "draft", "candidate", Columns)
  \/ \E c \in Configs : LoadAgent(r, "edit", c, {"config"})

EditAgent(r) ==
  LET object == [req[r].agent EXCEPT !.config = req[r].to] IN
  /\ At(r, "edit")
  /\ WriteAgent(r, object)
  /\ Commit(r, [req[r] EXCEPT !.at = "draft", !.to = "edit", !.agent = object])

(* What the request goes on to do with draft v, loaded as row.  (The code  *)
(* takes the newest draft; here, any.)                                     *)
WithDraft(r, v, row) ==
  LET ready == [req[r] EXCEPT !.v = v, !.ver = row] IN
  CASE req[r].to = "edit" ->
         [ready EXCEPT !.at = "snapshot", !.to = req[r].agent.config,
                       !.agent = NoAgent]
    [] req[r].to = "candidate" -> [ready EXCEPT !.at = "candidate", !.to = None]
    [] req[r].to = "test" ->
         IF row.status = "development"
           THEN [ready EXCEPT !.at = "status", !.to = "testing",
                              !.agent = NoAgent] ELSE Idle

LoadDraft(r) ==
  /\ At(r, "draft")
  /\ \E v \in InStatus(Drafts) :
       req' = [req EXCEPT ![r] = WithDraft(r, v, version[v])]
  /\ UNCHANGED <<agent, version, lock, raced>>

CreateDraft(r) ==
  /\ At(r, "draft")
  /\ InStatus(Drafts) = {}
  /\ \E v \in Versions :
       /\ Insert(v, req[r].agent.config)
       /\ Commit(r, WithDraft(r, v, version'[v]))
  /\ UNCHANGED <<agent, lock>>

(* console_publish_agent promotes the draft in a transaction of its own    *)
(* and goes on to publish_agent.                                           *)
PromoteDraft(r) ==
  LET object == [req[r].ver EXCEPT !.status = "release_candidate"] IN
  /\ At(r, "candidate")
  /\ WriteVersion(r, object)
  /\ Commit(r, [req[r] EXCEPT !.at = "lock", !.ver = object])

-----------------------------------------------------------------------------
Ask(r) ==
  \/ AskCreate(r) \/ AskUpdate(r) \/ AskTransition(r)
  \/ AskLifecycle(r) \/ AskConfigure(r)
  \/ AskRelease(r) \/ AskPublished(r) \/ AskDisabled(r)
  \/ AskConsole(r)

Load(r) == LoadTarget(r) \/ LoadDraft(r) \/ Lock(r)

Write(r) ==
  \/ CreateVersion(r) \/ UpdateVersion(r) \/ TransitionVersion(r)
  \/ TransitionAgent(r) \/ Configure(r)
  \/ Publish(r) \/ DisableAgent(r)
  \/ EditAgent(r) \/ CreateDraft(r) \/ PromoteDraft(r)

Next == \E r \in Requests : Ask(r) \/ Load(r) \/ Write(r) \/ Abandon(r)

Spec == Init /\ [][Next]_vars

-----------------------------------------------------------------------------
(* Correctness.                                                            *)

AgentRows   == [status : AgentStatuses, current : Versions \cup {None},
                apiEnabled : BOOLEAN, config : Configs \cup {None}]
VersionRows == [status : Drafts \cup Released \cup {"absent"},
                snapshot : Configs \cup {None}]
Places      == {"idle", "insert", "snapshot", "status", "lifecycle",
                "configure", "target", "lock", "locked", "disable",
                "edit", "draft", "candidate"}
Targets     == Drafts \cup Released \cup AgentStatuses
                 \cup {"test", "candidate", "edit"} \cup Configs \cup {None}

RequestRows == [at : Places, v : Versions \cup {None}, to : Targets,
                agent : AgentRows, ver : VersionRows,
                old : SUBSET Versions, fresh : BOOLEAN]

(* The domains of the variables.                                           *)
TypeOK ==
  /\ agent \in AgentRows
  /\ version \in [Versions -> VersionRows]
  /\ lock \in Requests \cup {None}
  /\ req \in [Requests -> RequestRows]
  /\ raced \in BOOLEAN

(* At most one version is published, whatever overlaps: the row locks of   *)
(* _lock_agent_publication_and_version suffice, and the unique index       *)
(* uq_agent_versions_one_published never makes a request fail.             *)
OnePublished ==
  \A v, w \in InStatus({"published"}) : v = w

(* Until a request has written on rows older than another's transaction,   *)
(* the version the Agent runs is the one that is published, and public     *)
(* calls are enabled for the active Agents that have been published and    *)
(* for no other (transition_agent, publish, rollback).  (A rollback that   *)
(* loads the Agent before, and its target after a publish, leaves the      *)
(* Agent on the version it has just deprecated; a promotion that overlaps  *)
(* a publish makes the published version a draft again.)                   *)
CurrentIsPublished ==
  ~raced => /\ InStatus({"published"}) = {agent.current} \ {None}
            /\ agent.apiEnabled <=> agent.status = "active" /\ agent.current # None

(* Until then, a version that was once published is never edited and never *)
(* becomes a draft, and only a candidate or a deprecated version becomes   *)
(* published (production.py:683, 710-716).                                 *)
ReleasesFrozen ==
  [][~raced' => \A v \in Versions :
       /\ version[v].status \in Released =>
            /\ version'[v].status \in Released
            /\ version'[v].snapshot = version[v].snapshot
       /\ version'[v].status = "published" /\ version[v].status # "published"
            => version[v].status \in {"release_candidate", "deprecated"}]_vars

(* "archived Agents are immutable" (agents.py:645); archived is final and  *)
(* refuses changes of the configuration (docs/phase4-production-agent-     *)
(* runtime.md:21).  The console checks neither.                            *)
ArchivedFinal ==
  [][agent.status = "archived" =>
       agent'.status = "archived" /\ agent'.config = agent.config]_vars

=============================================================================

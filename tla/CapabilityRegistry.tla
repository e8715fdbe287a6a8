------------------------- MODULE CapabilityRegistry -------------------------
(***************************************************************************)
(* The registry of capabilities (backend/app/api/capabilities.py), the     *)
(* bindings of the draft of an Agent (also api/console.py), the resolver   *)
(* (capabilities/resolver.py) and the publication that freezes what it     *)
(* resolved.  A request reads the status of the draft, then other rows,    *)
(* and writes in the end; requests overlap.  The tool a binding resolves   *)
(* to is an alias with an implementation; a resource scope is the revision *)
(* of the connector it was made for.  Runtime features are taken as there, *)
(* and every snapshot names the same skill.                                *)
(*                                                                         *)
(* Operators whose name ends in "Bug" are variants of the operator that    *)
(* follows them, with a mistake somebody could make in that code.          *)
(***************************************************************************)
EXTENDS Naturals, FiniteSets

CONSTANTS
  Requests,
  Contracts,          \* the versions of capabilities
  DatabaseKinds,      \* ... of those whose key begins with "database."
  Implementations,    \* numbered by priority, then age
  Serves,             \* the contract of an implementation
  On,                 \* the revision of the connector it runs on
  Offers,             \* the sets of bindings a client may ask for: none, or one
  Bound,              \* what a draft may have been bound to before
  Need,               \* what a skill requires: [alias, contracts of the
                      \*   capability, contracts in the range of versions]
  None

(* Implementations are numbered, and whatever is bound names a contract.   *)
DraftSetting ==
  /\ Implementations \subseteq Nat
  /\ \A offer \in Offers \cup {Bound} : \A i \in offer : i.contract \in Contracts

VARIABLES
  contract,     \* CapabilityVersion.status
  built,        \* the implementations there are
  instance,     \* ConnectorInstance.health_status, offline or not
  draft,        \* AgentVersion.status
  bindings,     \* AgentCapabilityBinding, each with the request that wrote it
  frozen,       \* the tools in the snapshot of the version
  format,       \* format_version of the snapshot: 1 knows no capabilities
  work,         \* the requests under way
  raced         \* history: something overlapped the release

capVars == <<contract, built, instance, draft, bindings, frozen, format, work, raced>>

Editable  == {"development", "testing", "release_candidate"}
InService == {"published", "deprecated"}

(* What begins with _draft_version, which brings a snapshot to format 2.   *)
Drafting == {"direct", "database", "console", "try", "section"}
Ops      == Drafting \cup {"api", "patch"}

Idle == [at |-> "new", op |-> None, offer |-> {}, seen |-> {}, tools |-> {},
         status |-> None, format |-> 2]

Binding(i, r) ==
  [alias |-> i.alias, contract |-> i.contract, pin |-> i.pin, scope |-> i.scope, by |-> r]

(* Nothing is there, or all of it is and the draft is bound.               *)
Init ==
  /\ \/ contract = [c \in Contracts |-> "draft"] /\ built = {} /\ bindings = {}
     \/ /\ contract = [c \in Contracts |-> "published"] /\ built = Implementations
        /\ bindings = {Binding(i, None) : i \in Bound}
  /\ instance = "usable"
  /\ draft = "development" /\ frozen = {} /\ format \in {1, 2}
  /\ work = [r \in Requests |-> Idle]
  /\ raced = FALSE

At(r, where) == work[r].at = where
Step(r, where) == work' = [work EXCEPT ![r].at = where]
Finish(r) == work' = [work EXCEPT ![r] = [Idle EXCEPT !.at = "done"]]
Aliases(items) == {i.alias : i \in items}

(* A publication has read the snapshot, or the bindings too, and is not    *)
(* over.                                                                   *)
Releasing  == \E r \in Requests : work[r].at \in {"resolved", "frozen"}
Publishing == Releasing \/ \E r \in Requests : At(r, "loaded") /\ work[r].op \in {"console", "api"}

(* The snapshot is replaced by a request that may come too late.           *)
Overwritten == raced' = (raced \/ Publishing \/ draft \notin Editable)

-----------------------------------------------------------------------------
(* Contracts, implementations, connectors.                                 *)

(* A test reads "draft" and writes "testing" later.                        *)
BeginTest(r, c) ==
  /\ At(r, "new")
  /\ contract[c] = "draft"
  /\ work' = [work EXCEPT ![r].at = "testing", ![r].op = c]
  /\ UNCHANGED <<contract, built, instance, draft, bindings, frozen, format, raced>>

TestCapabilityVersion(r) ==
  /\ At(r, "testing")
  /\ contract' = [contract EXCEPT ![work[r].op] = "testing"]
  /\ raced' = (raced \/ contract[work[r].op] \in InService)
  /\ Finish(r)
  /\ UNCHANGED <<built, instance, draft, bindings, frozen, format>>

PublishCapabilityVersion(c) ==
  /\ contract[c] \in {"draft", "testing"}
  /\ contract' = [contract EXCEPT ![c] = "published"]
  /\ UNCHANGED <<built, instance, draft, bindings, frozen, format, work, raced>>

DeprecateCapabilityVersion(c) ==
  /\ contract[c] = "published"
  /\ contract' = [contract EXCEPT ![c] = "deprecated"]
  /\ UNCHANGED <<built, instance, draft, bindings, frozen, format, work, raced>>

CreateImplementation(i) ==
  /\ i \notin built
  /\ contract[Serves[i]] \in InService
  /\ built' = built \cup {i}
  /\ UNCHANGED <<contract, instance, draft, bindings, frozen, format, work, raced>>

(* A new revision is unknown, which the resolver takes as well as healthy; *)
(* a test of any revision, old ones too, says of the instance what it      *)
(* found, whatever happened while it waited.                               *)
CheckConnector(h) ==
  /\ instance' = h
  /\ UNCHANGED <<contract, built, draft, bindings, frozen, format, work, raced>>

CreateRevision == CheckConnector("usable")
TestRevision   == \E h \in {"usable", "offline"} : CheckConnector(h)

-----------------------------------------------------------------------------
(* The resolver.                                                           *)

(* A pinned implementation need not be one of the contract.                *)
Candidates(b) ==
  IF b.pin # None THEN built \cap {b.pin}
  ELSE {i \in built : Serves[i] = b.contract}

Implementation(b) == CHOOSE i \in Candidates(b) : \A j \in Candidates(b) : i <= j

(* A snapshot of format 1 is ready as it is, and offers no tool.           *)
Tools(version) ==
  IF version = 1 THEN {}
  ELSE {[alias |-> b.alias, implementation |-> Implementation(b)] : b \in bindings}

(* The binding of that alias, whatever its capability, else the last one   *)
(* of the capability.                                                      *)
ForNeed ==
  LET named == {b \in bindings : b.alias = Need.alias}
      kin   == {b \in bindings : b.contract \in Need.capability}
  IN IF named # {} THEN named
     ELSE {b \in kin : \A k \in kin : k.alias <= b.alias}

NeedMet == ForNeed # {} /\ \A b \in ForNeed : b.contract \in Need.range

Ready(version) == version = 2 =>
  /\ NeedMet
  /\ \A b \in bindings :
       /\ contract[b.contract] \in InService
       /\ Candidates(b) # {}
       /\ instance # "offline"
       /\ b.contract \in DatabaseKinds => b.scope = On[Implementation(b)]

-----------------------------------------------------------------------------
(* Requests about the draft.                                               *)

(* A snapshot of format 1 is read, and written as one of format 2, without *)
(* tools, over whatever the version has become.                            *)
FindLegacy(r, op) ==
  /\ At(r, "new") /\ op \in Drafting
  /\ draft \in Editable /\ format = 1
  /\ work' = [work EXCEPT ![r].at = "migrating", ![r].op = op]
  /\ UNCHANGED <<contract, built, instance, draft, bindings, frozen, format, raced>>

Migrate(r) ==
  /\ At(r, "migrating")
  /\ format' = 2 /\ frozen' = {}
  /\ Overwritten
  /\ Step(r, "migrated")
  /\ UNCHANGED <<contract, built, instance, draft, bindings>>

(* Bindings are changed whatever the status of the draft.                  *)
AllowedBug(op) == op = "api" => draft = "release_candidate"

Allowed(op) ==
  /\ op \in {"direct", "database"} => draft = "development"
  /\ op = "api" => draft = "release_candidate"

(* The version is read, once more when its snapshot was migrated.          *)
Load(r, op) ==
  /\ \/ At(r, "new") /\ draft \in Editable /\ (op \in Drafting => format = 2)
     \/ At(r, "migrated") /\ work[r].op = op
  /\ Allowed(op)
  /\ work' = [work EXCEPT ![r].at = "loaded", ![r].op = op, ![r].status = draft, ![r].format = format,
                          ![r].tools = IF op = "section" THEN frozen ELSE {}]
  /\ UNCHANGED <<contract, built, instance, draft, bindings, frozen, format, raced>>

(* The client's snapshot, with or without the tools of the present one.    *)
UpdateAgentVersion(r, version) ==
  /\ At(r, "loaded") /\ work[r].op = "patch"
  /\ format' = version /\ frozen' \in {{}, frozen}
  /\ Overwritten
  /\ Finish(r)
  /\ UNCHANGED <<contract, built, instance, draft, bindings>>

(* The snapshot is built anew and keeps the tools there were.              *)
UpdateAgentEditorSection(r) ==
  /\ At(r, "loaded") /\ work[r].op = "section"
  /\ format' = 2 /\ frozen' = work[r].tools
  /\ Overwritten
  /\ Finish(r)
  /\ UNCHANGED <<contract, built, instance, draft, bindings>>

(* Each of the two replaces its own bindings and keeps the others.         *)
Replaced(op) == {b \in bindings : b.contract \in DatabaseKinds <=> op = "database"}

Acceptable(op, i) ==
  /\ i.alias \notin Aliases(bindings \ Replaced(op))
  /\ i.pin # None => i.pin \in built
  /\ op = "direct"   => contract[i.contract] \in InService
  /\ op = "database" => /\ i.contract \in DatabaseKinds /\ contract[i.contract] = "published"
                        /\ i.pin # None /\ Serves[i.pin] = i.contract /\ i.scope = On[i.pin]

Examine(r, offer) ==
  /\ At(r, "loaded") /\ work[r].op \in {"direct", "database"}
  /\ \A i \in offer : Acceptable(work[r].op, i)
  /\ work' = [work EXCEPT ![r].at = "examined", ![r].offer = offer,
                          ![r].seen = Replaced(work[r].op)]
  /\ UNCHANGED <<contract, built, instance, draft, bindings, frozen, format, raced>>

(* SQLAlchemy inserts before it deletes, and only a read between the two   *)
(* flushes the deletion. There is none when the contract asked for is the  *)
(* one it has just looked at: the alias is then still taken.               *)
Unflushed(r) ==
  \E i \in work[r].offer : \E b \in work[r].seen :
    /\ b.alias = i.alias /\ b.contract = i.contract
    /\ i.pin = None /\ i.scope = None /\ bindings = {b}

UpdateBindings(r) ==
  LET kept == bindings \ work[r].seen IN
  /\ At(r, "examined")
  /\ Aliases(kept) \cap Aliases(work[r].offer) = {}
  /\ ~Unflushed(r)
  /\ bindings' = kept \cup {Binding(i, r) : i \in work[r].offer}
  /\ raced' = (raced \/ Releasing \/ (work[r].status = "development" /\ draft # "development"))
  /\ Finish(r)
  /\ UNCHANGED <<contract, built, instance, draft, frozen, format>>

(* The development version a test began with is in testing when it has     *)
(* been resolved, whatever it has become.                                  *)
ConsoleTest(r) ==
  /\ At(r, "loaded") /\ work[r].op = "try"
  /\ Ready(work[r].format)
  /\ draft' = IF work[r].status = "development" THEN "testing" ELSE draft
  /\ Finish(r)
  /\ UNCHANGED <<contract, built, instance, bindings, frozen, format, raced>>

Resolve(r) ==
  /\ At(r, "loaded") /\ work[r].op \in {"console", "api"}
  /\ Ready(work[r].format)
  /\ work' = [work EXCEPT ![r].at = "resolved", ![r].tools = Tools(work[r].format)]
  /\ UNCHANGED <<contract, built, instance, draft, bindings, frozen, format, raced>>

(* The console commits what it resolved before it publishes, and a status  *)
(* if it did not read this one.                                            *)
Freeze(r) ==
  /\ At(r, "resolved") /\ work[r].op = "console"
  /\ frozen' = work[r].tools /\ format' = work[r].format
  /\ draft' = IF work[r].status \in {"development", "testing"} THEN "release_candidate" ELSE draft
  /\ Step(r, "frozen")
  /\ UNCHANGED <<contract, built, instance, bindings, raced>>

(* The API writes the tools with the status, unless the format is 1.       *)
Publish(r) ==
  /\ At(r, IF work[r].op = "console" THEN "frozen" ELSE "resolved")
  /\ work[r].status \in Editable
  /\ draft' = "published"
  /\ IF work[r].op = "api" /\ work[r].format = 2
     THEN frozen' = work[r].tools /\ format' = 2
     ELSE UNCHANGED <<frozen, format>>
  /\ Finish(r)
  /\ UNCHANGED <<contract, built, instance, bindings, raced>>

(* A failed check, a constraint, an unhealthy runtime.                     *)
Abandon(r) ==
  /\ work[r].at \notin {"new", "done"}
  /\ work' = [work EXCEPT ![r] = Idle]
  /\ UNCHANGED <<contract, built, instance, draft, bindings, frozen, format, raced>>

(* transition_agent_version, by the API.                                   *)
Transition(from, to) ==
  /\ draft = from
  /\ draft' = to
  /\ UNCHANGED <<contract, built, instance, bindings, frozen, format, work, raced>>

-----------------------------------------------------------------------------

Register ==
  \/ \E c \in Contracts : PublishCapabilityVersion(c) \/ DeprecateCapabilityVersion(c)
  \/ \E i \in Implementations : CreateImplementation(i)
  \/ CreateRevision \/ TestRevision

Next ==
  \/ Register
  \/ \E r \in Requests :
       \/ \E c \in Contracts : BeginTest(r, c)
       \/ \E op \in Ops : FindLegacy(r, op) \/ Load(r, op)
       \/ Migrate(r) \/ UpdateAgentEditorSection(r)
       \/ \E version \in {1, 2} : UpdateAgentVersion(r, version)
       \/ \E offer \in Offers : Examine(r, offer)
       \/ TestCapabilityVersion(r) \/ UpdateBindings(r) \/ ConsoleTest(r)
       \/ Resolve(r) \/ Freeze(r) \/ Publish(r) \/ Abandon(r)
  \/ Transition("development", "testing") \/ Transition("testing", "development")
  \/ Transition("testing", "release_candidate") \/ Transition("release_candidate", "testing")

Spec == Init /\ [][Next]_capVars

-----------------------------------------------------------------------------

(* Every status is one of the CHECK constraints, and an alias is bound     *)
(* once in a version (uq_agent_capability_bindings_alias).                 *)
TypeOK ==
  /\ contract \in [Contracts -> InService \cup {"draft", "testing"}]
  /\ instance \in {"usable", "offline"}
  /\ draft \in Editable \cup {"published"}
  /\ \A a, b \in bindings : a.alias = b.alias => a = b

(* A version published in format 2 is bound to what its snapshot says: the *)
(* same aliases, the pinned implementations, contracts in service, what    *)
(* its skill needs - also when its snapshot was of format 1 or replaced    *)
(* before, and unless bindings or snapshot were replaced while it was      *)
(* released or a contract was tested while it was published.  (Calls are   *)
(* authorised by the bindings, the digest of the release is over the       *)
(* snapshot.  The API publishes format 1 without looking at the bindings;  *)
(* such a version is given no tool, agents.py:830.)                        *)
ReleaseSound ==
  draft = "published" /\ format = 2 /\ ~raced =>
    /\ Aliases(frozen) = Aliases(bindings)
    /\ \A b \in bindings :
         /\ contract[b.contract] \in InService
         /\ b.pin # None => [alias |-> b.alias, implementation |-> b.pin] \in frozen
    /\ NeedMet
=============================================================================

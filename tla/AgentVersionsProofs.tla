------------------------ MODULE AgentVersionsProofs ------------------------
(***************************************************************************)
(* Proofs about AgentVersions, for any number of versions, configurations  *)
(* and requests in flight.                                                 *)
(***************************************************************************)
EXTENDS AgentVersions, TLAPS

(* What a request carries at the place it is at.                           *)
WellFormed(q) ==
  /\ q \in RequestRows
  /\ q.at \in {"snapshot", "status", "lock", "locked", "candidate"} => q.v \in Versions
  /\ q.at \in {"snapshot", "configure", "edit"} => q.to \in Configs \cup {None}
  /\ q.at = "status" => q.to \in Drafts
  /\ q.at = "lifecycle" => q.to \in AgentStatuses
  /\ q.at = "draft" => q.to \in {"edit", "candidate", "test"}

(* TypeOK made inductive: the requests are well-formed.                    *)
Typed == TypeOK /\ \A r \in Requests : WellFormed(req[r])

(* Everything but the freshness of the other requests stays as it is.      *)
Moves(r, rest) ==
  /\ req' \in [Requests -> RequestRows]
  /\ \A q \in Requests : WellFormed(req'[q])
  /\ req'[r].at = rest.at /\ req'[r].v = rest.v /\ req'[r].old = rest.old
  /\ \A q \in Requests \ {r} : /\ req'[q].at  = req[q].at
                               /\ req'[q].v   = req[q].v
                               /\ req'[q].old = req[q].old

-----------------------------------------------------------------------------
(* A transaction leaves a row of the same type, and of the status either   *)
(* stored or written.                                                      *)
LEMMA FlushAgent ==
  ASSUME NEW row \in AgentRows, NEW loaded \in AgentRows, NEW object \in AgentRows
  PROVE  Flush(row, loaded, object) \in AgentRows
BY DEF Flush, AgentRows

LEMMA FlushVersion ==
  ASSUME NEW row \in VersionRows, NEW loaded \in VersionRows, NEW object \in VersionRows
  PROVE  /\ Flush(row, loaded, object) \in VersionRows
         /\ Flush(row, loaded, object).status \in {row.status, object.status}
BY DEF Flush, VersionRows

(* A request that is not in flight is well-formed.                         *)
LEMMA IdleWellFormed == WellFormed(Idle)
BY DEF WellFormed, Idle, RequestRows, Places, Targets, AgentRows, VersionRows,
       NoAgent, Absent, AgentStatuses

(* A request that goes on.                                                 *)
LEMMA GoOn ==
  ASSUME Typed, NEW r \in Requests, NEW rest, WellFormed(rest),
         req' = [req EXCEPT ![r] = rest]
  PROVE  Moves(r, rest)
BY DEF Moves, Typed, TypeOK, WellFormed

(* A request whose transaction ends.                                       *)
LEMMA CommitMoves ==
  ASSUME Typed, NEW r \in Requests, NEW rest, WellFormed(rest), Commit(r, rest)
  PROVE  Moves(r, rest) /\ raced' \in BOOLEAN
<1>1. raced' \in BOOLEAN
  BY DEF Commit, Typed, TypeOK, WellFormed, RequestRows
<1>2. ASSUME NEW q \in Requests, q # r
      PROVE  /\ WellFormed(req'[q])
             /\ req'[q].at = req[q].at /\ req'[q].v = req[q].v
             /\ req'[q].old = req[q].old
  BY <1>1, <1>2 DEF Commit, At, Typed, WellFormed, RequestRows
<1>3. WellFormed(req'[r]) /\ req'[r].at = rest.at /\ req'[r].v = rest.v
      /\ req'[r].old = rest.old
  BY DEF Commit, WellFormed, RequestRows
<1>4. req' \in [Requests -> RequestRows]
  <2>1. \A q \in Requests : req'[q] \in RequestRows
    BY <1>2, <1>3 DEF WellFormed
  <2> QED BY <2>1 DEF Commit
<1> QED BY <1>1, <1>2, <1>3, <1>4 DEF Moves

(* A request that loads the Agent.                                         *)
LEMMA LoadAgentMoves ==
  ASSUME Typed, NEW r \in Requests, NEW place, NEW to, NEW cols,
         LoadAgent(r, place, to, cols),
         place \in Places \ {"snapshot", "status", "lock", "locked", "candidate"},
         to \in Targets,
         place \in {"configure", "edit"} => to \in Configs,
         place = "lifecycle" => to \in AgentStatuses,
         place = "draft" => to \in {"edit", "candidate", "test"}
  PROVE  \E rest : /\ Moves(r, rest) /\ rest.at = place
                   /\ At(r, "idle") /\ UNCHANGED <<agent, version, lock, raced>>
<1> DEFINE copy == [c \in Columns |-> IF c \in cols THEN agent[c] ELSE NoAgent[c]]
           rest == [Idle EXCEPT !.at = place, !.to = to, !.agent = copy]
<1>1. copy \in AgentRows
  BY DEF Columns, NoAgent, AgentRows, Typed, TypeOK, AgentStatuses
<1>2. WellFormed(rest) /\ rest.at = place
  <2> HIDE DEF copy
  <2> QED BY <1>1, IdleWellFormed DEF WellFormed, Idle, RequestRows
<1>3. req' = [req EXCEPT ![r] = rest]
  BY DEF LoadAgent
<1> HIDE DEF rest
<1>4. Moves(r, rest)
  BY <1>2, <1>3, GoOn
<1> QED BY <1>2, <1>4 DEF LoadAgent

(* A request that loads a version.                                         *)
LEMMA LoadVersionMoves ==
  ASSUME Typed, NEW r \in Requests, NEW place, NEW v \in Versions, NEW to,
         LoadVersion(r, place, v, to),
         place \in {"snapshot", "status", "lock"}, to \in Targets,
         place = "snapshot" => to \in Configs,
         place = "status" => to \in Drafts
  PROVE  \E rest : Moves(r, rest) /\ rest.at = place
<1> DEFINE rest == [req[r] EXCEPT !.at = place, !.v = v, !.to = to, !.ver = version[v]]
<1>1. WellFormed(rest) /\ rest.at = place
  BY DEF Typed, TypeOK, WellFormed, RequestRows, Places
<1>2. req' = [req EXCEPT ![r] = rest]
  BY DEF LoadVersion
<1> HIDE DEF rest
<1> QED BY <1>1, <1>2, GoOn

-----------------------------------------------------------------------------
Pub == InStatus({"published"})

(* Who holds the locks is about to deprecate what else is published.       *)
Locks ==
  /\ \A r \in Requests : At(r, "locked") <=> lock = r
  /\ lock # None => req[lock].old = Pub \ {req[lock].v}

Inv == Typed /\ Locks /\ OnePublished

(* A step that neither takes nor releases the locks and publishes nothing, *)
(* and withdraws nothing while somebody holds them.                        *)
LEMMA Quiet ==
  ASSUME Inv, NEW r \in Requests, NEW rest, Moves(r, rest),
         ~At(r, "locked"), rest.at # "locked", lock' = lock,
         Pub' \subseteq Pub, lock # None => Pub' = Pub
  PROVE  Locks' /\ OnePublished'
<1>1. OnePublished'
  BY DEF Inv, OnePublished, Pub
<1>2. \A q \in Requests : At(q, "locked")' <=> lock' = q
  BY DEF Inv, Locks, Moves, At
<1>3. ASSUME lock # None PROVE req'[lock].old = Pub' \ {req'[lock].v}
  <2>1. lock \in Requests /\ lock # r
    BY <1>3 DEF Inv, Typed, TypeOK, Locks
  <2> QED BY <1>3, <2>1 DEF Inv, Locks, Moves
<1> QED BY <1>1, <1>2, <1>3 DEF Locks

(* In particular, a step that leaves the versions and the locks alone.     *)
LEMMA QuietSame ==
  ASSUME Inv, NEW r \in Requests, NEW rest, Moves(r, rest),
         ~At(r, "locked"), rest.at # "locked", UNCHANGED <<version, lock>>
  PROVE  Locks' /\ OnePublished'
<1>1. Pub' = Pub
  BY DEF Pub, InStatus
<1> QED BY <1>1, Quiet

(* The new version is a draft.                                             *)
LEMMA InsertVersion ==
  ASSUME Inv, NEW v \in Versions, NEW c \in Configs \cup {None}, Insert(v, c)
  PROVE  /\ version' \in [Versions -> VersionRows]
         /\ Pub' = Pub
         /\ version'[v] = [status |-> "development", snapshot |-> c]
<1>1. version' \in [Versions -> VersionRows]
  BY DEF Inv, Typed, TypeOK, Insert, VersionRows, Drafts
<1>2. version'[v] = [status |-> "development", snapshot |-> c]
  BY DEF Inv, Typed, TypeOK, Insert
<1>3. \A w \in Versions \ {v} : version'[w] = version[w]
  BY DEF Inv, Typed, TypeOK, Insert
<1>4. version[v].status = "absent"
  BY DEF Insert, Exists
<1> QED BY <1>1, <1>2, <1>3, <1>4 DEF Pub, InStatus

(* An unlocked write of a version publishes nothing, and takes nothing     *)
(* away from the set a holder of the locks is about to deprecate.          *)
LEMMA WriteVersionQuiet ==
  ASSUME Inv, NEW r \in Requests, NEW object \in VersionRows,
         req[r].v \in Versions, req[r].ver \in VersionRows,
         object.status \in Drafts \cup {req[r].ver.status},
         WriteVersion(r, object)
  PROVE  /\ version' \in [Versions -> VersionRows]
         /\ Pub' \subseteq Pub
         /\ lock # None => Pub' = Pub
<1> DEFINE v == req[r].v
           row == Flush(version[v], req[r].ver, object)
<1>1. row \in VersionRows
  BY FlushVersion DEF Inv, Typed, TypeOK
<1>2. row.status \in {version[v].status} \cup Drafts
  BY DEF Inv, Typed, TypeOK, Flush, VersionRows
<1>3. version' = [version EXCEPT ![v] = row]
  BY DEF WriteVersion
<1> HIDE DEF row
<1>4. version' \in [Versions -> VersionRows]
  BY <1>1, <1>3 DEF Inv, Typed, TypeOK
<1>5. version'[v] = row /\ \A w \in Versions \ {v} : version'[w] = version[w]
  BY <1>3 DEF Inv, Typed, TypeOK
<1>6. Pub' \subseteq Pub
  BY <1>2, <1>5 DEF Pub, InStatus, Drafts
<1>7. ASSUME lock # None PROVE Pub' = Pub
  <2>1. v \notin {req[lock].v} \cup (Pub \ {req[lock].v})
    BY <1>7 DEF WriteVersion, VersionFree, Inv, Locks
  <2>2. v \notin Pub
    BY <2>1
  <2> QED BY <1>5, <1>6, <2>2 DEF Pub, InStatus
<1> QED BY <1>4, <1>6, <1>7

(* Typed after a step of one request.                                      *)
LEMMA TypedNext ==
  ASSUME NEW r \in Requests, NEW rest, Moves(r, rest),
         agent' \in AgentRows, version' \in [Versions -> VersionRows],
         lock' \in Requests \cup {None}, raced' \in BOOLEAN
  PROVE  Typed'
BY DEF Typed, TypeOK, Moves

-----------------------------------------------------------------------------
(* Every kind of step preserves Inv.                                       *)
LEMMA AskStep ==
  ASSUME Inv, NEW r \in Requests, Ask(r)
  PROVE  Inv'
<1>1. ASSUME NEW place \in Places \ {"snapshot", "status", "lock", "locked", "candidate"},
             NEW to \in Targets, NEW cols, LoadAgent(r, place, to, cols),
             place \in {"configure", "edit"} => to \in Configs,
             place = "lifecycle" => to \in AgentStatuses,
             place = "draft" => to \in {"edit", "candidate", "test"}
      PROVE  Inv'
  <2>1. PICK rest : /\ Moves(r, rest) /\ rest.at = place
                    /\ At(r, "idle") /\ UNCHANGED <<agent, version, lock, raced>>
    BY <1>1, LoadAgentMoves DEF Inv
  <2>2. Typed'
    BY <2>1, TypedNext DEF Inv, Typed, TypeOK
  <2>3. ~At(r, "locked") /\ rest.at # "locked"
    BY <1>1, <2>1 DEF At
  <2> QED BY <2>1, <2>2, <2>3, QuietSame DEF Inv
<1>2. ASSUME NEW place \in {"snapshot", "status"}, NEW v \in Versions, NEW to \in Targets,
             LoadVersion(r, place, v, to), At(r, "idle"),
             place = "snapshot" => to \in Configs,
             place = "status" => to \in Drafts,
             UNCHANGED <<agent, version, lock, raced>>
      PROVE  Inv'
  <2>1. PICK rest : Moves(r, rest) /\ rest.at = place
    BY <1>2, LoadVersionMoves DEF Inv
  <2>2. Typed'
    BY <1>2, <2>1, TypedNext DEF Inv, Typed, TypeOK
  <2>3. ~At(r, "locked") /\ rest.at # "locked"
    BY <1>2, <2>1 DEF At
  <2> QED BY <1>2, <2>1, <2>2, <2>3, QuietSame DEF Inv
<1>3. CASE AskCreate(r)
  BY <1>1, <1>3 DEF AskCreate, Places, Targets
<1>4. CASE AskUpdate(r)
  BY <1>2, <1>4 DEF AskUpdate, InStatus, Targets
<1>5. CASE AskTransition(r)
  <2>1. PICK v \in InStatus(Drafts) :
          \E s \in VersionEdges[version[v].status] : LoadVersion(r, "status", v, s)
    BY <1>5 DEF AskTransition
  <2>2. PICK s \in VersionEdges[version[v].status] : LoadVersion(r, "status", v, s)
    BY <2>1
  <2>3. v \in Versions /\ s \in Drafts
    BY DEF InStatus, VersionEdges, Drafts
  <2> QED BY <1>2, <1>5, <2>2, <2>3 DEF AskTransition, Targets
<1>6. CASE AskLifecycle(r)
  <2>1. PICK s \in AgentEdges[agent.status] : LoadAgent(r, "lifecycle", s, LifecycleColumns)
    BY <1>6 DEF AskLifecycle
  <2>2. s \in AgentStatuses
    BY DEF Inv, Typed, TypeOK, AgentRows, AgentEdges, AgentStatuses
  <2> QED BY <1>1, <2>1, <2>2 DEF Places, Targets
<1>7. CASE AskConfigure(r)
  BY <1>1, <1>7 DEF AskConfigure, Places, Targets
<1>8. CASE AskRelease(r)
  BY <1>1, <1>8 DEF AskRelease, Places, Targets, Drafts, Released
<1>9. CASE AskPublished(r)
  BY <1>1, <1>9 DEF AskPublished, Places, Targets, Drafts
<1>10. CASE AskDisabled(r)
  BY <1>1, <1>10 DEF AskDisabled, Places, Targets
<1>11. CASE AskConsole(r)
  BY <1>1, <1>11 DEF AskConsole, Places, Targets
<1> QED BY <1>3, <1>4, <1>5, <1>6, <1>7, <1>8, <1>9, <1>10, <1>11 DEF Ask

(* What a request goes on to do with a draft carries the draft.            *)
LEMMA WithDraftWellFormed ==
  ASSUME Typed, NEW r \in Requests, At(r, "draft"), NEW v \in Versions,
         NEW row \in VersionRows
  PROVE  WellFormed(WithDraft(r, v, row)) /\ WithDraft(r, v, row).at # "locked"
<1> DEFINE ready == [req[r] EXCEPT !.v = v, !.ver = row]
<1>1. ready \in RequestRows /\ ready.v = v /\ ready.ver = row
  BY DEF Typed, TypeOK, RequestRows
<1>2. req[r].to \in {"edit", "candidate", "test"}
  BY DEF Typed, WellFormed, At
<1>3. req[r].agent.config \in Configs \cup {None} /\ NoAgent \in AgentRows
  BY DEF Typed, TypeOK, RequestRows, AgentRows, NoAgent, AgentStatuses
<1>4. CASE req[r].to = "edit"
  <2>1. WithDraft(r, v, row) = [ready EXCEPT !.at = "snapshot",
                                  !.to = req[r].agent.config, !.agent = NoAgent]
    BY <1>4 DEF WithDraft
  <2> HIDE DEF ready
  <2> QED BY <1>1, <1>3, <2>1 DEF WellFormed, RequestRows, Places, Targets
<1>5. CASE req[r].to = "candidate"
  <2>1. WithDraft(r, v, row) = [ready EXCEPT !.at = "candidate", !.to = None]
    BY <1>5 DEF WithDraft
  <2> HIDE DEF ready
  <2> QED BY <1>1, <2>1 DEF WellFormed, RequestRows, Places, Targets
<1>6. CASE req[r].to = "test" /\ row.status = "development"
  <2>1. WithDraft(r, v, row) = [ready EXCEPT !.at = "status", !.to = "testing",
                                  !.agent = NoAgent]
    BY <1>6 DEF WithDraft
  <2> HIDE DEF ready
  <2> QED BY <1>1, <1>3, <2>1 DEF WellFormed, RequestRows, Places, Targets, Drafts
<1>7. CASE req[r].to = "test" /\ row.status # "development"
  <2>1. WithDraft(r, v, row) = Idle
    BY <1>7 DEF WithDraft
  <2> QED BY <2>1, IdleWellFormed DEF Idle
<1> QED BY <1>2, <1>4, <1>5, <1>6, <1>7

(* Loading a target or a draft, and taking the locks.                      *)
LEMMA LoadStep ==
  ASSUME Inv, NEW r \in Requests, Load(r)
  PROVE  Inv'
<1>1. CASE LoadTarget(r)
  <2>1. PICK v \in InStatus({req[r].to}) : LoadVersion(r, "lock", v, None)
    BY <1>1 DEF LoadTarget
  <2>2. PICK rest : Moves(r, rest) /\ rest.at = "lock"
    BY <2>1, LoadVersionMoves DEF Inv, InStatus, Targets
  <2>3. Typed'
    BY <1>1, <2>2, TypedNext DEF LoadTarget, Inv, Typed, TypeOK
  <2>4. ~At(r, "locked") /\ UNCHANGED <<version, lock>>
    BY <1>1 DEF LoadTarget, At
  <2> QED BY <2>2, <2>3, <2>4, QuietSame DEF Inv
<1>2. CASE LoadDraft(r)
  <2>1. PICK v \in InStatus(Drafts) :
          req' = [req EXCEPT ![r] = WithDraft(r, v, version[v])]
    BY <1>2 DEF LoadDraft
  <2>2. /\ WellFormed(WithDraft(r, v, version[v]))
        /\ WithDraft(r, v, version[v]).at # "locked"
    BY <1>2, WithDraftWellFormed DEF LoadDraft, InStatus, Inv, Typed, TypeOK
  <2>3. PICK rest : Moves(r, rest) /\ rest.at # "locked"
    BY <2>1, <2>2, GoOn DEF Inv
  <2>4. Typed'
    BY <1>2, <2>3, TypedNext DEF LoadDraft, Inv, Typed, TypeOK
  <2>5. ~At(r, "locked") /\ UNCHANGED <<version, lock>>
    BY <1>2 DEF LoadDraft, At
  <2> QED BY <2>3, <2>4, <2>5, QuietSame DEF Inv
<1>3. CASE Lock(r)
  <2> DEFINE rest == [req[r] EXCEPT !.at = "locked", !.old = Pub \ {req[r].v}]
  <2>1. WellFormed(rest) /\ rest.at = "locked" /\ rest.v = req[r].v
        /\ rest.old = Pub \ {req[r].v}
    <3>1. Pub \ {req[r].v} \subseteq Versions
      BY DEF Pub, InStatus
    <3> QED BY <1>3, <3>1 DEF Lock, At, Inv, Typed, TypeOK, WellFormed, RequestRows, Places
  <2>2. req' = [req EXCEPT ![r] = rest]
    BY <1>3 DEF Lock, Pub
  <2> HIDE DEF rest
  <2>3. Moves(r, rest)
    BY <2>1, <2>2, GoOn DEF Inv
  <2>4. Typed'
    BY <1>3, <2>3, TypedNext DEF Lock, Inv, Typed, TypeOK
  <2>5. OnePublished' /\ Pub' = Pub
    BY <1>3 DEF Lock, Inv, OnePublished, Pub, InStatus
  <2>6. \A q \in Requests : At(q, "locked")' <=> lock' = q
    <3>1. \A q \in Requests : ~At(q, "locked")
      BY <1>3, NoneAssumption DEF Lock, Inv, Locks
    <3> QED BY <1>3, <2>1, <2>3, <3>1 DEF Lock, Moves, At
  <2>7. req'[r].old = Pub' \ {req'[r].v} /\ lock' = r
    BY <1>3, <2>1, <2>3, <2>5 DEF Lock, Moves
  <2> QED BY <2>4, <2>5, <2>6, <2>7 DEF Inv, Locks
<1> QED BY <1>1, <1>2, <1>3 DEF Load

(* The transactions of the requests that hold no lock.                     *)
LEMMA VersionWriteStep ==
  ASSUME Inv, NEW r \in Requests,
         UpdateVersion(r) \/ TransitionVersion(r) \/ PromoteDraft(r)
  PROVE  Inv'
<1>1. /\ req[r] \in RequestRows /\ req[r].ver \in VersionRows
      /\ WellFormed(req[r])
  BY DEF Inv, Typed, TypeOK, RequestRows
<1>2. ASSUME NEW object \in VersionRows, NEW rest, WriteVersion(r, object),
             req[r].v \in Versions, object.status \in Drafts \cup {req[r].ver.status},
             Commit(r, rest), WellFormed(rest), rest.at # "locked", ~At(r, "locked")
      PROVE  Inv'
  <2>1. Moves(r, rest) /\ raced' \in BOOLEAN
    BY <1>2, CommitMoves DEF Inv
  <2>2. /\ version' \in [Versions -> VersionRows] /\ Pub' \subseteq Pub
        /\ lock # None => Pub' = Pub
    BY <1>1, <1>2, WriteVersionQuiet
  <2>3. agent' = agent /\ lock' = lock
    BY <1>2 DEF WriteVersion
  <2>4. Typed'
    BY <2>1, <2>2, <2>3, TypedNext DEF Inv, Typed, TypeOK
  <2> QED BY <1>2, <2>1, <2>2, <2>3, <2>4, Quiet DEF Inv
<1>3. CASE UpdateVersion(r)
  <2> DEFINE object == [req[r].ver EXCEPT !.snapshot = req[r].to]
  <2>1. At(r, "snapshot") /\ req[r].v \in Versions /\ req[r].to \in Configs \cup {None}
    BY <1>1, <1>3 DEF UpdateVersion, At, WellFormed
  <2>2. object \in VersionRows /\ object.status = req[r].ver.status
    BY <1>1, <2>1 DEF VersionRows
  <2>3. WriteVersion(r, object) /\ Commit(r, Idle)
    BY <1>3 DEF UpdateVersion
  <2>4. ~At(r, "locked") /\ Idle.at # "locked"
    BY <2>1 DEF At, Idle
  <2> HIDE DEF object
  <2> QED BY <1>2, <2>1, <2>2, <2>3, <2>4, IdleWellFormed
<1>4. CASE TransitionVersion(r)
  <2> DEFINE object == [req[r].ver EXCEPT !.status = req[r].to]
  <2>1. At(r, "status") /\ req[r].v \in Versions /\ req[r].to \in Drafts
    BY <1>1, <1>4 DEF TransitionVersion, At, WellFormed
  <2>2. object \in VersionRows /\ object.status \in Drafts
    BY <1>1, <2>1 DEF VersionRows
  <2>3. WriteVersion(r, object) /\ Commit(r, Idle)
    BY <1>4 DEF TransitionVersion
  <2>4. ~At(r, "locked") /\ Idle.at # "locked"
    BY <2>1 DEF At, Idle
  <2> HIDE DEF object
  <2> QED BY <1>2, <2>1, <2>2, <2>3, <2>4, IdleWellFormed
<1>5. CASE PromoteDraft(r)
  <2> DEFINE object == [req[r].ver EXCEPT !.status = "release_candidate"]
             rest   == [req[r] EXCEPT !.at = "lock", !.ver = object]
  <2>1. At(r, "candidate") /\ req[r].v \in Versions
    BY <1>1, <1>5 DEF PromoteDraft, At, WellFormed
  <2>2. object \in VersionRows /\ object.status \in Drafts
    BY <1>1 DEF VersionRows, Drafts
  <2>3. WriteVersion(r, object) /\ Commit(r, rest)
    BY <1>5 DEF PromoteDraft
  <2>4. ~At(r, "locked")
    BY <2>1 DEF At
  <2> HIDE DEF object
  <2>5. WellFormed(rest) /\ rest.at # "locked"
    BY <1>1, <2>1, <2>2 DEF WellFormed, RequestRows, Places
  <2> HIDE DEF rest
  <2> QED BY <1>2, <2>1, <2>2, <2>3, <2>4, <2>5
<1> QED BY <1>3, <1>4, <1>5

(* A new version, from the API or from the console.                        *)
LEMMA InsertStep ==
  ASSUME Inv, NEW r \in Requests, CreateVersion(r) \/ CreateDraft(r)
  PROVE  Inv'
<1>1. req[r].agent.config \in Configs \cup {None}
  BY DEF Inv, Typed, TypeOK, RequestRows, AgentRows
<1>2. ASSUME NEW v \in Versions, Insert(v, req[r].agent.config), NEW rest,
             WellFormed(rest), rest.at # "locked", Commit(r, rest),
             ~At(r, "locked"), UNCHANGED <<agent, lock>>
      PROVE  Inv'
  <2>1. Moves(r, rest) /\ raced' \in BOOLEAN
    BY <1>2, CommitMoves DEF Inv
  <2>2. version' \in [Versions -> VersionRows] /\ Pub' = Pub
    BY <1>1, <1>2, InsertVersion
  <2>3. Typed'
    BY <1>2, <2>1, <2>2, TypedNext DEF Inv, Typed, TypeOK
  <2> QED BY <1>2, <2>1, <2>2, <2>3, Quiet DEF Inv
<1>3. CASE CreateVersion(r)
  <2>1. PICK v \in Versions : Insert(v, req[r].agent.config)
    BY <1>3 DEF CreateVersion
  <2>2. Idle.at # "locked" /\ ~At(r, "locked")
    BY <1>3 DEF CreateVersion, Idle, At
  <2> QED BY <1>2, <1>3, <2>1, <2>2, IdleWellFormed DEF CreateVersion
<1>4. CASE CreateDraft(r)
  <2>1. PICK v \in Versions : /\ Insert(v, req[r].agent.config)
                              /\ Commit(r, WithDraft(r, v, version'[v]))
    BY <1>4 DEF CreateDraft
  <2>2. version'[v] \in VersionRows
    BY <1>1, <2>1, InsertVersion
  <2>3. At(r, "draft") /\ ~At(r, "locked")
    BY <1>4 DEF CreateDraft, At
  <2>4. /\ WellFormed(WithDraft(r, v, version'[v]))
        /\ WithDraft(r, v, version'[v]).at # "locked"
    BY <2>2, <2>3, WithDraftWellFormed DEF Inv
  <2> QED BY <1>2, <1>4, <2>1, <2>3, <2>4 DEF CreateDraft
<1> QED BY <1>3, <1>4

(* A write of the Agent leaves the versions alone.                         *)
LEMMA AgentWriteStep ==
  ASSUME Inv, NEW r \in Requests,
         TransitionAgent(r) \/ Configure(r) \/ DisableAgent(r) \/ EditAgent(r)
  PROVE  Inv'
<1>1. /\ req[r] \in RequestRows /\ req[r].agent \in AgentRows
      /\ WellFormed(req[r])
  BY DEF Inv, Typed, TypeOK, RequestRows
<1>2. ASSUME NEW object \in AgentRows, NEW rest, WriteAgent(r, object),
             Commit(r, rest), WellFormed(rest), rest.at # "locked", ~At(r, "locked")
      PROVE  Inv'
  <2>1. Moves(r, rest) /\ raced' \in BOOLEAN
    BY <1>2, CommitMoves DEF Inv
  <2>2. agent' \in AgentRows /\ UNCHANGED <<version, lock>>
    BY <1>1, <1>2, FlushAgent DEF WriteAgent, Inv, Typed, TypeOK
  <2>3. Typed'
    BY <2>1, <2>2, TypedNext DEF Inv, Typed, TypeOK
  <2> QED BY <1>2, <2>1, <2>2, <2>3, QuietSame DEF Inv
<1>3. \A s \in AgentStatuses : InLifecycle(req[r].agent, s) \in AgentRows
  BY <1>1 DEF InLifecycle, AgentRows
<1>4. Idle.at # "locked"
  BY DEF Idle
<1>5. CASE TransitionAgent(r)
  <2>1. At(r, "lifecycle") /\ req[r].to \in AgentStatuses /\ ~At(r, "locked")
    BY <1>1, <1>5 DEF TransitionAgent, At, WellFormed
  <2> QED BY <1>2, <1>3, <1>4, <1>5, <2>1, IdleWellFormed DEF TransitionAgent
<1>6. CASE DisableAgent(r)
  <2>1. ~At(r, "locked") /\ "inactive" \in AgentStatuses
    BY <1>6 DEF DisableAgent, At, AgentStatuses
  <2> QED BY <1>2, <1>3, <1>4, <1>6, <2>1, IdleWellFormed DEF DisableAgent
<1>7. CASE Configure(r)
  <2> DEFINE object == [req[r].agent EXCEPT !.config = req[r].to]
  <2>1. At(r, "configure") /\ req[r].to \in Configs \cup {None} /\ ~At(r, "locked")
    BY <1>1, <1>7 DEF Configure, At, WellFormed
  <2>2. object \in AgentRows
    BY <1>1, <2>1 DEF AgentRows
  <2>3. WriteAgent(r, object) /\ Commit(r, Idle)
    BY <1>7 DEF Configure
  <2> HIDE DEF object
  <2> QED BY <1>2, <1>4, <2>1, <2>2, <2>3, IdleWellFormed
<1>8. CASE EditAgent(r)
  <2> DEFINE object == [req[r].agent EXCEPT !.config = req[r].to]
             rest   == [req[r] EXCEPT !.at = "draft", !.to = "edit", !.agent = object]
  <2>1. At(r, "edit") /\ req[r].to \in Configs \cup {None} /\ ~At(r, "locked")
    BY <1>1, <1>8 DEF EditAgent, At, WellFormed
  <2>2. object \in AgentRows
    BY <1>1, <2>1 DEF AgentRows
  <2>3. WriteAgent(r, object) /\ Commit(r, rest)
    BY <1>8 DEF EditAgent
  <2> HIDE DEF object
  <2>4. WellFormed(rest) /\ rest.at # "locked"
    BY <1>1, <2>2 DEF WellFormed, RequestRows, Places, Targets
  <2> HIDE DEF rest
  <2> QED BY <1>2, <2>1, <2>2, <2>3, <2>4
<1> QED BY <1>5, <1>6, <1>7, <1>8

(* Publishing deprecates everything else that is published: the set taken  *)
(* under the locks is still complete.                                      *)
LEMMA PublishStep ==
  ASSUME Inv, NEW r \in Requests, Publish(r)
  PROVE  Inv'
<1> DEFINE v   == req[r].v
           row == Flush(version[v], req[r].ver, [req[r].ver EXCEPT !.status = "published"])
<1>1. /\ At(r, "locked") /\ lock = r /\ v \in Versions
      /\ req[r].old = Pub \ {v}
  <2>1. At(r, "locked") /\ lock = r
    BY DEF Publish, Inv, Locks
  <2>2. lock # None
    BY <2>1, NoneAssumption
  <2> QED BY <2>1, <2>2 DEF Inv, Locks, Typed, WellFormed, At
<1>2. req[r].ver \in VersionRows /\ req[r].agent \in AgentRows
  BY DEF Inv, Typed, TypeOK, RequestRows
<1>3. version'[v] = row /\ row \in VersionRows
  <2>1. [req[r].ver EXCEPT !.status = "published"] \in VersionRows
    BY <1>2 DEF VersionRows, Released
  <2>2. row \in VersionRows
    BY <1>1, <1>2, <2>1, FlushVersion DEF Inv, Typed, TypeOK
  <2> QED BY <1>1, <2>2 DEF Publish
<1> HIDE DEF row
<1>4. ASSUME NEW w \in Versions, w # v
      PROVE  version'[w] \in VersionRows /\ version'[w].status # "published"
  <2>1. version'[w] = [version[w] EXCEPT !.status =
                         IF w \in req[r].old THEN "deprecated" ELSE @]
    BY <1>4 DEF Publish
  <2>2. version[w] \in VersionRows
    BY DEF Inv, Typed, TypeOK
  <2>3. version[w].status = "published" => w \in req[r].old
    BY <1>1, <1>4 DEF Pub, InStatus
  <2> QED BY <2>1, <2>2, <2>3 DEF VersionRows, Released
<1>5. version' \in [Versions -> VersionRows]
  <2>1. \A w \in Versions : version'[w] \in VersionRows
    BY <1>3, <1>4
  <2> QED BY <2>1 DEF Publish
<1>6. Pub' \subseteq {v}
  BY <1>4 DEF Pub, InStatus
<1>7. agent' \in AgentRows
  <2>1. InService(r) \in AgentRows
    BY <1>1, <1>2 DEF InService, AgentRows, VersionRows, AgentStatuses
  <2> QED BY <1>2, <2>1, FlushAgent DEF Publish, Inv, Typed, TypeOK
<1>8. Moves(r, Idle) /\ raced' \in BOOLEAN /\ lock' = None
  BY CommitMoves, IdleWellFormed DEF Publish, Inv
<1>9. Typed'
  BY <1>5, <1>7, <1>8, TypedNext
<1>10. Locks'
  <2>1. \A q \in Requests : ~At(q, "locked")'
    <3>1. ~At(r, "locked")'
      BY <1>8 DEF Moves, At, Idle
    <3>2. \A q \in Requests \ {r} : ~At(q, "locked")
      BY <1>1 DEF Inv, Locks
    <3> QED BY <1>8, <3>1, <3>2 DEF Moves, At
  <2> QED BY <1>8, <2>1, NoneAssumption DEF Locks
<1>11. OnePublished'
  BY <1>6 DEF OnePublished, Pub
<1> QED BY <1>9, <1>10, <1>11 DEF Inv

(* A request that ends gives the locks back.                               *)
LEMMA AbandonStep ==
  ASSUME Inv, NEW r \in Requests, Abandon(r)
  PROVE  Inv'
<1>1. Moves(r, Idle)
  BY GoOn, IdleWellFormed DEF Abandon, Inv
<1>2. lock' \in Requests \cup {None}
  BY DEF Abandon, Inv, Typed, TypeOK
<1>3. Typed'
  BY <1>1, <1>2, TypedNext DEF Abandon, Inv, Typed, TypeOK
<1>4. Pub' = Pub /\ OnePublished'
  BY DEF Abandon, Inv, OnePublished, Pub, InStatus
<1>5. ~At(r, "locked")'
  BY <1>1 DEF Moves, At, Idle
<1>6. \A q \in Requests : At(q, "locked")' <=> lock' = q
  BY <1>1, <1>5, NoneAssumption DEF Moves, At, Abandon, Inv, Locks
<1>7. ASSUME lock' # None PROVE req'[lock'].old = Pub' \ {req'[lock'].v}
  <2>1. lock' = lock /\ lock # None /\ lock # r
    BY <1>7 DEF Abandon
  <2>2. lock \in Requests \ {r}
    BY <2>1 DEF Inv, Typed, TypeOK
  <2> QED BY <1>1, <1>4, <2>1, <2>2 DEF Moves, Inv, Locks
<1> QED BY <1>3, <1>4, <1>6, <1>7 DEF Inv, Locks

-----------------------------------------------------------------------------
(* No version is published at first, and no request is in flight.          *)
LEMMA InvInitially == Init => Inv
<1> SUFFICES ASSUME Init PROVE Inv
  OBVIOUS
<1>1. Absent \in VersionRows /\ Absent.status # "published"
  BY DEF Absent, VersionRows
<1>2. \A v \in Versions : version[v] = Absent
  BY DEF Init
<1>3. agent \in AgentRows /\ version \in [Versions -> VersionRows]
  BY <1>1 DEF Init, AgentRows
<1>4. \A r \in Requests : req[r] = Idle
  BY DEF Init
<1>5. Typed
  BY <1>3, <1>4, IdleWellFormed DEF Typed, TypeOK, Init, WellFormed
<1>6. Locks
  BY <1>4, NoneAssumption DEF Locks, Init, At, Idle
<1>7. OnePublished
  BY <1>1, <1>2 DEF OnePublished, InStatus
<1> QED BY <1>5, <1>6, <1>7 DEF Inv

(* Inv is inductive.                                                       *)
LEMMA InvNext == Inv /\ [Next]_vars => Inv'
<1> SUFFICES ASSUME Inv, [Next]_vars PROVE Inv'
  OBVIOUS
<1>1. ASSUME NEW r \in Requests, Ask(r) PROVE Inv'
  BY <1>1, AskStep
<1>2. ASSUME NEW r \in Requests, Load(r) PROVE Inv'
  BY <1>2, LoadStep
<1>3. ASSUME NEW r \in Requests, Write(r) PROVE Inv'
  BY <1>3, VersionWriteStep, InsertStep, AgentWriteStep, PublishStep DEF Write
<1>4. ASSUME NEW r \in Requests, Abandon(r) PROVE Inv'
  BY <1>4, AbandonStep
<1>5. CASE UNCHANGED vars
  BY <1>5 DEF vars, Inv, Typed, TypeOK, Locks, At, Pub, OnePublished, InStatus, WellFormed
<1> QED BY <1>1, <1>2, <1>3, <1>4, <1>5 DEF Next

(* Inv holds in every reachable state.                                     *)
LEMMA Invariance == Spec => []Inv
BY InvInitially, InvNext, PTL DEF Spec

(* The rows stay in their domains, and so does what a request has loaded.  *)
THEOREM VersionsTypeCorrect == Spec => []TypeOK
<1>1. Inv => TypeOK
  BY DEF Inv, Typed
<1> QED BY <1>1, Invariance, PTL

(* Publish and rollback lock the Agent before they deprecate, so whatever  *)
(* overlaps at most one version is published.                              *)
THEOREM PublishIsExclusive == Spec => []OnePublished
<1>1. Inv => OnePublished
  BY DEF Inv
<1> QED BY <1>1, Invariance, PTL

-----------------------------------------------------------------------------
(* What the Agent runs and what is frozen, until requests race.            *)

(* What the record q of a request has loaded, and will write by, is what   *)
(* is stored.                                                              *)
Holds(q) ==
  /\ ( \/ q.at \in {"lifecycle", "disable", "target", "lock", "locked", "candidate"}
       \/ q.at = "draft" /\ q.to = "candidate" )
       => /\ q.agent.status = agent.status
          /\ q.agent.current = agent.current
          /\ q.agent.apiEnabled = agent.apiEnabled
  /\ q.at \in {"snapshot", "status", "lock", "locked", "candidate"} => q.ver = version[q.v]
  /\ q.at \in {"snapshot", "status", "candidate"} => q.ver.status \in Drafts
  /\ q.at \in {"lock", "locked"} => q.ver.status \in {"release_candidate", "deprecated"}
  /\ q.at = "target" => q.to \in {"release_candidate", "deprecated"}

(* CurrentIsPublished without its condition.                               *)
InStep ==
  /\ Pub = {agent.current} \ {None}
  /\ agent.apiEnabled <=> agent.status = "active" /\ agent.current # None

Fresh == ~raced => InStep /\ \A r \in Requests : req[r].fresh => Holds(req[r])

(* A step that publishes only what may be, and leaves the rest of what has *)
(* been published alone.                                                   *)
Frozen ==
  \A v \in Versions :
    /\ version[v].status \in Released =>
         /\ version'[v].status \in Released
         /\ version'[v].snapshot = version[v].snapshot
    /\ version'[v].status = "published" /\ version[v].status # "published"
         => version[v].status \in {"release_candidate", "deprecated"}

-----------------------------------------------------------------------------
(* A request that only loads.                                              *)
LEMMA FreshLoad ==
  ASSUME Typed, Fresh, NEW r \in Requests, NEW rest, req' = [req EXCEPT ![r] = rest],
         UNCHANGED <<agent, version, raced>>,
         ~raced /\ rest.fresh => Holds(rest)
  PROVE  Fresh' /\ Frozen
<1>1. \A q \in Requests : req'[q] = IF q = r THEN rest ELSE req[q]
  BY DEF Typed, TypeOK
<1>2. \A q \in Requests : ~raced /\ req'[q].fresh => Holds(req'[q])
  BY <1>1 DEF Fresh
<1>3. ~raced' => \A q \in Requests : req'[q].fresh => Holds(req[q])'
  BY <1>2 DEF Holds
<1>4. ~raced' => InStep'
  BY DEF Fresh, InStep, Pub, InStatus
<1>5. Frozen
  BY DEF Frozen
<1> QED BY <1>3, <1>4, <1>5 DEF Fresh

(* A request that writes has not been overtaken, or there is a race; and   *)
(* it overtakes all others.                                                *)
LEMMA FreshCommit ==
  ASSUME Typed, Fresh, NEW r \in Requests, NEW rest, Commit(r, rest),
         ~raced' /\ ~raced /\ Holds(req[r])
           => InStep' /\ Frozen /\ Holds([rest EXCEPT !.fresh = TRUE])'
  PROVE  Fresh' /\ (~raced' => Frozen)
<1> SUFFICES ASSUME ~raced'
             PROVE  InStep' /\ Frozen /\ \A q \in Requests : req'[q].fresh => Holds(req[q])'
  BY DEF Fresh
<1>1. ~raced /\ Holds(req[r])
  BY DEF Commit, Fresh
<1>2. InStep' /\ Frozen /\ Holds([rest EXCEPT !.fresh = TRUE])'
  BY <1>1
<1>3. req'[r] = [rest EXCEPT !.fresh = TRUE]
  BY DEF Commit
<1>4. ASSUME NEW q \in Requests, q # r, req'[q].fresh PROVE Holds(req[q])'
  <2>1. req[q] \in RequestRows
    BY DEF Typed, TypeOK
  <2>2. req'[q] = [req[q] EXCEPT !.fresh = At(q, "idle") \/ raced']
    BY <1>4 DEF Commit
  <2>3. req'[q].at = "idle"
    BY <1>4, <2>1, <2>2 DEF At, RequestRows
  <2> QED BY <2>3 DEF Holds
<1>5. Holds([rest EXCEPT !.fresh = TRUE])' => Holds(req[r])'
  BY <1>3 DEF Holds
<1> QED BY <1>2, <1>4, <1>5

(* A request that is over has loaded nothing.                              *)
LEMMA IdleHolds == Holds([Idle EXCEPT !.fresh = TRUE]) /\ Holds(Idle)
BY DEF Holds, Idle

-----------------------------------------------------------------------------
(* Every kind of step keeps Fresh.                                         *)
LEMMA FreshAsk ==
  ASSUME Typed, Fresh, NEW r \in Requests, Ask(r)
  PROVE  Fresh' /\ Frozen
<1>1. ASSUME NEW place, NEW to, NEW cols, LoadAgent(r, place, to, cols),
             \/ place \in {"insert", "configure", "edit"}
             \/ place = "draft" /\ to # "candidate"
             \/ place \in {"lifecycle", "disable"} /\ LifecycleColumns \subseteq cols
             \/ place = "draft" /\ cols = Columns
             \/ /\ place = "target" /\ cols = Columns
                /\ to \in {"release_candidate", "deprecated"}
      PROVE  Fresh' /\ Frozen
  <2> DEFINE rest == [Idle EXCEPT !.at = place, !.to = to, !.agent =
                       [c \in Columns |-> IF c \in cols THEN agent[c] ELSE NoAgent[c]]]
  <2>1. req' = [req EXCEPT ![r] = rest] /\ UNCHANGED <<agent, version, raced>>
    BY <1>1 DEF LoadAgent
  <2>2. /\ rest.at = place /\ rest.to = to
        /\ \A c \in Columns : c \in cols => rest.agent[c] = agent[c]
    BY DEF Idle
  <2>3. "status" \in Columns /\ "current" \in Columns /\ "apiEnabled" \in Columns
    BY DEF Columns, NoAgent
  <2>4. Holds(rest)
    <3> HIDE DEF rest
    <3> QED BY <1>1, <2>2, <2>3 DEF Holds, LifecycleColumns
  <2> HIDE DEF rest
  <2> QED BY <2>1, <2>4, FreshLoad
<1>2. ASSUME NEW place \in {"snapshot", "status"}, NEW v \in InStatus(Drafts), NEW to,
             LoadVersion(r, place, v, to), UNCHANGED <<agent, version, lock, raced>>
      PROVE  Fresh' /\ Frozen
  <2> DEFINE rest == [req[r] EXCEPT !.at = place, !.v = v, !.to = to, !.ver = version[v]]
  <2>1. req' = [req EXCEPT ![r] = rest]
    BY <1>2 DEF LoadVersion
  <2>2. rest.at = place /\ rest.v = v /\ rest.ver = version[v]
    BY DEF Typed, TypeOK, RequestRows
  <2> HIDE DEF rest
  <2>3. Holds(rest)
    BY <2>2 DEF Holds, InStatus
  <2> QED BY <1>2, <2>1, <2>3, FreshLoad
<1>3. CASE AskCreate(r) \/ AskConfigure(r)
  BY <1>1, <1>3 DEF AskCreate, AskConfigure
<1>4. CASE AskUpdate(r)
  BY <1>2, <1>4 DEF AskUpdate
<1>5. CASE AskTransition(r)
  BY <1>2, <1>5 DEF AskTransition
<1>6. CASE AskLifecycle(r) \/ AskDisabled(r)
  BY <1>1, <1>6 DEF AskLifecycle, AskDisabled
<1>7. CASE AskRelease(r) \/ AskPublished(r)
  BY <1>1, <1>7 DEF AskRelease, AskPublished
<1>8. CASE AskConsole(r)
  BY <1>1, <1>8 DEF AskConsole
<1> QED BY <1>3, <1>4, <1>5, <1>6, <1>7, <1>8 DEF Ask

(* What a request goes on to do with a draft it has just loaded.           *)
LEMMA DraftHolds ==
  ASSUME Typed, NEW r \in Requests, At(r, "draft"), Holds(req[r]), NEW v \in Versions,
         NEW row, row.status \in Drafts, NEW S, S = WithDraft(r, v, row)
  PROVE  /\ version[v] = row => Holds(S)
         /\ agent' = agent /\ version'[v] = row => Holds([S EXCEPT !.fresh = TRUE])'
<1> DEFINE ready == [req[r] EXCEPT !.v = v, !.ver = row]
<1>1. req[r] \in RequestRows /\ req[r].to \in {"edit", "candidate", "test"}
  BY DEF Typed, TypeOK, WellFormed, At
<1>2. CASE req[r].to = "edit"
  <2>1. S = [ready EXCEPT !.at = "snapshot", !.to = req[r].agent.config, !.agent = NoAgent]
    BY <1>2 DEF WithDraft
  <2>2. S.at = "snapshot" /\ S.v = v /\ S.ver = row
    BY <1>1, <2>1 DEF RequestRows
  <2>3. /\ [S EXCEPT !.fresh = TRUE].at = "snapshot" /\ [S EXCEPT !.fresh = TRUE].v = v
        /\ [S EXCEPT !.fresh = TRUE].ver = row
    BY <1>1, <2>1 DEF RequestRows
  <2> QED BY <2>2, <2>3 DEF Holds
<1>3. CASE req[r].to = "candidate"
  <2>1. S = [ready EXCEPT !.at = "candidate", !.to = None]
    BY <1>3 DEF WithDraft
  <2>2. S.at = "candidate" /\ S.v = v /\ S.ver = row /\ S.agent = req[r].agent
    BY <1>1, <2>1 DEF RequestRows
  <2>3. /\ [S EXCEPT !.fresh = TRUE].at = "candidate" /\ [S EXCEPT !.fresh = TRUE].v = v
        /\ [S EXCEPT !.fresh = TRUE].ver = row /\ [S EXCEPT !.fresh = TRUE].agent = req[r].agent
    BY <1>1, <2>1 DEF RequestRows
  <2>4. /\ req[r].agent.status = agent.status /\ req[r].agent.current = agent.current
        /\ req[r].agent.apiEnabled = agent.apiEnabled
    BY <1>3 DEF Holds, At
  <2> QED BY <2>2, <2>3, <2>4 DEF Holds
<1>4. CASE req[r].to = "test" /\ row.status = "development"
  <2>1. S = [ready EXCEPT !.at = "status", !.to = "testing", !.agent = NoAgent]
    BY <1>4 DEF WithDraft
  <2>2. S.at = "status" /\ S.v = v /\ S.ver = row
    BY <1>1, <2>1 DEF RequestRows
  <2>3. /\ [S EXCEPT !.fresh = TRUE].at = "status" /\ [S EXCEPT !.fresh = TRUE].v = v
        /\ [S EXCEPT !.fresh = TRUE].ver = row
    BY <1>1, <2>1 DEF RequestRows
  <2> QED BY <2>2, <2>3 DEF Holds
<1>5. CASE req[r].to = "test" /\ row.status # "development"
  <2>1. S = Idle
    BY <1>5 DEF WithDraft
  <2> QED BY <2>1 DEF Holds, Idle
<1> QED BY <1>1, <1>2, <1>3, <1>4, <1>5

LEMMA FreshLoads ==
  ASSUME Inv, Fresh, NEW r \in Requests, Load(r)
  PROVE  Fresh' /\ Frozen
<1>1. Typed /\ req[r] \in RequestRows
  BY DEF Inv, Typed, TypeOK
<1>2. CASE LoadTarget(r)
  <2>1. PICK v \in InStatus({req[r].to}) : LoadVersion(r, "lock", v, None)
    BY <1>2 DEF LoadTarget
  <2>2. PICK rest : rest = [req[r] EXCEPT !.at = "lock", !.v = v, !.to = None, !.ver = version[v]]
    OBVIOUS
  <2>3. /\ rest.at = "lock" /\ rest.v = v /\ rest.ver = version[v]
        /\ rest.agent = req[r].agent /\ rest.fresh = req[r].fresh
    BY <1>1, <2>2 DEF RequestRows
  <2>4. v \in Versions /\ version[v].status = req[r].to
    BY DEF InStatus
  <2>5. req[r].at = "target"
    BY <1>2 DEF LoadTarget, At
  <2>6. ~raced /\ rest.fresh => Holds(rest)
    BY <2>3, <2>4, <2>5 DEF Fresh, Holds
  <2>7. req' = [req EXCEPT ![r] = rest] /\ UNCHANGED <<agent, version, raced>>
    BY <1>2, <2>1, <2>2 DEF LoadTarget, LoadVersion
  <2> QED BY <1>1, <2>6, <2>7, FreshLoad
<1>3. CASE LoadDraft(r)
  <2>1. PICK v \in InStatus(Drafts) : req' = [req EXCEPT ![r] = WithDraft(r, v, version[v])]
    BY <1>3 DEF LoadDraft
  <2>2. PICK rest : rest = WithDraft(r, v, version[v])
    OBVIOUS
  <2>3. v \in Versions /\ version[v].status \in Drafts /\ At(r, "draft")
    BY <1>3 DEF InStatus, LoadDraft
  <2>4. rest = Idle \/ rest.fresh = req[r].fresh
    <3>1. req[r].to \in {"edit", "candidate", "test"}
      BY <1>1, <2>3 DEF Typed, WellFormed, At
    <3> QED BY <1>1, <2>2, <3>1 DEF WithDraft, RequestRows
  <2>5. ~raced /\ rest.fresh => Holds(rest)
    BY <1>1, <2>2, <2>3, <2>4, IdleHolds, DraftHolds DEF Fresh
  <2>6. UNCHANGED <<agent, version, raced>>
    BY <1>3 DEF LoadDraft
  <2> QED BY <1>1, <2>1, <2>2, <2>5, <2>6, FreshLoad
<1>4. CASE Lock(r)
  <2>1. PICK rest : rest = [req[r] EXCEPT !.at = "locked", !.old = InStatus({"published"}) \ {req[r].v}]
    OBVIOUS
  <2>2. /\ rest.at = "locked" /\ rest.v = req[r].v /\ rest.ver = req[r].ver
        /\ rest.agent = req[r].agent /\ rest.fresh = req[r].fresh
    BY <1>1, <2>1 DEF RequestRows
  <2>3. ~raced /\ rest.fresh => Holds(rest)
    BY <1>4, <2>2 DEF Lock, At, Fresh, Holds
  <2> QED BY <1>1, <1>4, <2>1, <2>3, FreshLoad DEF Lock
<1> QED BY <1>2, <1>3, <1>4 DEF Load

(* A version that is written by a request that nobody has overtaken.       *)
LEMMA FreshWriteVersion ==
  ASSUME Inv, Fresh, ~raced, NEW r \in Requests, Holds(req[r]),
         req[r].at \in {"snapshot", "status", "candidate"},
         NEW object \in VersionRows, object.status \in Drafts, WriteVersion(r, object)
  PROVE  /\ InStep' /\ Frozen /\ agent' = agent
         /\ version'[req[r].v] = object
<1> DEFINE v == req[r].v
<1>1. /\ v \in Versions /\ version[v] \in VersionRows /\ req[r].ver = version[v]
      /\ version[v].status \in Drafts
  BY DEF Inv, Typed, TypeOK, WellFormed, Holds
<1>2. Flush(version[v], version[v], object) = object
  BY <1>1 DEF Flush, VersionRows
<1>3. /\ version'[v] = object /\ \A w \in Versions \ {v} : version'[w] = version[w]
      /\ agent' = agent
  BY <1>1, <1>2 DEF WriteVersion, Inv, Typed, TypeOK
<1>4. Pub' = Pub
  BY <1>1, <1>3 DEF Pub, InStatus, Drafts
<1>5. InStep'
  BY <1>3, <1>4 DEF Fresh, InStep
<1>6. Frozen
  BY <1>1, <1>3 DEF Frozen, Drafts, Released
<1> QED BY <1>3, <1>5, <1>6

LEMMA FreshVersionWrites ==
  ASSUME Inv, Fresh, NEW r \in Requests,
         UpdateVersion(r) \/ TransitionVersion(r) \/ PromoteDraft(r)
  PROVE  Fresh' /\ (~raced' => Frozen)
<1>1. /\ Typed /\ req[r] \in RequestRows /\ req[r].ver \in VersionRows
      /\ WellFormed(req[r])
  BY DEF Inv, Typed, TypeOK, RequestRows
<1>2. CASE UpdateVersion(r)
  <2>1. PICK object : object = [req[r].ver EXCEPT !.snapshot = req[r].to]
    OBVIOUS
  <2>2. req[r].at = "snapshot" /\ WriteVersion(r, object) /\ Commit(r, Idle)
    BY <1>2, <2>1 DEF UpdateVersion, At
  <2>3. object \in VersionRows /\ (Holds(req[r]) => object.status \in Drafts)
    BY <1>1, <2>1, <2>2 DEF VersionRows, WellFormed, Holds
  <2>4. Holds([Idle EXCEPT !.fresh = TRUE])'
    BY DEF Holds, Idle
  <2> QED BY <1>1, <2>2, <2>3, <2>4, FreshWriteVersion, FreshCommit
<1>3. CASE TransitionVersion(r)
  <2>1. PICK object : object = [req[r].ver EXCEPT !.status = req[r].to]
    OBVIOUS
  <2>2. req[r].at = "status" /\ WriteVersion(r, object) /\ Commit(r, Idle)
    BY <1>3, <2>1 DEF TransitionVersion, At
  <2>3. object \in VersionRows /\ object.status \in Drafts
    BY <1>1, <2>1, <2>2 DEF VersionRows, WellFormed
  <2>4. Holds([Idle EXCEPT !.fresh = TRUE])'
    BY DEF Holds, Idle
  <2> QED BY <1>1, <2>2, <2>3, <2>4, FreshWriteVersion, FreshCommit
<1>4. CASE PromoteDraft(r)
  <2>1. PICK object : object = [req[r].ver EXCEPT !.status = "release_candidate"]
    OBVIOUS
  <2>2. PICK rest : rest = [req[r] EXCEPT !.at = "lock", !.ver = object]
    OBVIOUS
  <2>3. req[r].at = "candidate" /\ WriteVersion(r, object) /\ Commit(r, rest)
    BY <1>4, <2>1, <2>2 DEF PromoteDraft, At
  <2>4. object \in VersionRows /\ object.status = "release_candidate"
    BY <1>1, <2>1 DEF VersionRows, Drafts
  <2>5. PICK last : last = [rest EXCEPT !.fresh = TRUE]
    OBVIOUS
  <2>6. /\ last.at = "lock" /\ last.v = req[r].v /\ last.ver = object
        /\ last.agent = req[r].agent
    BY <1>1, <2>2, <2>5 DEF RequestRows
  <2>7. ASSUME ~raced, Holds(req[r])
        PROVE  InStep' /\ Frozen /\ Holds(last)'
    <3>1. /\ InStep' /\ Frozen /\ agent' = agent /\ version'[req[r].v] = object
      BY <2>3, <2>4, <2>7, FreshWriteVersion DEF Drafts
    <3>2. Holds(last)'
      BY <2>3, <2>4, <2>6, <2>7, <3>1 DEF Holds
    <3> QED BY <3>1, <3>2
  <2> QED BY <1>1, <2>3, <2>5, <2>7, FreshCommit
<1> QED BY <1>2, <1>3, <1>4

LEMMA FreshInserts ==
  ASSUME Inv, Fresh, NEW r \in Requests, CreateVersion(r) \/ CreateDraft(r)
  PROVE  Fresh' /\ (~raced' => Frozen)
<1>1. /\ Typed /\ req[r].agent.config \in Configs \cup {None}
  BY DEF Inv, Typed, TypeOK, RequestRows, AgentRows
<1>2. ASSUME NEW v \in Versions, Insert(v, req[r].agent.config), agent' = agent, ~raced
      PROVE  InStep' /\ Frozen /\ version'[v].status = "development"
  <2>1. /\ Pub' = Pub
        /\ version'[v] = [status |-> "development", snapshot |-> req[r].agent.config]
    BY <1>1, <1>2, InsertVersion
  <2>2. \A w \in Versions \ {v} : version'[w] = version[w]
    BY <1>2 DEF Insert, Inv, Typed, TypeOK
  <2>3. Frozen
    BY <1>2, <2>1, <2>2 DEF Frozen, Insert, Exists, Released
  <2> QED BY <1>2, <2>1, <2>3 DEF Fresh, InStep
<1>3. CASE CreateVersion(r)
  <2>1. PICK v \in Versions : Insert(v, req[r].agent.config)
    BY <1>3 DEF CreateVersion
  <2>2. Holds([Idle EXCEPT !.fresh = TRUE])'
    BY DEF Holds, Idle
  <2>3. Commit(r, Idle) /\ agent' = agent
    BY <1>3 DEF CreateVersion
  <2> QED BY <1>1, <1>2, <2>1, <2>2, <2>3, FreshCommit
<1>4. CASE CreateDraft(r)
  <2>1. PICK v \in Versions : /\ Insert(v, req[r].agent.config)
                              /\ Commit(r, WithDraft(r, v, version'[v]))
    BY <1>4 DEF CreateDraft
  <2>2. PICK row : row = version'[v]
    OBVIOUS
  <2>3. PICK rest : rest = WithDraft(r, v, row)
    OBVIOUS
  <2>4. At(r, "draft") /\ agent' = agent /\ Commit(r, rest)
    BY <1>4, <2>1, <2>2, <2>3 DEF CreateDraft
  <2>5. PICK last : last = [rest EXCEPT !.fresh = TRUE]
    OBVIOUS
  <2>6. ASSUME ~raced, Holds(req[r]) PROVE InStep' /\ Frozen /\ Holds(last)'
    <3>1. InStep' /\ Frozen /\ row.status \in Drafts
      BY <1>2, <2>1, <2>2, <2>4, <2>6 DEF Drafts
    <3>2. Holds([rest EXCEPT !.fresh = TRUE])'
      BY <1>1, <2>2, <2>3, <2>4, <2>6, <3>1, DraftHolds
    <3> QED BY <2>5, <3>1, <3>2
  <2> QED BY <1>1, <2>4, <2>5, <2>6, FreshCommit
<1> QED BY <1>3, <1>4

(* A write of the Agent: its versions stay, and so does what it runs.      *)
LEMMA FreshWriteAgent ==
  ASSUME Inv, NEW r \in Requests, NEW object \in AgentRows, WriteAgent(r, object),
         object.current = req[r].agent.current
  PROVE  /\ Frozen /\ Pub' = Pub /\ agent'.current = agent.current
         /\ agent'.status = IF object.status = req[r].agent.status
                              THEN agent.status ELSE object.status
         /\ agent'.apiEnabled = IF object.apiEnabled = req[r].agent.apiEnabled
                                  THEN agent.apiEnabled ELSE object.apiEnabled
<1>1. agent \in AgentRows /\ version' = version /\ agent' = Flush(agent, req[r].agent, object)
  BY DEF WriteAgent, Inv, Typed, TypeOK
<1>2. Frozen /\ Pub' = Pub
  BY <1>1 DEF Frozen, Pub, InStatus
<1> QED BY <1>1, <1>2 DEF Flush, AgentRows

LEMMA FreshAgentWrites ==
  ASSUME Inv, Fresh, NEW r \in Requests,
         TransitionAgent(r) \/ Configure(r) \/ DisableAgent(r) \/ EditAgent(r)
  PROVE  Fresh' /\ (~raced' => Frozen)
<1>1. /\ Typed /\ req[r] \in RequestRows /\ req[r].agent \in AgentRows
      /\ WellFormed(req[r])
  BY DEF Inv, Typed, TypeOK, RequestRows
<1>2. Holds([Idle EXCEPT !.fresh = TRUE])'
  BY DEF Holds, Idle
<1>3. ASSUME NEW s \in AgentStatuses, WriteAgent(r, InLifecycle(req[r].agent, s)), Commit(r, Idle),
             req[r].at \in {"lifecycle", "disable"}
      PROVE  Fresh' /\ (~raced' => Frozen)
  <2>1. PICK object : object = InLifecycle(req[r].agent, s)
    OBVIOUS
  <2>2. /\ object \in AgentRows /\ object.status = s
        /\ object.current = req[r].agent.current
        /\ object.apiEnabled = (s = "active" /\ req[r].agent.current # None)
    BY <1>1, <2>1 DEF InLifecycle, AgentRows
  <2>3. ASSUME ~raced, Holds(req[r]) PROVE InStep' /\ Frozen
    <3>1. /\ req[r].agent.status = agent.status /\ req[r].agent.current = agent.current
          /\ req[r].agent.apiEnabled = agent.apiEnabled
      BY <1>3, <2>3 DEF Holds
    <3>2. /\ Frozen /\ Pub' = Pub /\ agent'.current = agent.current /\ agent'.status = s
          /\ agent'.apiEnabled = (s = "active" /\ agent.current # None)
      BY <1>3, <2>1, <2>2, <3>1, FreshWriteAgent
    <3> QED BY <2>3, <3>2 DEF Fresh, InStep
  <2> QED BY <1>1, <1>2, <1>3, <2>3, FreshCommit
<1>4. CASE TransitionAgent(r)
  BY <1>1, <1>3, <1>4 DEF TransitionAgent, At, WellFormed
<1>5. CASE DisableAgent(r)
  BY <1>3, <1>5 DEF DisableAgent, At, AgentStatuses
<1>6. ASSUME NEW object, object = [req[r].agent EXCEPT !.config = req[r].to],
             req[r].at \in {"configure", "edit"}, WriteAgent(r, object), ~raced
      PROVE  InStep' /\ Frozen
  <2>1. /\ object \in AgentRows /\ object.current = req[r].agent.current
        /\ object.status = req[r].agent.status
        /\ object.apiEnabled = req[r].agent.apiEnabled
    BY <1>1, <1>6 DEF AgentRows, WellFormed
  <2>2. /\ Frozen /\ Pub' = Pub /\ agent'.current = agent.current
        /\ agent'.status = agent.status /\ agent'.apiEnabled = agent.apiEnabled
    BY <1>6, <2>1, FreshWriteAgent
  <2> QED BY <1>6, <2>2 DEF Fresh, InStep
<1>7. PICK object : object = [req[r].agent EXCEPT !.config = req[r].to]
  OBVIOUS
<1>8. CASE Configure(r)
  <2>1. req[r].at = "configure" /\ WriteAgent(r, object) /\ Commit(r, Idle)
    BY <1>7, <1>8 DEF Configure, At
  <2> QED BY <1>1, <1>2, <1>6, <1>7, <2>1, FreshCommit
<1>9. CASE EditAgent(r)
  <2>1. PICK rest : rest = [req[r] EXCEPT !.at = "draft", !.to = "edit", !.agent = object]
    OBVIOUS
  <2>2. req[r].at = "edit" /\ WriteAgent(r, object) /\ Commit(r, rest)
    BY <1>7, <1>9, <2>1 DEF EditAgent, At
  <2>3. PICK last : last = [rest EXCEPT !.fresh = TRUE]
    OBVIOUS
  <2>4. last.at = "draft" /\ last.to = "edit"
    BY <1>1, <2>1, <2>3 DEF RequestRows
  <2>5. Holds(last)'
    BY <2>4 DEF Holds
  <2> QED BY <1>1, <1>6, <1>7, <2>2, <2>3, <2>5, FreshCommit
<1> QED BY <1>4, <1>5, <1>8, <1>9

(* A publication or a rollback: what was published is deprecated, and what *)
(* is published now is what the Agent runs.                                *)
LEMMA FreshPublish ==
  ASSUME Inv, Fresh, NEW r \in Requests, Publish(r)
  PROVE  Fresh' /\ (~raced' => Frozen)
<1> DEFINE v == req[r].v
<1>1. /\ req[r].at = "locked" /\ v \in Versions /\ v # None
      /\ req[r].old = Pub \ {v}
  <2>1. At(r, "locked") /\ lock = r /\ lock # None
    BY NoneAssumption DEF Publish, Inv, Locks
  <2> QED BY <2>1, NoneAssumption DEF Inv, Locks, Typed, WellFormed, At
<1>2. /\ Typed /\ req[r] \in RequestRows /\ req[r].ver \in VersionRows
      /\ req[r].agent \in AgentRows /\ agent \in AgentRows
      /\ version \in [Versions -> VersionRows]
  BY DEF Inv, Typed, TypeOK, RequestRows
<1>3. ASSUME ~raced, Holds(req[r]) PROVE InStep' /\ Frozen
  <2>1. /\ req[r].agent.status = agent.status /\ req[r].agent.current = agent.current
        /\ req[r].agent.apiEnabled = agent.apiEnabled
        /\ req[r].ver = version[v]
        /\ version[v].status \in {"release_candidate", "deprecated"}
    BY <1>1, <1>3 DEF Holds
  <2>2. version'[v].status = "published" /\ version'[v].snapshot = version[v].snapshot
    <3>1. PICK object : object = [req[r].ver EXCEPT !.status = "published"]
      OBVIOUS
    <3>2. version'[v] = Flush(version[v], req[r].ver, object)
      BY <1>1, <3>1 DEF Publish
    <3>3. /\ object.status = "published" /\ object.snapshot = version[v].snapshot
          /\ version[v] \in VersionRows
      BY <1>1, <1>2, <2>1, <3>1 DEF VersionRows
    <3> QED BY <2>1, <3>2, <3>3 DEF Flush, VersionRows
  <2>3. ASSUME NEW w \in Versions, w # v
        PROVE  /\ version'[w].snapshot = version[w].snapshot
               /\ version'[w].status = IF w \in Pub THEN "deprecated" ELSE version[w].status
    <3>1. version'[w] = [version[w] EXCEPT !.status = IF w \in req[r].old THEN "deprecated" ELSE @]
      BY <2>3 DEF Publish
    <3>2. version[w] \in VersionRows
      BY <1>2
    <3> QED BY <1>1, <2>3, <3>1, <3>2 DEF VersionRows
  <2>4. Pub' = {v}
    BY <1>1, <2>2, <2>3 DEF Pub, InStatus
  <2>5. Frozen
    BY <2>1, <2>2, <2>3 DEF Frozen, Released, Pub, InStatus
  <2>6. agent'.status = "active" /\ agent'.current = v /\ agent'.apiEnabled = TRUE
    <3>1. agent' = Flush(agent, req[r].agent, InService(r))
      BY DEF Publish
    <3>2. /\ InService(r).status = "active" /\ InService(r).current = v
          /\ InService(r).apiEnabled = TRUE
      BY DEF InService
    <3> QED BY <1>2, <2>1, <3>1, <3>2 DEF Flush, AgentRows
  <2> QED BY <1>1, <2>4, <2>5, <2>6 DEF InStep
<1>4. Holds([Idle EXCEPT !.fresh = TRUE])'
  BY DEF Holds, Idle
<1> QED BY <1>2, <1>3, <1>4, FreshCommit DEF Publish

-----------------------------------------------------------------------------
(* Nothing is published at first, and nobody has loaded anything.          *)
LEMMA FreshInitially == Init => Fresh
<1> SUFFICES ASSUME Init PROVE Fresh
  OBVIOUS
<1>1. Pub = {}
  BY DEF Init, Pub, InStatus, Absent
<1>2. InStep
  BY <1>1 DEF Init, InStep
<1>3. \A r \in Requests : Holds(req[r])
  BY IdleHolds DEF Init
<1> QED BY <1>2, <1>3 DEF Fresh

(* Fresh is inductive on top of Inv, and its steps freeze releases.        *)
LEMMA FreshNext == Inv /\ Fresh /\ [Next]_vars => Fresh' /\ (~raced' => Frozen)
<1> SUFFICES ASSUME Inv, Fresh, [Next]_vars PROVE Fresh' /\ (~raced' => Frozen)
  OBVIOUS
<1>1. ASSUME NEW r \in Requests, Ask(r) \/ Load(r) PROVE Fresh' /\ Frozen
  BY <1>1, FreshAsk, FreshLoads DEF Inv
<1>2. ASSUME NEW r \in Requests, Write(r) PROVE Fresh' /\ (~raced' => Frozen)
  BY <1>2, FreshVersionWrites, FreshInserts, FreshAgentWrites, FreshPublish DEF Write
<1>3. ASSUME NEW r \in Requests, Abandon(r) PROVE Fresh' /\ Frozen
  BY <1>3, IdleHolds, FreshLoad DEF Abandon, Inv
<1>4. CASE UNCHANGED vars
  BY <1>4 DEF vars, Fresh, Frozen, Holds, InStep, Pub, InStatus
<1> QED BY <1>1, <1>2, <1>3, <1>4 DEF Next

(* Both hold in every reachable state.                                     *)
LEMMA FreshInvariance == Spec => []Fresh
BY FreshInitially, FreshNext, Invariance, PTL DEF Spec

(* Until requests race, publish, rollback and the lifecycle keep the       *)
(* published version, the current version of the Agent and its public API  *)
(* together, through all of their separate loads, locks and commits.       *)
THEOREM CurrentStaysPublished == Spec => []CurrentIsPublished
<1>1. Fresh => CurrentIsPublished
  BY DEF Fresh, InStep, CurrentIsPublished, Pub
<1> QED BY <1>1, FreshInvariance, PTL

(* Until then, nothing that has been published is edited or becomes a      *)
(* draft again (update_agent_version, transition_agent_version).           *)
THEOREM ReleasesStayFrozen == Spec => ReleasesFrozen
<1>1. Inv /\ Fresh /\ [Next]_vars =>
        [~raced' => \A v \in Versions :
          /\ version[v].status \in Released =>
               /\ version'[v].status \in Released
               /\ version'[v].snapshot = version[v].snapshot
          /\ version'[v].status = "published" /\ version[v].status # "published"
               => version[v].status \in {"release_candidate", "deprecated"}]_vars
  BY FreshNext DEF Frozen
<1> QED BY <1>1, Invariance, FreshInvariance, PTL DEF Spec, ReleasesFrozen
=============================================================================

--------------------------- MODULE RuntimeService ---------------------------
(***************************************************************************)
(* The DeepSeek runtime service: RuntimeManager of                         *)
(* services/deepseek-runtime/deepseek_runtime_service/server.py and the    *)
(* process of one run, HarnessProcess of harness.py.                       *)
(*                                                                         *)
(* A request asks for a run of an execution in a session.  The service     *)
(* keeps its sessions (a bounded number, the one unused for longest goes   *)
(* first), the runs under way, the stops it could not place, and a         *)
(* semaphore.  It is one asyncio process: a step is what happens between   *)
(* two awaits that really wait.  Only _execution_uid awaits while it holds *)
(* the manager's lock, so that lock is held in state "assigning" alone,    *)
(* and every other step that needs it is taken when nobody assigns.        *)
(*                                                                         *)
(* A run that belongs to a stream is cancelled where it waits when the     *)
(* client of the stream leaves, in its finally too.                        *)
(*                                                                         *)
(* An identity stands for what _session_identity compares, the workspace   *)
(* among it.  Contents, events, artifacts and tools are left out.          *)
(*                                                                         *)
(* Operators whose name ends in "Bug" are variants of the operator that    *)
(* follows them, with a mistake somebody could make in that code.          *)
(***************************************************************************)
EXTENDS Naturals, FiniteSets, Sequences

CONSTANTS
  Requests, Executions, Sessions, Identities,
  Worlds,      \* what the requests may ask for, which are streams, and the settings
  MaxSessions,
  Uids,        \* user ids
  MaxStops,    \* bound: there are no more stops once an execution has had so many
  None

VARIABLES
  world,        \* the one of Worlds; fixed
  place,        \* where a request is in RuntimeManager.run
  reply,        \* what it was answered, or is going to be
  runs,         \* the requests that are registered
  gate,         \* the requests that hold a permit of the semaphore
  child,        \* the child process of a request
  stopped,      \* ActiveRun.cancelled: where the first stop found the run
  cancelled,    \* the runs whose HarnessProcess knows that it is cancelled
  sessions,     \* the sessions, the one used last at the end
  context,      \* the identity a session was created for
  loaded,       \* the requests whose session is still in the table
  pendingStops, \* the executions a stop is remembered for
  owner,        \* who owns the files of a workspace
  unused,       \* what the thread of _assign_workspace_owner may choose from
  adrift,       \* the requests whose thread went on without the lock; a history
  stops,        \* the calls of stop that named an execution
  left          \* the streams whose client left before the run was over

(* What the constants stand for.                                           *)
ASSUME RuntimeAssumption ==
  /\ IsFiniteSet(Requests) /\ None \notin Uids
  /\ \A w \in Worlds :
       /\ w.ask \in [Requests -> [execution : Executions, session : Sessions, identity : Identities]]
       /\ w.streams \subseteq Requests
       /\ w.capacity \in Nat /\ w.uids \subseteq Uids

table == <<sessions, context, loaded>>
files == <<owner, unused, adrift>>
stop  == <<stopped, cancelled, pendingStops, stops, left>>
rest  == <<world, runs, gate, child, table, files, stop>>
runtimeVars == <<place, reply, rest>>

-----------------------------------------------------------------------------
Working == {"initialize", "prompt", "turn"}   \* awaiting the child
Execution(r) == world.ask[r].execution
SessionOf(r)   == world.ask[r].session
IdentityOf(r)  == world.ask[r].identity

Places  == {"new", "known", "queued", "owner", "assigning", "spawning"} \cup Working
             \cup {"idle", "collecting", "leaving", "closed", "done", "lost"}
Replies == {"none", "completed", "cancelled", "failed", "refused", "timeout", "gone"}

Init ==
  /\ world \in Worlds
  /\ place = [r \in Requests |-> "new"]
  /\ reply = [r \in Requests |-> "none"]
  /\ runs = {} /\ gate = {}
  /\ child = [r \in Requests |-> "none"]
  /\ stopped = [r \in Requests |-> "no"]
  /\ cancelled = {}
  /\ sessions = <<>> /\ loaded = {}
  /\ context = [s \in Sessions |-> None]
  /\ pendingStops = {}
  /\ owner = [i \in Identities |-> None]
  /\ unused = [r \in Requests |-> {}] /\ adrift = {}
  /\ stops = [e \in Executions |-> 0] /\ left = {}

Goto(r, p) == place' = [place EXCEPT ![r] = p]

(* An exception or a result: on to the finally of run.                     *)
Finally(r, a) ==
  /\ Goto(r, "leaving")
  /\ reply' = [reply EXCEPT ![r] = a]

(* Before the run is registered nothing has to be undone.                  *)
Refuse(r) ==
  /\ Goto(r, "done")
  /\ reply' = [reply EXCEPT ![r] = "refused"]

Unlocked == \A r \in Requests : place[r] # "assigning"   \* the manager's lock

-----------------------------------------------------------------------------
(* The sessions.                                                           *)

(* _clean_sessions: the first n are too old, then the oldest go until a    *)
(* new one fits.                                                           *)
Evicted(n) ==
  {sessions[k] : k \in {j \in 1..Len(sessions) : j <= n \/ j <= Len(sessions) - MaxSessions + 1}}

Without(gone) == SelectSeq(sessions, LAMBDA s : s \notin gone)

(* create_session and _session: whatever has to go, whether a run uses it  *)
(* or not, goes for a new one.                                             *)
Create(s, identity, n, users) ==
  LET gone == Evicted(n) IN
  /\ sessions' = Append(Without(gone), s)
  /\ context' = [t \in Sessions |-> IF t = s THEN identity
                                     ELSE IF t \in gone THEN None ELSE context[t]]
  /\ loaded' = {q \in loaded : SessionOf(q) \notin gone} \cup users

CreateSession(s, identity) ==
  /\ context[s] = None /\ Unlocked
  /\ \A r \in Requests : SessionOf(r) = s => place[r] = "new"  \* a fresh uuid
  /\ \E n \in 0..Len(sessions) : Create(s, identity, n, {})
  /\ UNCHANGED <<world, place, reply, runs, gate, child, files, stop>>

UseSession(r) ==
  LET s == SessionOf(r) IN
  /\ place[r] = "new" /\ Unlocked
  /\ \/ /\ context[s] = IdentityOf(r)
        /\ sessions' = Append(Without({s}), s)
        /\ loaded' = loaded \cup {r}
        /\ UNCHANGED context
     \/ /\ context[s] = None
        /\ \E n \in 0..Len(sessions) : Create(s, IdentityOf(r), n, {r})
  /\ Goto(r, "known")
  /\ UNCHANGED <<world, reply, runs, gate, child, files, stop>>

(* Another identity, or a workspace that is not below the root.            *)
RefuseSession(r) ==
  /\ place[r] = "new"
  /\ Refuse(r)
  /\ UNCHANGED rest

-----------------------------------------------------------------------------
(* Registration and admission.                                             *)

(* A session that was created again is taken for a free one.               *)
BusyBug(r) == \E q \in runs : \/ Execution(q) = Execution(r)
                              \/ SessionOf(q) = SessionOf(r) /\ q \in loaded

Busy(r) == \E q \in runs : Execution(q) = Execution(r) \/ SessionOf(q) = SessionOf(r)

(* A remembered stop is not forgotten when it is used.                     *)
SpendBug(r) == UNCHANGED pendingStops

Spend(r) == pendingStops' = pendingStops \ {Execution(r)}

Register(r) ==
  /\ place[r] = "known" /\ Unlocked
  /\ ~Busy(r)
  /\ runs' = runs \cup {r}
  /\ Spend(r)
  /\ IF Execution(r) \in pendingStops
       THEN /\ stopped' = [stopped EXCEPT ![r] = "remembered"]
            /\ Finally(r, "cancelled")
       ELSE Goto(r, "queued") /\ UNCHANGED <<stopped, reply>>
  /\ UNCHANGED <<world, gate, child, table, files, cancelled, stops, left>>

RefuseBusy(r) ==
  /\ place[r] = "known" /\ Unlocked
  /\ Busy(r)
  /\ Refuse(r)
  /\ UNCHANGED rest

(* What follows the wait for a permit: cancelled, invalid options, or on.  *)
AfterQueue(r) ==
  IF stopped[r] # "no"
    THEN Finally(r, "cancelled")
    ELSE \/ Goto(r, "owner") /\ UNCHANGED reply
         \/ Finally(r, "refused")

Enter(r) ==
  /\ place[r] = "queued"
  /\ Cardinality(gate) < world.capacity
  /\ gate' = gate \cup {r}
  /\ AfterQueue(r)
  /\ UNCHANGED <<world, runs, child, table, files, stop>>

QueueTimeout(r) ==
  /\ place[r] = "queued"
  /\ Finally(r, "timeout")
  /\ UNCHANGED rest

-----------------------------------------------------------------------------
(* _execution_uid: a thread looks at the owners of all repositories, then  *)
(* gives the workspace to a user id that no other workspace has; if that   *)
(* is the one who owns it, it is kept.                                     *)

LookAtOwners(r) ==
  LET old  == owner[IdentityOf(r)]
      free == world.uids \ {owner[i] : i \in Identities \ {IdentityOf(r)}} IN
  /\ place[r] = "owner" /\ Unlocked
  /\ unused' = [unused EXCEPT ![r] = IF old \in free THEN {old} ELSE free]
  /\ Goto(r, "assigning")
  /\ UNCHANGED <<world, reply, runs, gate, child, table, owner, adrift, stop>>

GiveAway(r) ==
  /\ \E u \in unused[r] : owner' = [owner EXCEPT ![IdentityOf(r)] = u]
  /\ unused' = [unused EXCEPT ![r] = {}]

(* Then run goes on to publish the process and to start the child, unless  *)
(* the tools it was given are invalid.                                     *)
AssignOwner(r) ==
  /\ place[r] = "assigning"
  /\ GiveAway(r)
  /\ \/ Goto(r, "spawning") /\ UNCHANGED reply
     \/ Finally(r, "refused")
  /\ UNCHANGED <<world, runs, gate, child, table, adrift, stop>>

(* The thread of a run that was cancelled meanwhile.                       *)
AssignLate(r) ==
  /\ r \in adrift
  /\ GiveAway(r)
  /\ UNCHANGED <<world, place, reply, runs, gate, child, table, adrift, stop>>

PoolExhausted(r) ==
  /\ place[r] = "assigning" /\ unused[r] = {}
  /\ Finally(r, "failed")
  /\ UNCHANGED rest

-----------------------------------------------------------------------------
(* The child process.                                                      *)

Spawn(r) ==
  /\ place[r] = "spawning"
  /\ child' = [child EXCEPT ![r] = "alive"]
  /\ Goto(r, "initialize")
  /\ UNCHANGED <<world, reply, runs, gate, table, files, stop>>

SpawnError(r) ==
  /\ place[r] = "spawning"
  /\ Finally(r, "failed")
  /\ UNCHANGED rest

(* The answers to initialize and session/prompt; they may have been sent   *)
(* before the child was stopped.                                           *)
ChildAnswers(r) ==
  /\ \/ place[r] = "initialize" /\ Goto(r, "prompt")
     \/ place[r] = "prompt" /\ Goto(r, "turn")
  /\ UNCHANGED <<reply, rest>>

(* The child reports that the turn is over.                                *)
TurnEnds(r) ==
  /\ place[r] = "turn" /\ child[r] = "alive"
  /\ Goto(r, "idle")
  /\ UNCHANGED <<reply, rest>>

(* A turn that ended with an error or without text fails.                  *)
TakeResult(r) ==
  /\ place[r] = "idle"
  /\ \/ Goto(r, "collecting") /\ UNCHANGED reply
     \/ Finally(r, "failed")
  /\ UNCHANGED rest

(* An answer that is an error or not what was expected, or the timeout of  *)
(* a request; the turn itself has none.                                    *)
Disappoint(r) ==
  /\ place[r] \in {"initialize", "prompt"}
  /\ Finally(r, "failed")
  /\ UNCHANGED rest

(* The child ends, signalled or by itself ...                              *)
Exit(r) ==
  /\ child[r] \in {"alive", "signalled"}
  /\ child' = [child EXCEPT ![r] = "dead"]
  /\ UNCHANGED <<world, place, reply, runs, gate, table, files, stop>>

(* ... and _read_stdout fails whoever waits.                               *)
OutputEnds(r) ==
  /\ place[r] \in Working /\ child[r] = "dead"
  /\ Finally(r, IF r \in cancelled THEN "cancelled" ELSE "failed")
  /\ UNCHANGED rest

(* The artifacts are collected with git, unless it cannot be started; then *)
(* the result is complete.                                                 *)
Collect(r) ==
  /\ place[r] = "collecting"
  /\ \E outcome \in {"completed", "failed"} : Finally(r, outcome)
  /\ UNCHANGED rest

-----------------------------------------------------------------------------
(* The finally of run.                                                     *)

(* HarnessProcess.close ends the child in any case (shutdown, SIGTERM,     *)
(* SIGKILL), then the permit goes back.                                    *)
Close(r) ==
  /\ place[r] = "leaving"
  /\ child' = [child EXCEPT ![r] = IF @ = "none" THEN @ ELSE "dead"]
  /\ gate' = gate \ {r}
  /\ Goto(r, "closed")
  /\ UNCHANGED <<world, reply, runs, table, files, stop>>

(* last_used_at is written to the session as it was loaded, which may not  *)
(* be in the table any more.                                               *)
LastUsed(r) ==
  /\ sessions' = IF r \in loaded THEN Append(Without({SessionOf(r)}), SessionOf(r)) ELSE sessions
  /\ loaded' = loaded \ {r}

Deregister(r) ==
  /\ place[r] = "closed" /\ Unlocked
  /\ LastUsed(r)
  /\ runs' = runs \ {r}
  /\ Goto(r, "done")
  /\ UNCHANGED <<world, reply, gate, child, context, files, stop>>

-----------------------------------------------------------------------------
(* stop, from the endpoint or, when its client has gone before the run was *)
(* over, from the stream.                                                  *)

Streaming(e) == {r \in world.streams : Execution(r) = e /\ place[r] \notin {"done", "lost"}}

Ask(e) ==
  /\ Unlocked
  /\ \A d \in Executions : stops[d] < MaxStops
  /\ stops' = [stops EXCEPT ![e] = @ + 1]
  /\ \/ UNCHANGED left
     \/ \E r \in Streaming(e) : left' = left \cup {r}

(* Nobody signals the child.                                               *)
SignalBug(r) == UNCHANGED <<child, cancelled>>

(* HarnessProcess.cancel, once the process is published: a flag, and       *)
(* SIGTERM when the child has been started.                                *)
Signal(r) ==
  /\ cancelled' = IF place[r] \in {"spawning", "idle", "collecting"} \cup Working
                    THEN cancelled \cup {r} ELSE cancelled
  /\ child' = [child EXCEPT ![r] = IF @ = "alive" THEN "signalled" ELSE @]

StopRun(r) ==
  /\ r \in runs
  /\ Ask(Execution(r))
  /\ stopped' = [stopped EXCEPT ![r] = IF @ = "no" THEN place[r] ELSE @]
  /\ Signal(r)
  /\ UNCHANGED <<world, place, reply, runs, gate, table, files, pendingStops>>

StopUnknown(e) ==
  /\ \A r \in runs : Execution(r) # e
  /\ Ask(e)
  /\ pendingStops' = pendingStops \cup {e}
  /\ UNCHANGED <<world, place, reply, runs, gate, child, table, files, stopped, cancelled>>

(* Thirty seconds later.                                                   *)
ForgetStop(e) ==
  /\ e \in pendingStops
  /\ pendingStops' = pendingStops \ {e}
  /\ UNCHANGED <<world, place, reply, runs, gate, child, table, files,
                 stopped, cancelled, stops, left>>

-----------------------------------------------------------------------------
(* Then the stream waits for its run and is cancelled while it waits; that *)
(* cancels the run where it waits, and again in each turn of the event     *)
(* loop until the run is over.                                             *)

CancelEntry(r) ==
  /\ r \in left
  /\ place[r] = "new" \/ (place[r] = "known" /\ ~Unlocked)
  /\ Goto(r, "done")
  /\ reply' = [reply EXCEPT ![r] = "gone"]
  /\ UNCHANGED rest

(* The thread that assigns the owner goes on without the lock; a child that*)
(* is just being started is killed.                                        *)
CancelBody(r) ==
  /\ r \in left
  /\ \/ place[r] \in {"queued", "assigning", "spawning", "idle", "collecting"} \cup Working
     \/ place[r] = "owner" /\ ~Unlocked
  /\ Finally(r, "gone")
  /\ adrift' = IF place[r] = "assigning" THEN adrift \cup {r} ELSE adrift
  /\ child' = [child EXCEPT ![r] = IF place[r] = "spawning" THEN "dead" ELSE @]
  /\ UNCHANGED <<world, runs, gate, table, owner, unused, stop>>

(* close gives up wherever it is with the child; then neither the permit   *)
(* nor the registration goes back.  Where the lock is awaited the permit   *)
(* has gone back, and the registration stays.                              *)
CancelFinally(r) ==
  /\ r \in left
  /\ \/ /\ place[r] = "leaving" /\ child[r] # "none"
        /\ child' \in {child, [child EXCEPT ![r] = IF @ = "alive" THEN "signalled" ELSE @]}
        /\ UNCHANGED <<sessions, loaded>>
     \/ /\ place[r] = "closed" /\ ~Unlocked
        /\ LastUsed(r)
        /\ UNCHANGED child
  /\ Goto(r, "lost")
  /\ reply' = [reply EXCEPT ![r] = "gone"]
  /\ UNCHANGED <<world, runs, gate, context, files, stop>>

-----------------------------------------------------------------------------
Begin(r)  == UseSession(r) \/ RefuseSession(r) \/ Register(r) \/ RefuseBusy(r)
Wait(r)   == Enter(r) \/ QueueTimeout(r) \/ LookAtOwners(r) \/ AssignOwner(r) \/ PoolExhausted(r)
Start(r)  == Spawn(r) \/ SpawnError(r) \/ ChildAnswers(r) \/ Disappoint(r)
Finish(r) == TakeResult(r) \/ OutputEnds(r) \/ Collect(r) \/ Close(r) \/ Deregister(r)
Cancel(r) == CancelEntry(r) \/ CancelBody(r) \/ CancelFinally(r)

Next ==
  \/ \E r \in Requests : \/ Begin(r) \/ Wait(r) \/ Start(r) \/ Finish(r)
                         \/ TurnEnds(r) \/ Exit(r) \/ StopRun(r)
                         \/ Cancel(r) \/ AssignLate(r)
  \/ \E e \in Executions : StopUnknown(e) \/ ForgetStop(e)
  \/ \E s \in Sessions, i \in Identities : CreateSession(s, i)

Spec == Init /\ [][Next]_runtimeVars

(* The service goes on, its timeouts expire, and a child that got SIGTERM  *)
(* ends; a child may work on a turn for ever.                              *)
Obliged(r) == Wait(r) \/ Start(r) \/ Finish(r) \/ (child[r] = "signalled" /\ Exit(r))

-----------------------------------------------------------------------------
(* Correctness.                                                            *)

Alive == {r \in Requests : child[r] \in {"alive", "signalled"}}

TypeOK ==
  /\ world \in Worlds
  /\ place \in [Requests -> Places]
  /\ reply \in [Requests -> Replies]
  /\ runs \subseteq Requests /\ gate \subseteq Requests
  /\ child \in [Requests -> {"none", "alive", "signalled", "dead"}]
  /\ stopped \in [Requests -> {"no", "remembered"} \cup Places]
  /\ cancelled \subseteq Requests /\ loaded \subseteq Requests
  /\ sessions \in Seq(Sessions) /\ Len(sessions) <= MaxSessions
  /\ context \in [Sessions -> Identities \cup {None}]
  /\ pendingStops \subseteq Executions
  /\ owner \in [Identities -> Uids \cup {None}]
  /\ unused \in [Requests -> SUBSET Uids] /\ adrift \subseteq Requests
  /\ stops \in [Executions -> 0..MaxStops] /\ left \subseteq world.streams

(* The children that live at the same time are no more than                *)
(* max_concurrency, whatever ended the runs before them (server.py:351-359)*)
(* or cut their end short (server.py:558); they are of different executions*)
(* and sessions, even if a session was evicted while it was in use and     *)
(* created again (server.py:275-279, 421); and in different workspaces they*)
(* never run as the same user, unless a client left while a thread assigned*)
(* an owner, which goes on without the lock (server.py:406-414, 643-667).  *)
Isolation ==
  /\ Cardinality(Alive) <= world.capacity
  /\ \A q, r \in Alive :
       /\ q # r => Execution(q) # Execution(r) /\ SessionOf(q) # SessionOf(r)
       /\ owner[IdentityOf(q)] = owner[IdentityOf(r)] /\ adrift = {} => IdentityOf(q) = IdentityOf(r)

(* A run that was stopped does not complete, unless the stop came between  *)
(* the last test of cancelled and the start of the child (server.py:294),  *)
(* where it is lost, or when the turn was over; and a stop cancels one run *)
(* of its execution at most, the one it met or one that comes within thirty*)
(* seconds, maybe the retry (server.py:280, 366).                          *)
StopsAccounted ==
  /\ \A r \in Requests :
       reply[r] = "completed" =>
         stopped[r] \in {"no", "owner", "spawning", "idle", "collecting", "leaving", "closed"}
  /\ \A e \in Executions :
       Cardinality({r \in Requests : Execution(r) = e /\ reply[r] = "cancelled"}) <= stops[e]

(* A stop that meets a run that waits or works ends it and its child, and  *)
(* its permit and its session are free again, unless the run belongs to a  *)
(* stream whose departure cut the finally of the run short: then both are  *)
(* lost (server.py:351-359, 555-558).                                      *)
StopEnds ==
  \A r \in Requests :
    stopped[r] \in {"queued"} \cup Working ~>
      child[r] # "alive" /\ (r \notin runs \cup gate \/ (r \in left /\ place[r] = "lost"))
=============================================================================

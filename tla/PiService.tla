----------------------------- MODULE PiService -----------------------------
(***************************************************************************)
(* The Pi runtime service: createPiRuntimeServer and ConcurrencyGate of    *)
(* services/pi-runtime/src/server.mjs, and PiAgentEngine.run of            *)
(* pi-engine.mjs.  One event loop: a step is what happens up to an await   *)
(* that really waits, with the promises it settles.  Contents, events and  *)
(* tools are left out.  Operators whose name ends in "Bug" are variants of *)
(* the operator that follows them, with a mistake somebody could make in   *)
(* that code.                                                              *)
(***************************************************************************)
EXTENDS Naturals, FiniteSets, Sequences

CONSTANTS
  Requests, Executions, Sessions,
  Asked,       \* per request: its execution, its session or None, streamed or not
  Limit,       \* maxConcurrency
  MaxSessions, \* of sessions, and of stops that are remembered
  MaxStops,    \* bound: how often stop is called
  None

ASSUME PiAssumption ==
  /\ IsFiniteSet(Requests) /\ None \notin Requests
  /\ Asked \in [Requests -> [execution : Executions, session : Sessions \cup {None},
                            streams : BOOLEAN]]
  /\ Limit \in Nat /\ MaxStops \in Nat
  /\ MaxSessions \in Nat \ {0}   \* config.mjs:39

VARIABLES
  station,  \* where a request is
  verdict,  \* what it was answered, or is going to be
  record,   \* runs: the request whose run is recorded for an execution
  status,   \* run.status of that record
  aborted,  \* the requests whose AbortController was used
  line,     \* gate.queue
  inUse,    \* gate.active
  pending,  \* pendingStops, the oldest first
  table,    \* the sessions, the one used last at the end
  halted,   \* history: where the first stop found a request
  gone,     \* history: the streams whose client has left, or whose agent aborted
  asked,    \* history: the executions with a stop that is still of account
  ran,      \* history: the requests whose run was started under the record
  calls     \* the calls of stop

gateVars == <<line, inUse>>
stopVars == <<pending, asked, calls>>
piVars == <<station, verdict, record, status, aborted, gateVars, table, halted, gone, ran, stopVars>>

ExecutionId(r) == Asked[r].execution
SessionOf(r)   == Asked[r].session
Inside == {"loading", "prompting", "closing"}

Init ==
  /\ station = [r \in Requests |-> "new"] /\ verdict = [r \in Requests |-> "none"]
  /\ record = [e \in Executions |-> None] /\ status = [e \in Executions |-> "none"]
  /\ aborted = {} /\ line = <<>> /\ inUse = 0
  /\ pending = <<>> /\ table = <<>>
  /\ halted = [r \in Requests |-> "no"]
  /\ gone = {} /\ asked = {} /\ ran = [e \in Executions |-> {}]
  /\ calls = 0

In(x, list) == \E i \in 1..Len(list) : list[i] = x

(* A list without an element, which is in it at most once.                 *)
Drop(list, gap) ==
  IF In(gap, list)
    THEN LET k == CHOOSE i \in 1..Len(list) : list[i] = gap
         IN [i \in 1..(Len(list) - 1) |-> IF i < k THEN list[i] ELSE list[i + 1]]
    ELSE list

Reach(r, s)  == station' = [station EXCEPT ![r] = s]
Say(r, v)    == Reach(r, "done") /\ verdict' = [verdict EXCEPT ![r] = v]
Mark(e, r, s) == record' = [record EXCEPT ![e] = r] /\ status' = [status EXCEPT ![e] = s]
Unmark(e)    == Mark(e, None, "none")

-----------------------------------------------------------------------------
(* Sessions.                                                               *)

(* cleanSessions: the first n are too old, and the oldest make room.       *)
OpenSession(s) ==
  /\ ~In(s, table)
  /\ \A r \in Requests : SessionOf(r) = s => station[r] = "new"   \* a random id
  /\ \E n \in 0..Len(table) :
       LET room == Len(table) - MaxSessions + 1
           cut  == IF n > room THEN n ELSE room
       IN table' = Append(SubSeq(table, cut + 1, Len(table)), s)
  /\ UNCHANGED <<station, verdict, record, status, aborted, gateVars, halted, gone, ran, stopVars>>

(* A request in a session touches it; when it is too old it is deleted.    *)
Touch(r) ==
  /\ SessionOf(r) # None => In(SessionOf(r), table)
  /\ table' = IF SessionOf(r) = None THEN table
                ELSE Append(Drop(table, SessionOf(r)), SessionOf(r))

NoSession(r) ==
  /\ station[r] = "new" /\ SessionOf(r) # None
  /\ table' = Drop(table, SessionOf(r))
  /\ Say(r, "refused")
  /\ UNCHANGED <<record, status, aborted, gateVars, halted, gone, ran, stopVars>>

-----------------------------------------------------------------------------
(* Admission: execute.                                                     *)

(* The run of an execution that is recorded answers for its retry.         *)
Repeat(r) ==
  LET e == ExecutionId(r) IN
  /\ station[r] = "new" /\ Touch(r)
  /\ record[e] # None
  /\ Say(r, IF status[e] \in {"cancelling", "cancelled"} THEN "cancelled" ELSE "refused")
  /\ UNCHANGED <<record, status, aborted, gateVars, halted, gone, ran, stopVars>>

UseUp(e) == pending' = Drop(pending, e)

(* A stop that came before is used up with the run.                        *)
StoppedBefore(r) ==
  LET e == ExecutionId(r) IN
  /\ station[r] = "new" /\ Touch(r)
  /\ record[e] = None /\ In(e, pending)
  /\ UseUp(e) /\ asked' = asked \ {e}
  /\ aborted' = aborted \cup {r} /\ Say(r, "cancelled")
  /\ UNCHANGED <<record, status, gateVars, halted, gone, ran, calls>>

Admit(r) ==
  LET e == ExecutionId(r) IN
  /\ station[r] = "new" /\ Touch(r)
  /\ record[e] = None /\ ~In(e, pending)
  /\ IF inUse < Limit
       THEN /\ Reach(r, "loading") /\ Mark(e, r, "running")
            /\ inUse' = inUse + 1 /\ ran' = [ran EXCEPT ![e] = @ \cup {r}]
            /\ UNCHANGED line
       ELSE /\ Reach(r, "queued") /\ Mark(e, r, "queued")
            /\ line' = Append(line, r) /\ UNCHANGED <<inUse, ran>>
  /\ UNCHANGED <<verdict, aborted, halted, gone, stopVars>>

QueueTimeout(r) ==
  /\ station[r] = "queued"
  /\ line' = Drop(line, r)
  /\ Unmark(ExecutionId(r)) /\ Say(r, "timeout")
  /\ asked' = asked \ {ExecutionId(r)}
  /\ UNCHANGED <<aborted, inUse, table, halted, gone, ran, pending, calls>>

-----------------------------------------------------------------------------
(* The engine.                                                             *)

(* The tools are there; a run that was aborted meanwhile ends.             *)
Load(r) ==
  /\ station[r] = "loading"
  /\ IF r \in aborted
       THEN Reach(r, "closing") /\ verdict' = [verdict EXCEPT ![r] = "cancelled"]
       ELSE Reach(r, "prompting") /\ UNCHANGED verdict

Loaded(r) ==
  /\ Load(r)
  /\ UNCHANGED <<record, status, aborted, gateVars, table, halted, gone, ran, stopVars>>

(* What the agent made of the prompt counts, whatever the signal says.     *)
ResultsBug(r) == {"completed", "failed"}

Results(r) == IF r \in aborted THEN {"cancelled"} ELSE {"completed", "failed"}

Prompted(r) ==
  /\ station[r] = "prompting" /\ Reach(r, "closing")
  /\ \E v \in Results(r) : verdict' = [verdict EXCEPT ![r] = v]
  /\ UNCHANGED <<record, status, aborted, gateVars, table, halted, gone, ran, stopVars>>

(* An AbortError that nobody asked for counts as cancelled.                *)
AgentAborts(r) ==
  /\ station[r] = "prompting" /\ Reach(r, "closing")
  /\ verdict' = [verdict EXCEPT ![r] = "cancelled"]
  /\ gone' = gone \cup {r}
  /\ UNCHANGED <<record, status, aborted, gateVars, table, halted, ran, stopVars>>

(* The one who waits gets a permit, and the count goes down as well.       *)
ReleaseBug(next) == inUse' = inUse - 1 /\ line' = IF next = None THEN line ELSE Tail(line)

(* release: the first in line takes over the permit.                       *)
Release(next) ==
  IF next = None THEN inUse' = inUse - 1 /\ UNCHANGED line
                 ELSE line' = Tail(line) /\ UNCHANGED inUse

(* The record is thrown away at once.                                      *)
KeepBug(e, r, s) == Unmark(e)

(* The record stays for a minute.                                          *)
Keep(e, r, s) == Mark(e, r, s)

(* The end of execute; an error after an abort is a cancellation.  A run   *)
(* whose tools cannot be loaded ends here at once.                         *)
Finish(r) ==
  LET e    == ExecutionId(r)
      next == IF line = <<>> THEN None ELSE Head(line)
      end  == IF verdict[r] = "completed" THEN "completed"
                ELSE IF r \in aborted THEN "cancelled"
                ELSE IF station[r] = "loading" THEN "failed" ELSE verdict[r]
  IN
  /\ station[r] \in {"loading", "closing"}
  /\ Release(next)
  /\ verdict' = [verdict EXCEPT ![r] = end]
  /\ IF next = None
       THEN Keep(e, r, end) /\ Reach(r, "done") /\ UNCHANGED ran
       ELSE /\ record' = [record EXCEPT ![e] = r]
            /\ status' = [status EXCEPT ![e] = end, ![ExecutionId(next)] = "running"]
            /\ station' = [station EXCEPT ![r] = "done", ![next] = "loading"]
            /\ ran' = [ran EXCEPT ![ExecutionId(next)] = @ \cup {next}]
  /\ UNCHANGED <<aborted, table, halted, gone, stopVars>>

(* A minute later, by the id of the run.                                   *)
ForgetRun(e) ==
  /\ record[e] # None /\ station[record[e]] = "done"
  /\ Unmark(e)
  /\ asked' = asked \ {e} /\ ran' = [ran EXCEPT ![e] = {}]
  /\ UNCHANGED <<station, verdict, aborted, gateVars, table, halted, gone, pending, calls>>

-----------------------------------------------------------------------------
(* stopRun, and the client of a stream that leaves.                        *)

Call(e) == calls < MaxStops /\ calls' = calls + 1

StopRun(e) ==
  LET r == record[e] IN
  /\ r # None /\ Call(e)
  /\ aborted' = aborted \cup {r}
  /\ halted' = [halted EXCEPT ![r] = IF @ = "no" THEN station[r] ELSE @]
  /\ IF station[r] = "queued"
       THEN line' = Drop(line, r) /\ Unmark(e) /\ Say(r, "cancelled") /\ UNCHANGED asked
       ELSE /\ Mark(e, r, "cancelling") /\ asked' = asked \cup {e}
            /\ UNCHANGED <<line, station, verdict>>
  /\ UNCHANGED <<inUse, table, gone, ran, pending>>

Kept == IF Len(pending) < MaxSessions THEN pending ELSE Tail(pending)

(* A stop nobody was met by is remembered, in place of the oldest.         *)
StopUnknown(e) ==
  /\ record[e] = None /\ Call(e)
  /\ pending' = IF In(e, Kept) THEN Kept ELSE Append(Kept, e)
  /\ asked' = {d \in asked : record[d] # None \/ In(d, Kept)} \cup {e}
  /\ UNCHANGED <<station, verdict, record, status, aborted, gateVars, table, halted, gone, ran>>

(* Thirty seconds later.                                                   *)
ForgetStop(e) ==
  /\ In(e, pending)
  /\ pending' = Drop(pending, e)
  /\ asked' = IF record[e] = None THEN asked \ {e} ELSE asked
  /\ UNCHANGED <<station, verdict, record, status, aborted, gateVars, table, halted, gone, ran, calls>>

Leave(r) ==
  /\ Asked[r].streams /\ station[r] \in Inside /\ r \notin gone
  /\ aborted' = aborted \cup {r} /\ gone' = gone \cup {r}
  /\ UNCHANGED <<station, verdict, record, status, gateVars, table, halted, ran, stopVars>>

-----------------------------------------------------------------------------
Enter(r) == NoSession(r) \/ Repeat(r) \/ StoppedBefore(r) \/ Admit(r) \/ QueueTimeout(r)
Run(r)   == Loaded(r) \/ Prompted(r) \/ AgentAborts(r) \/ Finish(r)

Next ==
  \/ \E r \in Requests : Enter(r) \/ Run(r) \/ Leave(r)
  \/ \E e \in Executions : ForgetRun(e) \/ StopRun(e) \/ StopUnknown(e) \/ ForgetStop(e)
  \/ \E s \in Sessions : OpenSession(s)

Spec == Init /\ [][Next]_piVars

(* The service goes on, and an agent that is aborted while it works ends.  *)
Obliged(r) == \/ QueueTimeout(r) \/ Loaded(r) \/ Finish(r)
              \/ halted[r] = "prompting" /\ Prompted(r)

-----------------------------------------------------------------------------
(* Correctness.                                                            *)

TypeOK ==
  /\ station \in [Requests -> {"new", "queued", "done"} \cup Inside]
  /\ verdict \in [Requests -> {"none", "completed", "cancelled", "failed", "refused", "timeout"}]
  /\ record \in [Executions -> Requests \cup {None}]
  /\ status \in [Executions -> {"none", "queued", "running", "cancelling",
                                "completed", "cancelled", "failed"}]
  /\ aborted \subseteq Requests /\ gone \subseteq Requests /\ asked \subseteq Executions
  /\ line \in Seq(Requests) /\ inUse \in Nat /\ calls \in 0..MaxStops
  /\ pending \in Seq(Executions) /\ Len(pending) <= MaxSessions
  /\ table \in Seq(Sessions) /\ Len(table) <= MaxSessions
  /\ halted \in [Requests -> {"no", "queued", "done"} \cup Inside]
  /\ ran \in [Executions -> SUBSET Requests]

(* The count of the gate is the number of runs inside, at most the limit;  *)
(* nobody waits while there is a permit, and those who wait are in line    *)
(* once (server.mjs:14-58).                                                *)
GateExact ==
  /\ inUse = Cardinality({r \in Requests : station[r] \in Inside}) /\ inUse <= Limit
  /\ line # <<>> => inUse = Limit
  /\ Len(line) = Cardinality({r \in Requests : station[r] = "queued"})
  /\ \A r \in Requests : station[r] = "queued" => In(r, line)

(* As long as a run is recorded, no other run of its execution is started, *)
(* and a run under way is the one a stop finds (server.mjs:169-187, 287).  *)
RunOnce ==
  /\ \A e \in Executions : Cardinality(ran[e]) <= 1
  /\ \A r \in Requests : station[r] \in {"queued"} \cup Inside => record[ExecutionId(r)] = r

(* A run that was stopped before its agent was through does not complete   *)
(* (server.mjs:162-168, pi-engine.mjs:163-180), and a request is only      *)
(* cancelled for a stop that met its run, that met the recorded run it     *)
(* repeats, or that is remembered for it, or because its client has left   *)
(* (server.mjs:185-202, 213-215).                                          *)
StopExact ==
  [][\A r \in Requests :
       station[r] # "done" /\ station'[r] = "done" =>
         /\ verdict'[r] = "completed" => halted'[r] \notin {"queued", "loading", "prompting"}
         /\ verdict'[r] = "cancelled" =>
              \/ ExecutionId(r) \in asked
              \/ halted'[r] # "no"
              \/ r \in gone
              \/ \E q \in gone : record[ExecutionId(r)] = q]_piVars

(* A stop that meets a run that waits or works ends it.                    *)
StopTakesEffect ==
  \A r \in Requests : halted[r] \in {"loading", "prompting"} ~> station[r] = "done"
=============================================================================

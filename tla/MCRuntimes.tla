----------------------------- MODULE MCRuntimes -----------------------------
(* The runtimes and the gateways they call, on small instances in one      *)
(* state space, under the fairness of their timeouts: every behaviour is   *)
(* one of the component "part" names, while the others stay where they     *)
(* begin. They share no state, so that this asks of each what a run of its *)
(* own would ask.                                                          *)
EXTENDS RuntimeService, ModelGateway

CONSTANTS
  Parts,   \* the components to check
  Pairs,   \* the pairs of runs of RuntimeService
  b1, c1, c2, e1, e2, i1, i2, k1, k2, p1, p2, p3, r1, r2, s1, s2, u1, u2

VARIABLES
  part,
  \* PiService
  station, verdict, record, status, aborted, line, inUse, pending, shelf, halted, gone,
  asked, ran, calls,
  \* CapabilityGateway
  pc, row, known, recent, holder, sent, cached, answer, running, revoked, hurt

piVars ==
  <<station, verdict, record, status, aborted, line, inUse, pending, shelf,
    halted, gone, asked, ran, calls>>
capabilityVars ==
  <<pc, row, known, recent, holder, sent, cached, answer, running, revoked,
    hurt>>

-----------------------------------------------------------------------------
(* Two runs: of one execution (a retry) with one permit, of two executions *)
(* in one session with two, and apart with one and with two; the first may *)
(* be a stream, and the user ids may suffice or not.                       *)
Asks(e, s, i) == [execution |-> e, session |-> s, identity |-> i]
Two(other, n, streams, ids) ==
  [ask |-> [r \in {r1, r2} |-> IF r = r1 THEN Asks(e1, s1, i1) ELSE other],
   capacity |-> n, streams |-> streams, uids |-> ids]
PairOf ==
  [retry    |-> Two(Asks(e1, s1, i1), 1, {r1}, {u1}),
   session  |-> Two(Asks(e2, s1, i2), 2, {},   {u1, u2}),
   apart    |-> Two(Asks(e2, s2, i2), 1, {r1}, {u1}),
   parallel |-> Two(Asks(e2, s2, i2), 2, {r1}, {u1, u2})]
MCRuns == {PairOf[p] : p \in Pairs}

(* A stream, its retry without session, and a run of another execution.    *)
MCAsked ==
  [r \in {p1, p2, p3} |->
     [execution |-> IF r = p3 THEN e2 ELSE e1,
      session   |-> IF r = p1 THEN s1 ELSE IF r = p3 THEN s2 ELSE None,
      streams   |-> r = p1]]

Pi == INSTANCE PiService WITH
  Requests <- {p1, p2, p3}, Asked <- MCAsked, Limit <- 1, table <- shelf

(* Two calls of one binding that may follow each other but not overlap.    *)
Capability == INSTANCE CapabilityGateway WITH
  Calls <- {c1, c2}, Bindings <- {b1}, Connectors <- {k1, k2}, Executions <- {e1},
  BindingOf <- [c \in {c1, c2} |-> b1], ConnectorOf <- [c \in {c1, c2} |-> IF c = c1 THEN k1 ELSE k2],
  ExecutionOf <- [c \in {c1, c2} |-> e1],
  Concurrency <- [k \in {b1, k1, k2} |-> 1], PerMinute <- [k \in {b1, k1, k2} |-> IF k = k2 THEN 1 ELSE 2],
  PerExecution <- [b \in {b1} |-> 2], Retries <- [c \in {c1, c2} |-> IF c = c1 THEN 1 ELSE 0],
  Cacheable <- {b1}, Trouble <- {"death", "database"}, MaxTrouble <- 1

-----------------------------------------------------------------------------
MCInit ==
  /\ part \in Parts
  /\ Init /\ ModelInit /\ Pi!Init /\ Capability!Init
  /\ part # "runtime" => world = CHOOSE w \in MCRuns : TRUE

Still(p) ==
  /\ IF p = "runtime"    THEN TRUE ELSE UNCHANGED runtimeVars
  /\ IF p = "pi"         THEN TRUE ELSE UNCHANGED piVars
  /\ IF p = "model"      THEN TRUE ELSE UNCHANGED modelVars
  /\ IF p = "capability" THEN TRUE ELSE UNCHANGED capabilityVars

MCNext ==
  /\ UNCHANGED part
  /\ Still(part)
  /\ \/ part = "runtime"    /\ Next
     \/ part = "pi"         /\ Pi!Next
     \/ part = "model"      /\ ModelNext
     \/ part = "capability" /\ Capability!Next

vars == <<part, runtimeVars, piVars, modelVars, capabilityVars>>

(* What a service goes on with by itself: some step it owes somebody.      *)
MCSpec ==
  /\ MCInit /\ [][MCNext]_vars
  /\ WF_runtimeVars(part = "runtime" /\ \E r \in Requests : Obliged(r))
  /\ WF_piVars(part = "pi" /\ \E r \in {p1, p2, p3} : Pi!Obliged(r))
  /\ WF_modelVars(part = "model" /\ \E c \in Calls : ModelObliged(c))
  /\ WF_capabilityVars(part = "capability" /\ \E c \in {c1, c2} :
                         Capability!Proceed(c) /\ ~Capability!At(c, "new"))

-----------------------------------------------------------------------------
(* A stop that meets a run ends it, in DeepSeek's service and in Pi's.     *)
StopsEnd == StopEnds /\ Pi!StopTakesEffect

(* A call of the model gateway gives its permit back and a call of the     *)
(* capability gateway is over, some day.                                   *)
CallsEnd == PermitReturns /\ Capability!EveryCallEnds
=============================================================================

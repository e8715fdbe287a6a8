----------------------------- MODULE MCServices -----------------------------
(* The services around the task queue and Pi's service, on small instances *)
(* in one state space: every behaviour is one of the component "part"      *)
(* names, while the others stay where they begin. They share no state, so  *)
(* that this asks of each what a run of its own would ask. Nil of Services *)
(* is given the value of None.                                             *)
EXTENDS PiService, Services

CONSTANTS
  Parts,   \* the components to check
  a1, a2, c1, c2, e1, e2, k1, k2, k3, m1, p1, p2, p3, q1, q2, s1, s2, u1, x1, x2

VARIABLE part

memoryVars == <<provider, stored, legacy, phase, buffer, stale, log, overlap, writes>>
databaseVars ==
  <<kind, busy, enabled, current, epoch, scopes, catalogue, job, pools,
    query, runtime, closing, tried, crossed, excused, disturbed, late>>
registryVars ==
  <<menu, listed, usable, preferred, version, health, checked, uses,
    demand, overtaken, forgiven>>
publicVars ==
  <<scene, account, quota, bound, serving, keys, shown, rotated, turn,
    minute, counters, stage, presented, window, allowance, intent, audit,
    answer, total, tally, barred, started, passed, changes>>
draftVars == <<contract, built, instance, draft, bindings, frozen, format, work, raced>>
hermesVars == <<life, claim, count, agentTools, served, spoiled>>
tokenVars == <<host, token, shut, step, renewal, carried, alive, crossing, lateCall>>
executionVars ==
  <<at, exec, sess, steps, grant, recorded, remembered, judged, mine, stop, knows, seen, found>>
-----------------------------------------------------------------------------
(* PiService: a stream, its retry without session, and a run of another    *)
(* execution.                                                              *)
MCAsked ==
  [r \in {p1, p2, p3} |->
     [execution |-> IF r = p3 THEN e2 ELSE e1,
      session   |-> IF r = p1 THEN s1 ELSE IF r = p3 THEN s2 ELSE None,
      streams   |-> r = p1]]

(* AgentMemory: what a conversation of the first version may have left.    *)
MCLegacy == <<7, 8, 9>>

(* DatabaseConnections: two administrators, or one and two queries, or a   *)
(* database without pools.                                                 *)
MCDatabases ==
  {[kind |-> "postgresql", admins |-> {a1, a2}, queries |-> {}],
   [kind |-> "postgresql", admins |-> {a1}, queries |-> {q1, q2}],
   [kind |-> "other", admins |-> {a1}, queries |-> {q1}]}

(* ModelRegistry: what two clients may ask for at the same time.           *)
MCMenus ==
  {{"create", "choose", "delete", "bind"}, {"edit", "test", "disable"}, {"test", "enable", "disable"}}

(* PublicCalls: two calls over two minutes, or while their client changes, *)
(* or one call while keys are revoked and rotated.                         *)
Scene(callers, admin, last) == [calls |-> callers, admin |-> admin, last |-> last]
MCScenes ==
  {Scene({c1, c2}, {}, 1), Scene({c1, c2}, {"client"}, 0),
   Scene({c1}, {"client", "binding", "keys", "rotation"}, 0)}

(* CapabilityRegistry: a contract with one implementation and a database   *)
(* with one, bound by default or pinned; the skill names the alias of      *)
(* neither contract alone.                                                 *)
Item(alias, c, pin, scope) == [alias |-> alias, contract |-> c, pin |-> pin, scope |-> scope]

MCServes == <<k1, k2>>
MCOn     == <<1, 1>>
MCBound  == {Item(1, k1, None, None)}
MCOffers == {{Item(1, k1, None, None)}, {Item(1, k1, 1, None)}, {Item(2, k2, 2, 1)}}
MCNeed   == [alias |-> 2, capability |-> {k1}, range |-> {k1, k2}]

(* HermesTools: two runs of a session and one without share an alias with  *)
(* a run that asks for one of Hermes's own, too.                           *)
MCGiven ==
  [r \in {p1, p2, p3, q1} |->
     [session |-> IF r \in {p1, p2} THEN s1 ELSE None,
      tools   |-> CASE r = p1 -> <<x1, x2>> [] r = p3 -> <<x2, u1, x1>> [] OTHER -> <<x1>>]]

-----------------------------------------------------------------------------
(* What a component that is not the part may begin with is of no interest. *)
Pinned ==
  /\ part # "memory"   => provider = "redis" /\ legacy = <<>>
  /\ part # "database" => kind = "other" /\ scopes[s1] = 1
  /\ part # "registry" => menu = (CHOOSE x \in MCMenus : TRUE) /\ \A a \in Agents : uses[a] = None
  /\ part # "public"   => scene = (CHOOSE x \in MCScenes : TRUE) /\ quota = 1
  /\ part # "draft"    => bindings = {} /\ format = 2
  /\ part # "token"    => host = "pi"

MCInit ==
  /\ part \in Parts
  /\ Init /\ Memory!Init /\ Database!Init /\ Registry!Init /\ Public!Init
  /\ Drafts!Init /\ Hermes!Init /\ Tokens!Init /\ Execution!Init
  /\ Pinned

Still(p) ==
  /\ IF p = "pi"         THEN TRUE ELSE UNCHANGED piVars
  /\ IF p = "memory"     THEN TRUE ELSE UNCHANGED memoryVars
  /\ IF p = "database"   THEN TRUE ELSE UNCHANGED databaseVars
  /\ IF p = "registry"   THEN TRUE ELSE UNCHANGED registryVars
  /\ IF p = "public"     THEN TRUE ELSE UNCHANGED publicVars
  /\ IF p = "draft"      THEN TRUE ELSE UNCHANGED draftVars
  /\ IF p = "hermes"     THEN TRUE ELSE UNCHANGED hermesVars
  /\ IF p = "token"      THEN TRUE ELSE UNCHANGED tokenVars
  /\ IF p = "execution"  THEN TRUE ELSE UNCHANGED executionVars

MCNext ==
  /\ UNCHANGED part
  /\ Still(part)
  /\ \/ part = "pi"         /\ Next
     \/ part = "memory"     /\ Memory!Next
     \/ part = "database"   /\ Database!Next
     \/ part = "registry"   /\ Registry!Next
     \/ part = "public"     /\ Public!Next
     \/ part = "draft"      /\ Drafts!Next
     \/ part = "hermes"     /\ Hermes!Next
     \/ part = "token"      /\ Tokens!Next
     \/ part = "execution"  /\ Execution!Next

vars == <<part, piVars, memoryVars, databaseVars, registryVars, publicVars,
          draftVars, hermesVars, tokenVars, executionVars>>

MCSpec == MCInit /\ [][MCNext]_vars
=============================================================================

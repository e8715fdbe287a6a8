------------------------------- MODULE Services -------------------------------
(***************************************************************************)
(* The services around a task that are about one thing each: the memory of *)
(* a session, the clients of the capability gateway, the tools of Hermes,  *)
(* one execution, the calls of API clients, the registry of models, the    *)
(* connections to databases and the capabilities of a draft.               *)
(*                                                                         *)
(* They share no state: what one asks of another is an input or an outcome *)
(* in its module.  Here each has constants and variables of its own, and   *)
(* what is to be shown of it has its name.                                 *)
(***************************************************************************)
EXTENDS Naturals

CONSTANTS
  \* AgentMemory
  Turns, Legacy, MaxTurns, MaxWrites, Providers,
  \* CapabilityClients and PublicCalls: calls of tools, calls of clients
  Calls,
  \* CapabilityClients
  Hosts,
  \* HermesTools
  Runs, HermesSessions, Given, Builtin,
  \* ExecutionRun
  Stops,
  \* PublicCalls
  Streamed, Keys, Rotations, First, Limits, Scenes, MaxMinute, MaxChanges,
  \* ModelRegistry
  Models, Agents, Clients, Configured, Menus, MaxEdits,
  \* DatabaseConnections
  Admins, Queries, Scopes, Worlds, MaxRevision, MaxRotation,
  \* CapabilityRegistry
  DraftRequests, Contracts, DatabaseKinds, Implementations, Serves, On, Offers, Bound, Need,
  Nil   \* None in all of them

VARIABLES
  \* AgentMemory
  provider, stored, legacy, phase, buffer, stale, log, overlap, writes,
  \* CapabilityClients
  host, token, shut, step, renewal, carried, alive, crossing, lateCall,
  \* HermesTools
  life, claim, count, agentTools, served, spoiled,
  \* ExecutionRun
  at, exec, sess, steps, grant, recorded, remembered, judged, mine, stop, knows, seen, found,
  \* PublicCalls
  scene, account, quota, bound, serving, keys, shown, rotated, turn, minute,
  counters, stage, presented, window, allowance, intent, audit, answer, total,
  tally, barred, started, passed, changes,
  \* ModelRegistry
  menu, listed, usable, preferred, version, health, checked, uses, demand,
  overtaken, forgiven,
  \* DatabaseConnections
  kind, busy, enabled, current, epoch, scopes, catalogue, job, pools, query,
  runtime, closing, tried, crossed, excused, disturbed, late,
  \* CapabilityRegistry
  contract, built, instance, draft, bindings, frozen, format, work, raced

-----------------------------------------------------------------------------
Memory    == INSTANCE AgentMemory
Tokens    == INSTANCE CapabilityClients WITH None <- Nil
Hermes    == INSTANCE HermesTools WITH Sessions <- HermesSessions, None <- Nil
Execution == INSTANCE ExecutionRun WITH token <- grant, turn <- remembered, verdict <- judged
Public    == INSTANCE PublicCalls WITH None <- Nil
Registry  == INSTANCE ModelRegistry WITH MaxChanges <- MaxEdits, None <- Nil
Database  == INSTANCE DatabaseConnections WITH None <- Nil
Drafts    == INSTANCE CapabilityRegistry WITH Requests <- DraftRequests, None <- Nil

(* What each assumes of its constants.                                     *)
ASSUME MemoryAssumption   == Memory!MemorySetting
ASSUME TokensAssumption   == Tokens!ClientSetting
ASSUME HermesAssumption   == Hermes!HermesSetting
ASSUME PublicAssumption   == Public!PublicSetting
ASSUME RegistryAssumption == Registry!RegistrySetting
ASSUME DatabaseAssumption == Database!DatabaseSetting
ASSUME DraftsAssumption   == Drafts!DraftSetting

-----------------------------------------------------------------------------
(* Correctness; what these say of the code is said where they are defined. *)

(* What is loaded is the end of what was appended                          *)
(* (memory/store.py:279-310).                                              *)
HistoryIsLog == Memory!HistoryIsLog

(* No call is sent with a token the runtime should have forgotten          *)
(* (platform_capabilities.py:185-248, mcp-tools.mjs:105-198).              *)
NoLateCall == Tokens!NoLateCall

(* An alias is registered as often as runs use it                          *)
(* (platform_capabilities.py:81-147).                                      *)
ToolsCounted == Hermes!ToolsCounted

(* Execution and session have one status (agents.py:1179-1278,             *)
(* executions.py:200-237).                                                 *)
VerdictsAgree == Execution!VerdictsAgree

(* A run that is over leaves nothing running (agents.py:1377-1424).        *)
NothingLeftRunning == Execution!NothingLeftRunning

(* A key lets in whom it should, and rotations leave one active            *)
(* (production.py:122-192, 261-329).                                       *)
KeysExact == Public!KeysExact

(* No more calls pass in a minute than a limit that was read               *)
(* (production.py:1160-1189).                                              *)
RateBound == Public!RateBound

(* The audit says what callers were told (publications.py:559-649).        *)
AuditAgrees == Public!AuditAgrees

(* A health status is about the configuration there is                     *)
(* (repositories/model_registrations.py:176-204).                          *)
HealthCurrent == Registry!HealthCurrent

(* No step takes away the default or a model an Agent names                *)
(* (api/model_registrations.py:82-98, 168-184).                            *)
RegistryComplete == Registry!RegistryComplete

(* What a connection uses was tried as it is used                          *)
(* (api/database_connections.py:108-160, 219-290).                         *)
RegistryCoherent == Database!RegistryCoherent

(* Queries and pools follow the credential and the switch                  *)
(* (postgres-mcp/hermes_postgres_mcp/server.py:478-515).                   *)
PoolsFollow == Database!PoolsFollow

(* What is released is what was resolved (api/console.py:694-721,          *)
(* api/production.py:185-234).                                             *)
ReleaseSound == Drafts!ReleaseSound
=============================================================================

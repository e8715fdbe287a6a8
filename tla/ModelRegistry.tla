--------------------------- MODULE ModelRegistry ---------------------------
(***************************************************************************)
(* The registry of models (backend/app/api/model_registrations.py,         *)
(* repositories/model_registrations.py) and the Agents that name a model   *)
(* (api/agents.py, and unchecked api/console.py and                        *)
(* repositories/production.py).  A request reads what it tests and writes  *)
(* in one transaction later; requests overlap, each changes one thing.     *)
(* The partial unique index keeps defaults apart, the CHECK keeps a        *)
(* default enabled (models.py:880-894).  What a configuration says is a    *)
(* number, keys are left out.                                              *)
(*                                                                         *)
(* Operators whose name ends in "Bug" are variants of the operator that    *)
(* follows them, with a mistake somebody could make in that code.          *)
(***************************************************************************)
EXTENDS Naturals, FiniteSets

CONSTANTS
  Models, Agents, Clients,
  Configured,   \* the model of the settings
  Menus,        \* which operations the clients ask for
  MaxChanges,   \* bound: how often a configuration changes
  None

(* None is not the name of a model, the configured one is one of them, and *)
(* what the clients ask for are operations of the API.                     *)
RegistrySetting ==
  /\ None \notin Models /\ Configured \in Models
  /\ \A offered \in Menus : offered \subseteq
       {"create", "edit", "test", "enable", "disable", "choose", "bind", "delete"}

VARIABLES
  menu,         \* fixed
  listed,       \* the models that are registered
  usable,       \* ... and enabled
  preferred,    \* the default
  version,      \* of the configuration of a model
  health,       \* its status
  checked,      \* history: the version that status is about
  uses,         \* Agent.model
  demand,       \* what a client asks for, and what was read for it
  overtaken,    \* history: the clients another one changed what they read of
  forgiven      \* history: the models that were changed or tested by one of those

modelRows    == <<menu, listed, usable, preferred, version, health, checked>>
registryVars == <<modelRows, uses, demand, overtaken, forgiven>>

Nothing == [op |-> "none", model |-> None]

Init ==
  /\ menu \in Menus
  /\ listed = {} /\ usable = {} /\ preferred = None
  /\ version = [m \in Models |-> 0]
  /\ health = [m \in Models |-> "unknown"] /\ checked = [m \in Models |-> 0]
  /\ uses \in [Agents -> {None, Configured}]    \* from before there was a registry
  /\ demand = [c \in Clients |-> Nothing]
  /\ overtaken = {} /\ forgiven = {}

Referenced(m) == \E a \in Agents : uses[a] = m

-----------------------------------------------------------------------------
(* When the API starts: every model an Agent names is registered, and the  *)
(* configured one, the default if there is none.                           *)
EnsureLegacyModels ==
  LET missing == ({Configured} \cup {uses[a] : a \in Agents}) \ (listed \cup {None})
      default == IF preferred = None THEN Configured ELSE preferred
  IN
  /\ missing # {} \/ preferred = None
  /\ \A c \in Clients : demand[c] = Nothing
  /\ listed' = listed \cup missing
  /\ usable' = usable \cup missing \cup {default}
  /\ preferred' = default
  /\ UNCHANGED <<menu, version, health, checked, uses, demand, overtaken, forgiven>>

-----------------------------------------------------------------------------
(* What is read first.                                                     *)

(* Nobody asks whether it is the default.                                  *)
DeletableBug(m) == ~Referenced(m)

Deletable(m) == m # preferred /\ ~Referenced(m)

Ready(op, m) ==
  CASE op = "create"             -> TRUE
    [] op \in {"edit", "enable", "choose"} -> m \in listed
    [] op = "disable"            -> m \in listed /\ m # preferred
    [] op \in {"test", "bind"}   -> m \in usable
    [] op = "delete"             -> m \in listed /\ Deletable(m)

Read(c, op, m) ==
  /\ demand[c] = Nothing
  /\ Ready(op, m)
  /\ demand' = [demand EXCEPT ![c] =
       [op |-> op, model |-> m, version |-> IF op = "test" THEN version[m] ELSE 0,
        health  |-> IF op \in {"create", "bind", "delete"} THEN "unknown" ELSE health[m],
        enabled |-> op \in {"enable", "disable", "choose"} /\ m \in usable,
        default |-> op = "choose" /\ m = preferred]]
  /\ UNCHANGED <<modelRows, uses, overtaken, forgiven>>

(* Anything may be refused, also by a constraint of the database.          *)
Reject(c) ==
  /\ demand[c] # Nothing
  /\ demand' = [demand EXCEPT ![c] = Nothing]
  /\ overtaken' = overtaken \ {c}
  /\ UNCHANGED <<modelRows, uses, forgiven>>

(* The transaction of c; what others have read of its model is no longer   *)
(* so, nor which model is the default when it may become that.             *)
Commit(c, op) ==
  /\ demand[c].op = op
  /\ UNCHANGED menu
  /\ demand' = [demand EXCEPT ![c] = Nothing]
  /\ overtaken' = (overtaken \ {c}) \cup {d \in Clients \ {c} :
                     \/ /\ demand[d].model = demand[c].model
                        /\ demand[d].op \in {"edit", "test", "delete", "bind", "choose"}
                     \/ demand[d].op = "choose" /\ op \in {"create", "choose"}}

Forgive(c) == forgiven' = IF c \in overtaken THEN forgiven \cup {demand[c].model} ELSE forgiven

-----------------------------------------------------------------------------
(* What is written.                                                        *)

(* create_model, as the default or not.                                    *)
CreateModel(c, default, enabled) ==
  LET m == demand[c].model IN
  /\ Commit(c, "create")
  /\ m \notin listed
  /\ default => enabled
  /\ listed' = listed \cup {m}
  /\ usable' = IF enabled THEN usable \cup {m} ELSE usable
  /\ preferred' = IF default THEN m ELSE preferred
  /\ UNCHANGED <<version, health, checked, uses, forgiven>>

(* The status stays what it was.                                           *)
ResetHealthBug(c) == UNCHANGED health

(* Any change makes the status unknown: written when it was read as known. *)
ResetHealth(c) ==
  health' = [health EXCEPT ![demand[c].model] = IF demand[c].health = "unknown" THEN @ ELSE "unknown"]

(* update_model: another configuration ...                                 *)
UpdateModel(c) ==
  LET m == demand[c].model IN
  /\ Commit(c, "edit")
  /\ m \in listed /\ version[m] < MaxChanges
  /\ version' = [version EXCEPT ![m] = @ + 1]
  /\ ResetHealth(c)
  /\ Forgive(c)
  /\ UNCHANGED <<listed, usable, preferred, checked, uses>>

(* ... or enabled, or disabled, which the CHECK refuses for one that has   *)
(* become the default.                                                     *)
EnableModel(c, enable) ==
  LET m == demand[c].model IN
  /\ Commit(c, IF enable THEN "enable" ELSE "disable")
  /\ m \in listed
  /\ usable' = IF demand[c].enabled = enable THEN usable
                 ELSE IF enable THEN usable \cup {m} ELSE usable \ {m}
  /\ preferred \in usable' \cup {None}
  /\ ResetHealth(c)
  /\ UNCHANGED <<listed, preferred, version, checked, uses, forgiven>>

(* set_default: all rows are set to false and this one to true; enabled is *)
(* only written when it was read as false.                                 *)
SetDefault(c) ==
  LET m == demand[c].model IN
  /\ Commit(c, "choose")
  /\ m \in listed
  /\ m \in usable \/ ~demand[c].enabled
  /\ usable' = usable \cup {m}
  /\ preferred' = m
  /\ UNCHANGED <<listed, version, health, checked, uses, forgiven>>

(* PATCH with is_default: the other rows are set to false, and this one    *)
(* is only written when it was read as false.  Without anything to write   *)
(* it is not missed, either.                                               *)
PatchDefault(c) ==
  LET m    == demand[c].model
      kept == demand[c].default
  IN
  /\ Commit(c, "choose")
  /\ m \in listed \/ (kept /\ demand[c].health = "unknown")
  /\ kept \/ m \in usable \/ ~demand[c].enabled
  /\ usable' = IF kept THEN usable ELSE usable \cup {m}
  /\ preferred' = IF kept /\ preferred # m THEN None ELSE m
  /\ ResetHealth(c)
  /\ UNCHANGED <<listed, version, checked, uses, forgiven>>

(* record_health, after the model has answered: only written when it is    *)
(* not what was read.                                                      *)
RecordHealth(c, status) ==
  LET m == demand[c].model IN
  /\ Commit(c, "test")
  /\ m \in listed
  /\ IF status = demand[c].health
       THEN UNCHANGED <<health, checked>>
       ELSE /\ health' = [health EXCEPT ![m] = status]
            /\ checked' = [checked EXCEPT ![m] = demand[c].version]
  /\ Forgive(c)
  /\ UNCHANGED <<listed, usable, preferred, version, uses>>

(* delete_model, by its id: the default may have become this one.          *)
DeleteModel(c) ==
  LET m == demand[c].model IN
  /\ Commit(c, "delete")
  /\ m \in listed
  /\ listed' = listed \ {m}
  /\ usable' = usable \ {m}
  /\ preferred' = IF preferred = m THEN None ELSE preferred
  /\ health' = [health EXCEPT ![m] = "unknown"] /\ checked' = [checked EXCEPT ![m] = 0]
  /\ forgiven' = forgiven \ {m}
  /\ UNCHANGED <<version, uses>>

(* An Agent is created or configured, after _validate_model_binding.       *)
BindAgent(c, a) ==
  /\ Commit(c, "bind")
  /\ uses' = [uses EXCEPT ![a] = demand[c].model]
  /\ UNCHANGED <<listed, usable, preferred, version, health, checked, forgiven>>

(* The console's editor, or a rollback to a version: the model of a        *)
(* payload or a snapshot is written without a look at the registry.        *)
WriteModel(a, m) ==
  /\ uses[a] # None
  /\ uses' = [uses EXCEPT ![a] = m]
  /\ overtaken' = overtaken \cup {d \in Clients : demand[d].op = "delete" /\ demand[d].model = m}
  /\ UNCHANGED <<modelRows, demand, forgiven>>

DeleteAgent(a) ==
  /\ uses[a] # None
  /\ uses' = [uses EXCEPT ![a] = None]
  /\ UNCHANGED <<modelRows, demand, overtaken, forgiven>>

-----------------------------------------------------------------------------
Write(c) ==
  \/ \E default, enabled \in BOOLEAN : CreateModel(c, default, enabled)
  \/ UpdateModel(c) \/ DeleteModel(c)
  \/ SetDefault(c) \/ PatchDefault(c)
  \/ \E flag \in BOOLEAN : EnableModel(c, flag)
  \/ \E status \in {"online", "offline"} : RecordHealth(c, status)
  \/ \E a \in Agents : BindAgent(c, a)

Next ==
  \/ EnsureLegacyModels
  \/ \E c \in Clients : Write(c) \/ Reject(c)
  \/ \E c \in Clients, m \in Models, op \in menu : Read(c, op, m)
  \/ \E a \in Agents : DeleteAgent(a) \/ \E m \in Models : WriteModel(a, m)

Spec == Init /\ [][Next]_registryVars

-----------------------------------------------------------------------------
(* Correctness.                                                            *)

TypeOK ==
  /\ menu \in Menus
  /\ listed \subseteq Models /\ usable \subseteq listed /\ preferred \in usable \cup {None}
  /\ version \in [Models -> 0..MaxChanges] /\ checked \in [Models -> 0..MaxChanges]
  /\ health \in [Models -> {"unknown", "online", "offline"}]
  /\ uses \in [Agents -> Models \cup {None}]
  /\ DOMAIN demand = Clients
  /\ overtaken \subseteq Clients /\ forgiven \subseteq Models

(* The request that commits in this step was overtaken.                    *)
Excused == \E c \in Clients : c \in overtaken /\ demand'[c] # demand[c]

(* Once there is a default there is one: no request takes it away, unless  *)
(* another changed what it had read before it wrote.  Nor does one leave   *)
(* an Agent with a model that is not registered, be it the Agent's choice  *)
(* or the model's deletion; only what is written unchecked does            *)
(* (api/model_registrations.py:82-98, 168-184, api/agents.py:697-716,      *)
(* api/console.py:399-401, repositories/production.py:1057).               *)
RegistryComplete ==
  [][/\ preferred # None /\ preferred' = None => Excused
     /\ \A a \in Agents : uses'[a] \in Models \ listed' =>
          \/ Excused
          \/ uses'[a] = uses[a] /\ uses[a] \notin listed
          \/ demand' = demand]_registryVars

(* The status is about the configuration there is, unless a test and a     *)
(* change overlapped (repositories/model_registrations.py:176-204).        *)
HealthCurrent ==
  \A m \in Models : health[m] # "unknown" /\ m \notin forgiven => checked[m] = version[m]
=============================================================================

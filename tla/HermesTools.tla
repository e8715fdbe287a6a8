----------------------------- MODULE HermesTools -----------------------------
(***************************************************************************)
(* The tools of runs in the registry of Hermes                             *)
(* (services/hermes-runtime/platform_capabilities.py, installed by         *)
(* patch_api_server.py).  All runs share the registry: an alias is there   *)
(* while its count says a run uses it.  A call names its run and session,  *)
(* the table of bindings says for whom it is made.  Everything is done     *)
(* under one lock; the agents and the server around it are Hermes's own.   *)
(*                                                                         *)
(* Operators whose name ends in "Bug" are variants of the operator that    *)
(* follows them, with a mistake somebody could make in that code.          *)
(***************************************************************************)
EXTENDS Naturals, FiniteSets, Sequences, SequencesExt

CONSTANTS
  Runs, Sessions,
  Given,       \* the session of a run and the aliases of its context, in order
               \*   (a run without any is not registered)
  Builtin,     \* the aliases Hermes has a tool for
  None

(* A run and a session never have the same name, and None is no name.      *)
HermesSetting ==
  /\ IsFiniteSet(Runs) /\ Runs \cap Sessions = {} /\ None \notin Runs \cup Sessions \cup Nat
  /\ \A r \in Runs : Given[r].session \in Sessions \cup {None}

VARIABLES
  life,        \* of a run: "new", "registered", "attached", "refused" or "over"
  claim,       \* _BINDINGS: the run that a run or a session names
  count,        \* _ALIASES: how many runs use an alias, None if no key
  agentTools,  \* agent.tools of a run
  served,      \* the calls: of the run they came from, the run that made them
  spoiled      \* history: aliases a failed registration has discounted for others

toolVars == <<life, claim, count, agentTools, served, spoiled>>

Aliases == UNION {ToSet(Given[r].tools) : r \in Runs}
Registered == {r \in Runs : life[r] \in {"registered", "attached"}}

Init ==
  /\ life = [r \in Runs |-> "new"]
  /\ claim = [k \in Runs \cup Sessions |-> None]
  /\ count = [a \in Aliases |-> None]
  /\ agentTools = [r \in Runs |-> {}]
  /\ served = {} /\ spoiled = {}

(* A session named by none of the clients is the run.                      *)
ClaimKeys(r) == {r, IF Given[r].session = None THEN r ELSE Given[r].session}

Free(r) == \A k \in ClaimKeys(r) : claim[k] = None

(* The aliases before the first one that is Hermes's own.                  *)
Added(r) ==
  {Given[r].tools[i] : i \in {j \in DOMAIN Given[r].tools :
                                \A k \in 1..j : Given[r].tools[k] \notin Builtin}}

Plus(a) == IF count[a] = None THEN 1 ELSE count[a] + 1

-----------------------------------------------------------------------------

RefuseIdentity(r) ==
  /\ life[r] = "new"
  /\ ~Free(r)
  /\ life' = [life EXCEPT ![r] = "refused"]
  /\ UNCHANGED <<claim, count, agentTools, served, spoiled>>

RegisterRun(r) ==
  LET tools == ToSet(Given[r].tools) IN
  /\ life[r] = "new"
  /\ Free(r)
  /\ Added(r) = tools
  /\ life' = [life EXCEPT ![r] = "registered"]
  /\ claim' = [k \in DOMAIN claim |-> IF k \in ClaimKeys(r) THEN r ELSE claim[k]]
  /\ count' = [a \in Aliases |-> IF a \in tools THEN Plus(a) ELSE count[a]]
  /\ UNCHANGED <<agentTools, served, spoiled>>

(* An alias of Hermes's own: every alias of the context is discounted,     *)
(* also those that had not been counted yet.                               *)
RegisterFails(r) ==
  LET tools == ToSet(Given[r].tools)
      added == Added(r)
      late  == {a \in tools \ added : count[a] # None /\ count[a] > 0}
  IN
  /\ life[r] = "new"
  /\ Free(r)
  /\ added # tools
  /\ life' = [life EXCEPT ![r] = "refused"]
  /\ count' = [a \in Aliases |-> IF a \in late THEN count[a] - 1 ELSE count[a]]
  /\ spoiled' = spoiled \cup late
  /\ UNCHANGED <<claim, agentTools, served>>

(* attach_run_tools, when the agent has no tool of such a name.            *)
AttachRunTools(r) ==
  /\ life[r] = "registered"
  /\ life' = [life EXCEPT ![r] = "attached"]
  /\ agentTools' = [agentTools EXCEPT ![r] = ToSet(Given[r].tools)]
  /\ UNCHANGED <<claim, count, served, spoiled>>

(* The registry forgets the alias with the first run that ends.            *)
DiscountBug(a) == None

Discount(a) ==
  IF count[a] = None \/ count[a] <= 1 THEN None ELSE count[a] - 1

UnregisterRun(r) ==
  /\ life[r] \in {"registered", "attached"}
  /\ life' = [life EXCEPT ![r] = "over"]
  /\ claim' = [k \in DOMAIN claim |-> IF claim[k] = r THEN None ELSE claim[k]]
  /\ count' = [a \in Aliases |->
       IF a \in ToSet(Given[r].tools) THEN Discount(a) ELSE count[a]]
  /\ UNCHANGED <<agentTools, served, spoiled>>

(* The run a call is made for: the one it names, else that of its session. *)
BindingOf(r) ==
  IF claim[r] # None \/ Given[r].session = None THEN claim[r] ELSE claim[Given[r].session]

(* A thread of an agent calls a tool of its, whether or not its run ended. *)
Invoke(r, a) ==
  /\ a \in agentTools[r]
  /\ count[a] # None
  /\ BindingOf(r) # None
  /\ a \in ToSet(Given[BindingOf(r)].tools)
  /\ served' = served \cup {<<r, BindingOf(r), a>>}
  /\ UNCHANGED <<life, claim, count, agentTools, spoiled>>

Next ==
  \E r \in Runs :
    \/ RefuseIdentity(r) \/ RegisterRun(r) \/ RegisterFails(r)
    \/ AttachRunTools(r) \/ UnregisterRun(r)
    \/ \E a \in Aliases : Invoke(r, a)

Spec == Init /\ [][Next]_toolVars

-----------------------------------------------------------------------------

(* An alias is in the registry as long as a registered run has it in its   *)
(* context and no longer, whatever other runs register, fail to register   *)
(* or leave meanwhile - except an alias that a failed registration has     *)
(* discounted for another run; a session leads to a run that is            *)
(* registered; and no call is made for a run of another session.           *)
ToolsCounted ==
  /\ \A a \in Aliases \ spoiled :
       LET users == {r \in Registered : a \in ToSet(Given[r].tools)} IN
       count[a] = IF users = {} THEN None ELSE Cardinality(users)
  /\ \A k \in DOMAIN claim : claim[k] # None => claim[k] \in Registered /\ k \in ClaimKeys(claim[k])
  /\ \A s \in served : s[1] = s[2] \/ Given[s[1]].session = Given[s[2]].session
=============================================================================

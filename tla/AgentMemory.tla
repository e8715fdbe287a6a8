----------------------------- MODULE AgentMemory -----------------------------
(***************************************************************************)
(* The memory of one session of an Agent (backend/app/memory/store.py):    *)
(* the history of its turns, a list that append_turn reads, extends, cuts  *)
(* and writes back, in Redis or in PostgreSQL.  Executions append their    *)
(* turn (api/agents.py), the memory API (api/memory.py) and the archiving  *)
(* of the Agent clear the list, and it expires.                            *)
(*                                                                         *)
(* A step is one command to Redis or one transaction.  A turn stands for   *)
(* its two messages, so that MaxTurns is agent_memory_max_turns; an        *)
(* execution that is tried again appends the same turn again.  The vectors *)
(* of the third provider are written with the row and read by nobody.      *)
(*                                                                         *)
(* Operators whose name ends in "Bug" are variants of the operator that    *)
(* follows them, with a mistake somebody could make in that code.          *)
(***************************************************************************)
EXTENDS Naturals, Sequences, FiniteSets

CONSTANTS
  Turns,      \* the executions of the session, numbers from 1
  Legacy,     \* the list left behind under the keys of the first version
  MaxTurns,
  MaxWrites,  \* bound: how many lists are written
  Providers   \* subset of {"redis", "postgres"}

(* agent_memory_max_turns is at least 1 (config.py:55); 0 is no turn.      *)
MemorySetting ==
  /\ Turns \subseteq Nat \ {0} /\ Legacy \in Seq(Nat)
  /\ MaxTurns \in Nat \ {0} /\ MaxWrites \in Nat

VARIABLES
  provider,   \* which one is configured
  stored,     \* the list, <<>> when there is none or it is expired
  legacy,     \* the list of the first version, in Redis alone
  phase,      \* per turn: what load or append_turn does
  buffer,     \* the list it has read
  stale,      \* history: the turns whose list somebody has changed since
  log,        \* history: what was appended since the list was new
  overlap,    \* history: a list was written that was changed since it was read
  writes

memoryVars == <<provider, stored, legacy, phase, buffer, stale, log, overlap, writes>>

Init ==
  /\ provider \in Providers
  /\ stored = <<>>
  /\ legacy \in IF provider = "redis" THEN {<<>>, Legacy} ELSE {<<>>}
  /\ phase = [t \in Turns |-> "idle"]
  /\ buffer = [t \in Turns |-> <<>>]
  /\ stale = {} /\ overlap = FALSE
  /\ log = <<>>
  /\ writes = 0

(* The first messages are kept, not the last.                              *)
LastBug(list) == SubSeq(list, 1, IF Len(list) < MaxTurns THEN Len(list) ELSE MaxTurns)

(* value[-max_messages:]                                                   *)
Last(list) == SubSeq(list, IF Len(list) > MaxTurns THEN Len(list) - MaxTurns + 1 ELSE 1, Len(list))

Busy == {t \in Turns : phase[t] \in {"read", "migrating"}}

Move(t, from, to) == phase[t] \in from /\ phase' = [phase EXCEPT ![t] = to]

Forget(t) == buffer' = [buffer EXCEPT ![t] = <<>>]

(* A command that writes the list, by turn t or by somebody else.          *)
Write(t, list) ==
  /\ writes < MaxWrites
  /\ writes' = writes + 1
  /\ stored' = list
  /\ stale' = (stale \cup Busy) \ {t}
  /\ overlap' = (overlap \/ t \in stale)

-----------------------------------------------------------------------------
(* get.  Redis falls back to the first version's list ...                  *)
Migrates == provider = "redis" /\ stored = <<>> /\ legacy # <<>>

Get(t) ==
  /\ Move(t, {"idle", "failed"}, IF Migrates THEN "migrating" ELSE "read")
  /\ buffer' = [buffer EXCEPT ![t] = IF Migrates THEN legacy ELSE stored]
  /\ stale' = stale \ {t}
  /\ UNCHANGED <<provider, stored, legacy, log, overlap, writes>>

(* ... and writes that under the new key, as long as it is.                *)
SetMigrated(t) ==
  /\ Move(t, {"migrating"}, "read")
  /\ Write(t, buffer[t])
  /\ log' = buffer[t]
  /\ UNCHANGED <<provider, legacy, buffer>>

(* set: the whole list, with a new time to live.  A command that fails may *)
(* have been carried out; the execution fails then and may be tried again. *)
Set(t) ==
  /\ \E outcome \in {"done", "failed"} : Move(t, {"read"}, outcome)
  /\ Write(t, Last(Append(buffer[t], t)))
  /\ log' = Append(log, t)
  /\ Forget(t)
  /\ UNCHANGED <<provider, legacy>>

(* The command is not carried out, or load is over.                        *)
GiveUp(t) ==
  /\ Move(t, {"read", "migrating"}, "failed")
  /\ Forget(t)
  /\ UNCHANGED <<provider, stored, legacy, stale, log, overlap, writes>>

-----------------------------------------------------------------------------
(* What an execution is given of it.                                       *)
Load == Last(stored)

(* What others do to the list; nobody waits for those who have read it.    *)
Change(list, old) ==
  /\ Write(0, list)
  /\ log' = list
  /\ legacy' = old
  /\ UNCHANGED <<provider, phase, buffer>>

(* delete of the memory API knows the new key only, as does the time to    *)
(* live; clear, when the Agent is archived, removes both lists.            *)
Delete == stored # <<>> /\ Change(<<>>, legacy)
Clear  == stored # <<>> /\ Change(<<>>, <<>>)

(* PUT of the memory API: any list of messages, as long as it may be.      *)
Put == \E t \in Turns : Change(<<t>>, legacy)

-----------------------------------------------------------------------------
Next ==
  \/ \E t \in Turns : Get(t) \/ SetMigrated(t) \/ Set(t) \/ GiveUp(t)
  \/ Delete \/ Clear \/ Put

Spec == Init /\ [][Next]_memoryVars

-----------------------------------------------------------------------------
(* Correctness.                                                            *)

(* load returns the last MaxTurns turns in the order in which they were    *)
(* appended since the memory was new, unless an append overlapped another  *)
(* write of the list: nothing else is lost, moved, repeated or comes back  *)
(* (store.py:279-310).                                                     *)
HistoryIsLog ==
  \/ overlap
  \/ /\ Len(Load) = IF Len(log) < MaxTurns THEN Len(log) ELSE MaxTurns
     /\ \A i \in 1..Len(Load) : Load[i] = log[Len(log) - Len(Load) + i]
=============================================================================

----------------------------- MODULE QuotaGate -----------------------------
(***************************************************************************)
(* What the quotas on concurrency of the capability gateway promise: a     *)
(* call enters only while there is room under the limit of everything it   *)
(* uses, and leaves once it is over.                                       *)
(***************************************************************************)
EXTENDS Naturals, FiniteSets

CONSTANTS
  Calls,
  Uses,    \* the bindings and connectors a call uses, a function on Calls
  Limit    \* how many calls may use one of them, a function on them

VARIABLE inside

Users(k) == {c \in inside : k \in Uses[c]}

Init == inside = {}

Enter(c) ==
  /\ c \notin inside
  /\ \A k \in Uses[c] : Cardinality(Users(k)) < Limit[k]
  /\ inside' = inside \cup {c}

Leave(c) ==
  /\ c \in inside
  /\ inside' = inside \ {c}

Next == \E c \in Calls : Enter(c) \/ Leave(c)

Spec == Init /\ [][Next]_inside
=============================================================================

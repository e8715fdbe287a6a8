------------------------ MODULE MCCapabilityGateway ------------------------
(* CapabilityGateway on a small instance: three calls of one execution     *)
(* through one binding, which allows it two; two of them share a connector.*)
EXTENDS CapabilityGateway

CONSTANTS c1, c2, c3, b1, k1, k2, e

MCBindingOf    == [c \in Calls |-> b1]
MCConnectorOf  == [c \in Calls |-> IF c = c1 THEN k1 ELSE k2]
MCExecutionOf  == [c \in Calls |-> e]
MCConcurrency  == [k \in Keys |-> IF k = b1 THEN 2 ELSE 1]
MCPerMinute    == [k \in Keys |-> IF k = k2 THEN 1 ELSE 2]
MCPerExecution == [b \in Bindings |-> 2]
MCRetries      == [c \in Calls |-> IF c = c1 THEN 1 ELSE 0]
=============================================================================

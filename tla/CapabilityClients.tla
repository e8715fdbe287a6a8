-------------------------- MODULE CapabilityClients --------------------------
(***************************************************************************)
(* How the runtime of an execution uses its Capability Token: DeepSeek's   *)
(* dispatcher (deepseek_runtime_service/capability_dispatcher.py), Pi's    *)
(* tools (pi-runtime/src/mcp-tools.mjs) and the binding of a Hermes run    *)
(* (hermes-runtime/platform_capabilities.py).  Each presents the token     *)
(* with every call, renews it when two minutes are left, by itself or      *)
(* before a call, and drops it when the run ends.  A token is its age.     *)
(* The agents that make the calls, one at a time, are libraries.           *)
(*                                                                         *)
(* Operators whose name ends in "Bug" are variants of the operator that    *)
(* follows them, with a mistake somebody could make in that code.          *)
(***************************************************************************)
CONSTANTS
  Calls,       \* the tool calls of the agent
  Hosts,       \* the runtimes to look at: "deepseek", "pi", "hermes"
  None

(* No token is not a token.                                                *)
ClientSetting == None \notin {"fresh", "due", "expired"}

VARIABLES
  host,        \* fixed
  token,       \* as the runtime holds it: "fresh", "due", "expired", None
  shut,        \* the client was closed, the run unregistered
  step,        \* of a call
  renewal,     \* the renewal under way: who asked, with which token; or None
  carried,     \* the token a call was sent with
  alive,       \* the execution is "running" and its token not revoked
  crossing,    \* history: what was under way when the client was closed, that
               \*   may bring a token: a "renewal", a "call", or "nothing"
  lateCall     \* history: a call was sent with a token after that

clientVars == <<host, token, shut, step, renewal, carried, alive, crossing, lateCall>>

Valid(t) == t \in {"fresh", "due"}
Waiting == {c \in Calls : step[c] = "waiting"}
Calling == {c \in Calls : step[c] \in {"begun", "waiting", "ready", "sent"}}

(* issue_execution_capability_token *)
Init ==
  /\ host \in Hosts
  /\ token = "fresh" /\ shut = FALSE
  /\ step = [c \in Calls |-> "idle"]
  /\ renewal = None /\ carried = [c \in Calls |-> None] /\ alive = TRUE
  /\ crossing = "nothing" /\ lateCall = FALSE

Age ==
  /\ Valid(token)
  /\ token' = IF token = "fresh" THEN "due" ELSE "expired"
  /\ UNCHANGED <<host, shut, step, renewal, carried, alive, crossing, lateCall>>

(* The platform ends the execution, or revokes its token: the same jti in  *)
(* every renewal.                                                          *)
EndExecution ==
  /\ alive /\ alive' = FALSE
  /\ UNCHANGED <<host, token, shut, step, renewal, carried, crossing, lateCall>>

-----------------------------------------------------------------------------
(* A call of a tool.                                                       *)

(* Hermes calls and renews under one lock, the others call one at a time.  *)
Begin(c) ==
  /\ step[c] = "idle" /\ ~shut
  /\ Calling = {}
  /\ host = "hermes" => renewal = None
  /\ step' = [step EXCEPT ![c] = "begun"]
  /\ UNCHANGED <<host, token, shut, renewal, carried, alive, crossing, lateCall>>

NeedNotRenew(c) ==
  /\ step[c] = "begun"
  /\ token = "fresh"
  /\ step' = [step EXCEPT ![c] = "ready"]
  /\ UNCHANGED <<host, token, shut, renewal, carried, alive, crossing, lateCall>>

(* Pi's client is closed: it goes on with a token that is good.            *)
ClosedMeanwhile(c) ==
  /\ host = "pi" /\ shut
  /\ step[c] = "begun"
  /\ step' = [step EXCEPT ![c] = IF Valid(token) THEN "ready" ELSE "over"]
  /\ UNCHANGED <<host, token, shut, renewal, carried, alive, crossing, lateCall>>

(* Another one is renewing it: Pi shares the promise, DeepSeek the lock.   *)
Join(c) ==
  /\ step[c] = "begun"
  /\ host = "pi" => ~shut
  /\ token # "fresh" /\ renewal # None
  /\ step' = [step EXCEPT ![c] = "waiting"]
  /\ UNCHANGED <<host, token, shut, renewal, carried, alive, crossing, lateCall>>

(* The gateway looks at the execution, and what it revoked, before it      *)
(* works: after that the answer no longer depends on them.                 *)
Presented == IF alive THEN token ELSE None

Ask(who) == renewal' = [by |-> who, with |-> Presented]

RenewFirst(c) ==
  /\ step[c] = "begun"
  /\ host = "pi" => ~shut
  /\ token # "fresh" /\ renewal = None
  /\ Ask(c)
  /\ step' = [step EXCEPT ![c] = "waiting"]
  /\ UNCHANGED <<host, token, shut, carried, alive, crossing, lateCall>>

(* With whatever token the client holds now.                               *)
Send(c) ==
  /\ step[c] = "ready"
  /\ step' = [step EXCEPT ![c] = "sent"]
  /\ carried' = [carried EXCEPT ![c] = Presented]
  /\ lateCall' = (lateCall \/ (shut /\ token # None))
  /\ UNCHANGED <<host, token, shut, renewal, alive, crossing>>

(* The gateway renews the token that was presented, when it has less than  *)
(* two minutes left by then, whatever the client holds now; the client     *)
(* stores it without a look at whether it is closed.                       *)
Reply(c) ==
  /\ step[c] = "sent"
  /\ step' = [step EXCEPT ![c] = "over"]
  /\ \/ UNCHANGED token
     \/ Valid(carried[c]) /\ token' = "fresh"
  /\ UNCHANGED <<host, shut, renewal, carried, alive, crossing, lateCall>>

(* The agent is aborted, or the request fails.                             *)
GiveUp(c) ==
  /\ step[c] \in {"waiting", "sent"}
  /\ host = "pi" \/ step[c] = "sent"
  /\ step' = [step EXCEPT ![c] = "over"]
  /\ UNCHANGED <<host, token, shut, renewal, carried, alive, crossing, lateCall>>

-----------------------------------------------------------------------------
(* Renewals.                                                               *)

(* Every 30 seconds.                                                       *)
RenewLoop ==
  /\ ~shut
  /\ token # "fresh" /\ renewal = None
  /\ host = "hermes" => Calling = {}
  /\ Ask("loop")
  /\ UNCHANGED <<host, token, shut, step, carried, alive, crossing, lateCall>>

(* Who waited goes on; DeepSeek looks at the token again under the lock.   *)
AfterRenewal(c, renewed) ==
  IF c \notin Waiting THEN step[c]
  ELSE IF renewed THEN IF host = "deepseek" /\ renewal.by # c THEN "begun" ELSE "ready"
  ELSE IF host = "pi" THEN IF Valid(token) THEN "ready" ELSE "over"
  ELSE IF renewal.by # c THEN "begun" ELSE "over"

Renewed ==
  /\ renewal # None
  /\ Valid(renewal.with)
  /\ token' = "fresh"
  /\ step' = [c \in Calls |-> AfterRenewal(c, TRUE)]
  /\ renewal' = None
  /\ UNCHANGED <<host, shut, carried, alive, crossing, lateCall>>

(* With 120 seconds left to the second: the client asks, the gateway does  *)
(* not renew.                                                              *)
NotRenewed ==
  /\ renewal # None
  /\ Valid(renewal.with)
  /\ step' = [c \in Calls |-> AfterRenewal(c, TRUE)]
  /\ renewal' = None
  /\ UNCHANGED <<host, token, shut, carried, alive, crossing, lateCall>>

RenewalFails ==
  /\ renewal # None
  /\ step' = [c \in Calls |-> AfterRenewal(c, FALSE)]
  /\ renewal' = None
  /\ UNCHANGED <<host, token, shut, carried, alive, crossing, lateCall>>

-----------------------------------------------------------------------------
(* The end of the run.                                                     *)

(* The token is kept.                                                      *)
DroppedBug == token

Dropped == None

(* DeepSeek cancels what is under way, the others let it end.              *)
Close ==
  /\ ~shut /\ shut' = TRUE
  /\ token' = Dropped
  /\ step' = [c \in Calls |-> IF host = "deepseek" /\ c \in Calling THEN "over" ELSE step[c]]
  /\ renewal' = IF host = "deepseek" THEN None ELSE renewal
  /\ crossing' = IF host = "deepseek" THEN "nothing"
                    ELSE IF renewal # None THEN "renewal"
                    ELSE IF \E c \in Calls : step[c] = "sent" THEN "call" ELSE "nothing"
  /\ UNCHANGED <<host, carried, alive, lateCall>>

Call(c) ==
  \/ Begin(c) \/ NeedNotRenew(c) \/ ClosedMeanwhile(c) \/ Join(c)
  \/ RenewFirst(c) \/ Send(c) \/ Reply(c) \/ GiveUp(c)

Next ==
  \/ \E c \in Calls : Call(c)
  \/ RenewLoop \/ Renewed \/ NotRenewed \/ RenewalFails
  \/ Close \/ Age \/ EndExecution

Spec == Init /\ [][Next]_clientVars

-----------------------------------------------------------------------------
(* When a run is over no call of its tools is sent with its token any      *)
(* more, by DeepSeek never, by the others only when a renewal was under    *)
(* way in that moment: what it brings is kept although the client was      *)
(* closed. So is what the answer to a call brings that was under way, but  *)
(* nothing is sent with it. A token that neither was to bring back stays   *)
(* dropped (capability_dispatcher.py:80-97, mcp-tools.mjs:134-136,         *)
(* 177-179, 190-198, platform_capabilities.py:185-248).                    *)
NoLateCall ==
  /\ lateCall => crossing = "renewal"
  /\ shut /\ crossing = "nothing" => token = None
  /\ host = "deepseek" => crossing = "nothing"
=============================================================================

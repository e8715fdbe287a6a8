---------------------------- MODULE ModelGateway ----------------------------
(***************************************************************************)
(* The model gateway (backend/app/model_gateway.py): a call is resolved to *)
(* a model, waits for one of model_max_concurrency permits, is sent to the *)
(* provider, again if it must, or opened as a stream that is relayed to    *)
(* the caller, and gives its permit back.                                  *)
(*                                                                         *)
(* A step is what happens between two awaits of the one asyncio process.   *)
(* The contents of requests and answers are left out.  Operators whose     *)
(* name ends in "Bug" are variants of the operator that follows them, with *)
(* a mistake somebody could make in that code.                             *)
(***************************************************************************)
EXTENDS Naturals, FiniteSets

CONSTANTS
  Calls,
  Streams,     \* the calls that ask for a stream
  MaxCalls,    \* model_max_concurrency
  MaxRetries   \* max_retries of the models

ASSUME PermitAssumption == IsFiniteSet(Calls) /\ MaxCalls \in Nat

VARIABLES
  at,          \* where a call is
  permits,     \* the calls that hold a permit
  capacity,    \* the counter of the semaphore
  active,      \* app.state.model_active
  tries,       \* how often a call was sent
  open,        \* the calls with a request under way or a stream open upstream
  broken       \* history: the calls that ended on a path without a release

modelVars == <<at, permits, capacity, active, tries, open, broken>>

ModelInit ==
  /\ at = [c \in Calls |-> "new"]
  /\ permits = {} /\ open = {} /\ broken = {}
  /\ capacity = MaxCalls
  /\ active = 0
  /\ tries = [c \in Calls |-> 0]

Move(c, from, to) == at[c] = from /\ at' = [at EXCEPT ![c] = to]

-----------------------------------------------------------------------------
(* _resolve_model: a registered model that is enabled, or the configured   *)
(* one; else the call is refused.                                          *)
Resolve(c) ==
  /\ Move(c, "new", "queued") \/ Move(c, "new", "done")
  /\ UNCHANGED <<permits, capacity, active, tries, open, broken>>

Acquire(c) ==
  /\ Move(c, "queued", IF c \in Streams THEN "opening" ELSE "sending")
  /\ capacity > 0
  /\ capacity' = capacity - 1
  /\ permits' = permits \cup {c}
  /\ active' = active + 1
  /\ UNCHANGED <<tries, open, broken>>

GiveUp(c) ==
  /\ Move(c, "queued", "done")
  /\ UNCHANGED <<permits, capacity, active, tries, open, broken>>

GiveBack(c) ==
  /\ permits' = permits \ {c}
  /\ active' = IF active > 0 THEN active - 1 ELSE 0
  /\ capacity' = capacity + 1

Hold == UNCHANGED <<permits, capacity, active>>

-----------------------------------------------------------------------------
(* A call that is answered at once: _send_with_retry.                      *)

Send(c) ==
  /\ Move(c, "sending", "sent")
  /\ tries' = [tries EXCEPT ![c] = @ + 1]
  /\ open' = open \cup {c}
  /\ Hold /\ UNCHANGED broken

(* 429, 502, 503 and 504 are tried again after a pause; the permit is kept.*)
Transient(c) ==
  /\ tries[c] <= MaxRetries
  /\ Move(c, "sent", "pausing")
  /\ open' = open \ {c}
  /\ Hold /\ UNCHANGED <<tries, broken>>

Resume(c) ==
  /\ Move(c, "pausing", "sending")
  /\ Hold /\ UNCHANGED <<tries, open, broken>>

(* The handlers of errors give the permit back, and the finally again.     *)
AnswerBug(c) ==
  /\ Move(c, "sent", "done")
  /\ open' = open \ {c} /\ permits' = permits \ {c}
  /\ active' = active - 1
  /\ \E n \in {1, 2} : capacity' = capacity + n
  /\ UNCHANGED <<tries, broken>>

(* Any other answer, a timeout or an error: the permit goes back in a      *)
(* finally.                                                                *)
Answer(c) ==
  /\ Move(c, "sent", "done")
  /\ open' = open \ {c}
  /\ GiveBack(c)
  /\ UNCHANGED <<tries, broken>>

-----------------------------------------------------------------------------
(* A stream.                                                               *)

(* The permit goes back when the stream is open.                           *)
OpenStreamBug(c) ==
  /\ Move(c, "opening", "failing") \/ Move(c, "opening", "ready")
  /\ open' = open \cup {c}
  /\ tries' = [tries EXCEPT ![c] = @ + 1]
  /\ GiveBack(c) /\ UNCHANGED broken

OpenStream(c) ==
  /\ Move(c, "opening", "failing") \/ Move(c, "opening", "ready")
  /\ open' = open \cup {c}
  /\ tries' = [tries EXCEPT ![c] = @ + 1]
  /\ Hold /\ UNCHANGED broken

(* The handlers of timeouts and HTTP errors forget the permit.             *)
OpenFailsBug(c) ==
  /\ Move(c, "opening", "done")
  /\ Hold /\ UNCHANGED <<tries, open, broken>>

OpenFails(c) ==
  /\ Move(c, "opening", "done")
  /\ GiveBack(c)
  /\ UNCHANGED <<tries, open, broken>>

(* The request cannot be built, or sending it raises what is no HTTP error.*)
OpenBreaks(c) ==
  /\ Move(c, "opening", "done")
  /\ broken' = broken \cup {c}
  /\ Hold /\ UNCHANGED <<tries, open>>

(* The answer is an error: its body is read, which may itself fail.        *)
ReadError(c) ==
  /\ Move(c, "failing", "done")
  /\ open' = open \ {c}
  /\ GiveBack(c)
  /\ UNCHANGED <<tries, broken>>

ReadBreaks(c) ==
  /\ Move(c, "failing", "done")
  /\ broken' = broken \cup {c}
  /\ Hold /\ UNCHANGED <<tries, open>>

(* The caller gets the response, and the relay starts, unless the caller   *)
(* has gone: a generator that never started has no finally.                *)
StartRelay(c) ==
  /\ Move(c, "ready", "relaying")
  /\ Hold /\ UNCHANGED <<tries, open, broken>>

NeverRelayed(c) ==
  /\ Move(c, "ready", "done")
  /\ broken' = broken \cup {c}
  /\ Hold /\ UNCHANGED <<tries, open>>

(* The stream or its caller ends.                                          *)
EndRelay(c) ==
  /\ Move(c, "relaying", "done")
  /\ open' = open \ {c}
  /\ GiveBack(c)
  /\ UNCHANGED <<tries, broken>>

-----------------------------------------------------------------------------
EnterCall(c) == Resolve(c) \/ Acquire(c) \/ GiveUp(c)
Post(c)      == Send(c) \/ Transient(c) \/ Resume(c) \/ Answer(c)
Stream(c)    == OpenStream(c) \/ OpenFails(c) \/ OpenBreaks(c) \/ ReadError(c) \/ ReadBreaks(c)
               \/ StartRelay(c) \/ NeverRelayed(c)

ModelNext == \E c \in Calls : EnterCall(c) \/ Post(c) \/ Stream(c) \/ EndRelay(c)

ModelSpec == ModelInit /\ [][ModelNext]_modelVars

(* Timeouts bound every wait but that for the end of a stream.             *)
ModelObliged(c) == EnterCall(c) \/ Post(c) \/ Stream(c)

-----------------------------------------------------------------------------
(* Correctness.                                                            *)

ModelTypeOK ==
  /\ at \in [Calls -> {"new", "queued", "sending", "sent", "pausing", "opening",
                       "failing", "ready", "relaying", "done"}]
  /\ permits \subseteq Calls /\ open \subseteq Calls /\ broken \subseteq Calls
  /\ capacity \in Nat /\ active \in Nat
  /\ tries \in [Calls -> Nat]

(* The permits and both counters agree, and a call that is over has given  *)
(* its permit back, once, unless it ended on one of the paths without a    *)
(* release (model_gateway.py:197, 215-216, 225-230).                       *)
PermitsAccounted ==
  /\ active = Cardinality(permits) /\ capacity + active = MaxCalls
  /\ \A c \in permits : at[c] = "done" => c \in broken

(* A permit is held for a bounded number of attempts; only a stream that   *)
(* is being relayed may keep it for ever (_send_with_retry).               *)
PermitReturns ==
  \A c \in Calls : c \in permits ~> c \notin permits \/ c \in broken \/ at[c] = "relaying"

Gate == INSTANCE QuotaGate WITH
          Uses <- [c \in Calls |-> {"capacity"}], Limit <- [k \in {"capacity"} |-> MaxCalls],
          inside <- open

(* The requests and streams that are open at the providers come and go as  *)
(* QuotaGate says: never more than model_max_concurrency.                  *)
ImplementsGate == Gate!Spec
=============================================================================

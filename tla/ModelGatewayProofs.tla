------------------------- MODULE ModelGatewayProofs -------------------------
(***************************************************************************)
(* Proofs about ModelGateway, for any number of calls and of permits.      *)
(***************************************************************************)
EXTENDS ModelGateway, FiniteSetTheorems, TLAPS

(* Where a call has a permit, and where it has a request or a stream open. *)
Permitted == {"sending", "sent", "pausing", "opening", "failing", "ready", "relaying"}
Connected == {"sent", "failing", "ready", "relaying"}

(* Who holds a permit and who is connected follows from where a call is,   *)
(* unless it ended on a path without a release.                            *)
Places ==
  \A c \in Calls :
    /\ at[c] \in Permitted => c \in permits
    /\ c \in permits => at[c] \in Permitted \/ (at[c] = "done" /\ c \in broken)
    /\ c \in open => c \in permits
    /\ at[c] \in Permitted => (c \in open <=> at[c] \in Connected)

Counted == active = Cardinality(permits) /\ capacity + active = MaxCalls

Inv == ModelTypeOK /\ Places /\ Counted

(* A step of QuotaGate, or none.                                           *)
GateStep == Gate!Next \/ open' = open

-----------------------------------------------------------------------------
(* Permits are finitely many, so that one more or less changes the count   *)
(* by one.                                                                 *)
LEMMA PermitsFinite ==
  ASSUME ModelTypeOK
  PROVE  /\ IsFiniteSet(permits) /\ Cardinality(permits) \in Nat
         /\ \A c \in permits : Cardinality(permits \ {c}) = Cardinality(permits) - 1
         /\ \A c : c \notin permits => Cardinality(permits \cup {c}) = Cardinality(permits) + 1
<1>1. IsFiniteSet(permits)
  BY PermitAssumption, FS_Subset DEF ModelTypeOK
<1> QED BY <1>1, FS_CardinalityType, FS_RemoveElement, FS_AddElement

(* _release_capacity takes back the permit of a call that holds one.       *)
LEMMA GiveBackCounts ==
  ASSUME ModelTypeOK, Counted, NEW c \in permits, GiveBack(c)
  PROVE  Counted' /\ active' \in Nat /\ capacity' \in Nat
<1>1. active > 0 /\ active \in Nat
  <2>1. Cardinality(permits \ {c}) \in Nat
    BY PermitsFinite, FS_RemoveElement, FS_CardinalityType
  <2> QED BY <2>1, PermitsFinite DEF Counted, ModelTypeOK
<1>2. active' = active - 1 /\ capacity' = capacity + 1
  BY <1>1 DEF GiveBack
<1>3. Cardinality(permits') = Cardinality(permits) - 1
  BY PermitsFinite DEF GiveBack
<1> QED BY <1>1, <1>2, <1>3, PermitAssumption DEF Counted, ModelTypeOK

(* The call that opens a request holds a permit and has nothing open, so   *)
(* that there is room for it: fewer are open than are permitted.           *)
LEMMA RoomToOpen ==
  ASSUME Inv, NEW c \in Calls, at[c] \in Permitted \ Connected, open' = open \cup {c}
  PROVE  Gate!Next
<1>1. c \in permits /\ c \notin open /\ open \subseteq permits \ {c}
  BY DEF Inv, Places, ModelTypeOK
<1>2. Cardinality(open) <= Cardinality(permits \ {c})
  BY <1>1, PermitsFinite, FS_RemoveElement, FS_Subset DEF Inv
<1>3. IsFiniteSet(open) /\ Cardinality(open) \in Nat
  BY PermitAssumption, FS_Subset, FS_CardinalityType DEF Inv, ModelTypeOK
<1>4. Cardinality(open) < MaxCalls
  BY <1>1, <1>2, <1>3, PermitsFinite, PermitAssumption DEF Inv, Counted, ModelTypeOK
<1>5. Gate!Users("capacity") = open
  BY DEF Gate!Users, Inv, ModelTypeOK
<1>6. \A S : Gate!Cardinality(S) = Cardinality(S)
  BY DEF Gate!Cardinality, Cardinality
<1>7. Gate!Enter(c)
  BY <1>1, <1>4, <1>5, <1>6 DEF Gate!Enter
<1> QED BY <1>7 DEF Gate!Next

(* A request that is over leaves.                                          *)
LEMMA CloseLeaves ==
  ASSUME NEW c \in Calls, c \in open, open' = open \ {c}
  PROVE  Gate!Next
<1>1. Gate!Leave(c)
  BY DEF Gate!Leave
<1> QED BY <1>1 DEF Gate!Next

-----------------------------------------------------------------------------
(* Nobody holds a permit at first.                                         *)
LEMMA InvInitially == ModelInit => Inv /\ Gate!Init
<1> SUFFICES ASSUME ModelInit PROVE Inv /\ Gate!Init
  OBVIOUS
<1>1. ModelTypeOK /\ Places
  BY PermitAssumption DEF ModelInit, ModelTypeOK, Places, Permitted
<1>2. Counted
  BY FS_EmptySet, PermitAssumption DEF ModelInit, Counted
<1> QED BY <1>1, <1>2 DEF Inv, ModelInit, Gate!Init

(* Coming, and waiting for a permit.                                       *)
LEMMA EnterStep ==
  ASSUME Inv, NEW c \in Calls, EnterCall(c)
  PROVE  Inv' /\ GateStep
<1>1. CASE Resolve(c) \/ GiveUp(c)
  <2>1. ModelTypeOK' /\ Places'
    BY <1>1 DEF Inv, ModelTypeOK, Places, Permitted, Connected, Resolve, GiveUp, Move
  <2> QED BY <1>1, <2>1 DEF Inv, Counted, Resolve, GiveUp, GateStep
<1>2. CASE Acquire(c)
  <2>1. at[c] = "queued" /\ c \notin permits
    BY <1>2 DEF Inv, Places, Permitted, Acquire, Move
  <2>2. ModelTypeOK'
    BY <1>2 DEF Inv, ModelTypeOK, Acquire, Move
  <2>3. Places'
    BY <1>2, <2>1 DEF Inv, ModelTypeOK, Places, Permitted, Connected, Acquire, Move
  <2>4. Counted'
    <3>1. Cardinality(permits') = Cardinality(permits) + 1
      BY <1>2, <2>1, PermitsFinite DEF Inv, Acquire
    <3> QED BY <1>2, <3>1, PermitAssumption DEF Inv, ModelTypeOK, Counted, Acquire
  <2> QED BY <1>2, <2>2, <2>3, <2>4 DEF Inv, Acquire, GateStep
<1> QED BY <1>1, <1>2 DEF EnterCall

(* A step that keeps the permits.                                          *)
LEMMA HoldStep ==
  ASSUME Inv, NEW c \in Calls,
         \/ Send(c) \/ Transient(c) \/ Resume(c) \/ OpenStream(c)
         \/ OpenBreaks(c) \/ ReadBreaks(c) \/ StartRelay(c) \/ NeverRelayed(c)
  PROVE  Inv' /\ GateStep
<1> USE DEF Send, Transient, Resume, OpenStream, OpenBreaks, ReadBreaks, StartRelay, NeverRelayed
<1>1. ModelTypeOK'
  BY DEF Inv, ModelTypeOK, Hold, Move
<1>2. Places'
  BY DEF Inv, ModelTypeOK, Places, Permitted, Connected, Hold, Move
<1>3. Counted'
  BY DEF Inv, Counted, Hold
<1>4. GateStep
  <2>1. CASE Send(c) \/ OpenStream(c)
    <3>1. at[c] \in Permitted \ Connected /\ open' = open \cup {c}
      BY <2>1 DEF Permitted, Connected, Move
    <3> QED BY <3>1, RoomToOpen DEF GateStep
  <2>2. CASE Transient(c)
    <3>1. c \in open /\ open' = open \ {c}
      BY <2>2 DEF Inv, Places, Permitted, Connected, Move
    <3> QED BY <3>1, CloseLeaves DEF GateStep
  <2>3. CASE Resume(c) \/ OpenBreaks(c) \/ ReadBreaks(c) \/ StartRelay(c) \/ NeverRelayed(c)
    BY <2>3 DEF GateStep
  <2> QED BY <2>1, <2>2, <2>3
<1> QED BY <1>1, <1>2, <1>3, <1>4 DEF Inv

(* A step that ends a call and gives its permit back.                      *)
LEMMA ReleaseStep ==
  ASSUME Inv, NEW c \in Calls,
         Answer(c) \/ OpenFails(c) \/ ReadError(c) \/ EndRelay(c)
  PROVE  Inv' /\ GateStep
<1> USE DEF Answer, OpenFails, ReadError, EndRelay
<1>1. c \in permits /\ GiveBack(c) /\ ((c \in open /\ open' = open \ {c}) \/ open' = open)
  BY DEF Inv, Places, Permitted, Connected, Move
<1>2. Counted' /\ active' \in Nat /\ capacity' \in Nat
  BY <1>1, GiveBackCounts DEF Inv
<1>3. ModelTypeOK'
  BY <1>1, <1>2 DEF Inv, ModelTypeOK, GiveBack, Move
<1>4. Places'
  BY <1>1 DEF Inv, ModelTypeOK, Places, Permitted, Connected, GiveBack, Move
<1>5. GateStep
  BY <1>1, CloseLeaves DEF GateStep
<1> QED BY <1>2, <1>3, <1>4, <1>5 DEF Inv

(* Inv is inductive, and every step is one of QuotaGate or none.           *)
LEMMA InvNext == Inv /\ [ModelNext]_modelVars => Inv' /\ GateStep
<1> SUFFICES ASSUME Inv, [ModelNext]_modelVars PROVE Inv' /\ GateStep
  OBVIOUS
<1>1. ASSUME NEW c \in Calls, EnterCall(c) PROVE Inv' /\ GateStep
  BY <1>1, EnterStep
<1>2. ASSUME NEW c \in Calls, Post(c) \/ Stream(c) \/ EndRelay(c) PROVE Inv' /\ GateStep
  BY <1>2, HoldStep, ReleaseStep DEF Post, Stream
<1>3. CASE UNCHANGED modelVars
  BY <1>3 DEF modelVars, Inv, ModelTypeOK, Places, Counted, GateStep
<1> QED BY <1>1, <1>2, <1>3 DEF ModelNext

(* Inv holds in every reachable state.                                     *)
LEMMA Invariance == ModelSpec => []Inv
BY InvInitially, InvNext, PTL DEF ModelSpec

(* The counters of the gateway never become negative.                      *)
THEOREM ModelTypeCorrect == ModelSpec => []ModelTypeOK
<1>1. Inv => ModelTypeOK
  BY DEF Inv
<1> QED BY <1>1, Invariance, PTL

(* chat_completions, _send_with_retry and relay give each permit back      *)
(* once: the semaphore and model_active agree with the calls that hold     *)
(* one, and a call that is over holds none unless it ended on one of the   *)
(* paths without a release.                                                *)
THEOREM PermitsAreAccounted == ModelSpec => []PermitsAccounted
<1>1. Inv => PermitsAccounted
  BY DEF Inv, Counted, Places, ModelTypeOK, PermitsAccounted, Permitted
<1> QED BY <1>1, Invariance, PTL

(* What is open at the providers goes in and out as QuotaGate says: never  *)
(* more than model_max_concurrency at once.                                *)
THEOREM GatewayKeepsGate == ModelSpec => ImplementsGate
<1>1. Inv /\ [ModelNext]_modelVars => [Gate!Next]_open
  BY InvNext DEF GateStep
<1> QED BY <1>1, InvInitially, Invariance, PTL DEF ModelSpec, ImplementsGate, Gate!Spec
=============================================================================

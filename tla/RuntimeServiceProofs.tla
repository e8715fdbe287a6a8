------------------------ MODULE RuntimeServiceProofs ------------------------
(***************************************************************************)
(* Proofs about RuntimeService, for any requests, sessions, workspaces and *)
(* user ids and any number of stops.                                       *)
(***************************************************************************)
EXTENDS RuntimeService, FiniteSetTheorems, TLAPS

Childless  == {"new", "known", "queued", "owner", "assigning", "spawning"}
Owned      == {"spawning"} \cup Working \cup {"idle", "collecting"}
Inside     == {"owner", "assigning"} \cup Owned
Over       == {"leaving", "closed", "done", "lost"}
Registered == {"queued", "leaving", "closed", "lost"} \cup Inside

(* TypeOK without the table of sessions: no proof needs it.                *)
Typed ==
  /\ world \in Worlds
  /\ place \in [Requests -> Places]
  /\ reply \in [Requests -> Replies]
  /\ runs \subseteq Requests /\ gate \subseteq Requests
  /\ child \in [Requests -> {"none", "alive", "signalled", "dead"}]
  /\ stopped \in [Requests -> {"no", "remembered"} \cup Places]
  /\ pendingStops \subseteq Executions
  /\ owner \in [Identities -> Uids \cup {None}]
  /\ unused \in [Requests -> SUBSET Uids] /\ adrift \subseteq Requests
  /\ stops \in [Executions -> Nat]

(* Where a request is tells whether it is registered, has a permit and may *)
(* have a child.                                                           *)
Seated(r) ==
  /\ r \in runs <=> place[r] \in Registered
  /\ place[r] \in Inside => r \in gate
  /\ r \in gate => place[r] \in Inside \cup {"leaving", "lost"}
  /\ r \in Alive => r \in gate
  /\ place[r] \in Childless => child[r] = "none"
  /\ place[r] \in Working => child[r] # "none"

Apart ==
  \A q, r \in runs : q # r => Execution(q) # Execution(r) /\ SessionOf(q) # SessionOf(r)

(* As long as no thread is adrift nobody else gives a workspace away while *)
(* a thread looks for an unused user id, so that what it found is right.   *)
Ownership ==
  /\ \A q, r \in Requests : place[q] = "assigning" /\ place[r] = "assigning" => q = r
  /\ \A r \in Requests : place[r] \in Owned \/ r \in Alive => owner[IdentityOf(r)] # None
  /\ adrift = {} =>
       /\ \A r \in Requests : place[r] = "assigning" =>
            \A i \in Identities : i # IdentityOf(r) => owner[i] \notin unused[r]
       /\ \A i, j \in Identities : owner[i] = owner[j] /\ i # j => owner[i] = None

(* Where a stop met a request tells where it may go from there.            *)
Halted(r) ==
  /\ place[r] \in {"new", "known"} => stopped[r] = "no"
  /\ place[r] \notin Over => reply[r] = "none"
  /\ stopped[r] \notin {"new", "known", "assigning", "done"}
  /\ stopped[r] = "remembered" => place[r] \in Over
  /\ stopped[r] = "queued" => place[r] \in {"queued"} \cup Over
  /\ stopped[r] \in Working => place[r] \in Working \cup Over /\ child[r] \in {"signalled", "dead"}
  /\ stopped[r] \in {"remembered", "queued"} \cup Working => reply[r] # "completed"
  /\ reply[r] = "cancelled" \/ r \in cancelled => stopped[r] # "no"
  /\ place[r] = "lost" => reply[r] = "gone"
  /\ stopped[r] = "lost" => place[r] = "lost"

(* The requests of an execution that were met by a stop, and the stop that *)
(* is remembered, were each one call of stop.                              *)
Hit(e) == {r \in Requests : Execution(r) = e /\ stopped[r] # "no"}
Remembered(e) == IF e \in pendingStops THEN 1 ELSE 0
Accounted == \A e \in Executions : Cardinality(Hit(e)) + Remembered(e) <= stops[e]

Inv ==
  /\ Typed /\ Apart /\ Ownership /\ Accounted
  /\ \A r \in Requests : Seated(r) /\ Halted(r)
  /\ Cardinality(gate) <= world.capacity

-----------------------------------------------------------------------------
(* The other requests are where they were.                                 *)
Alone(r) ==
  /\ world' = world
  /\ \A q \in Requests \ {r} :
       /\ place'[q] = place[q] /\ reply'[q] = reply[q]
       /\ child'[q] = child[q] /\ stopped'[q] = stopped[q]
       /\ q \in runs' <=> q \in runs
       /\ q \in gate' <=> q \in gate
       /\ q \in cancelled' <=> q \in cancelled

LEMMA OthersStay ==
  ASSUME Inv, NEW r \in Requests, Alone(r), Seated(r)', Halted(r)'
  PROVE  \A q \in Requests : Seated(q)' /\ Halted(q)'
<1> SUFFICES ASSUME NEW q \in Requests \ {r} PROVE Seated(q)' /\ Halted(q)'
  OBVIOUS
<1>1. Seated(q) /\ Halted(q)
  BY DEF Inv
<1>2. Seated(q)'
  BY <1>1 DEF Seated, Alone, Alive
<1>3. Halted(q)'
  BY <1>1 DEF Halted, Alone
<1> QED BY <1>2, <1>3

(* Nobody is counted who was not.                                          *)
LEMMA NobodyCounted ==
  ASSUME Inv, UNCHANGED <<world, stopped, pendingStops, stops>>
  PROVE  Accounted'
<1>1. \A e : Hit(e)' = Hit(e) /\ Remembered(e)' = Remembered(e)
  BY DEF Hit, Remembered, Execution
<1> QED BY <1>1 DEF Inv, Accounted

(* Workspaces keep their owners as long as nobody looks for one.           *)
LEMMA NobodyAssigned ==
  ASSUME Inv, UNCHANGED <<world, owner, unused>>, adrift \subseteq adrift',
         \A q \in Requests : place'[q] = "assigning" => place[q] = "assigning",
         \A q \in Requests : place'[q] \in Owned \/ q \in Alive' => place[q] \in Owned \/ q \in Alive
  PROVE  Ownership'
BY DEF Inv, Ownership, IdentityOf

LEMMA GateFinite ==
  ASSUME Inv
  PROVE  IsFiniteSet(gate) /\ Cardinality(gate) \in Nat /\ world.capacity \in Nat
BY RuntimeAssumption, FS_Subset, FS_CardinalityType DEF Inv, Typed

(* A request that goes on without a stop, a permit or an owner changing    *)
(* hands.                                                                  *)
GoesOn(r, p) ==
  /\ Goto(r, p)
  /\ UNCHANGED <<world, runs, gate, owner, unused, stopped, cancelled, pendingStops, stops>>
  /\ adrift \subseteq adrift' /\ adrift' \subseteq Requests
  /\ reply' \in [Requests -> Replies]
  /\ child' \in [Requests -> {"none", "alive", "signalled", "dead"}]
  /\ \A q \in Requests \ {r} : reply'[q] = reply[q] /\ child'[q] = child[q]

LEMMA GoOn ==
  ASSUME Inv, NEW r \in Requests, NEW p \in Places, GoesOn(r, p), p # "assigning",
         p \in Owned \/ r \in Alive' => place[r] \in Owned \/ r \in Alive,
         Seated(r)', Halted(r)'
  PROVE  Inv'
<1>1. Typed /\ Typed'
  BY DEF Inv, Typed, GoesOn, Goto
<1>2. Alone(r)
  BY <1>1 DEF Alone, GoesOn, Goto, Typed
<1>3. \A q \in Requests : Seated(q)' /\ Halted(q)'
  BY <1>2, OthersStay
<1>4. Apart'
  BY DEF GoesOn, Inv, Apart, Execution, SessionOf
<1>5. Accounted'
  BY NobodyCounted DEF GoesOn
<1>6. /\ \A q \in Requests : place'[q] = "assigning" => place[q] = "assigning"
      /\ \A q \in Requests : place'[q] \in Owned \/ q \in Alive' => place[q] \in Owned \/ q \in Alive
  BY <1>1 DEF GoesOn, Goto, Typed, Alive
<1>7. Ownership'
  BY <1>6, NobodyAssigned DEF GoesOn
<1> QED BY <1>1, <1>3, <1>4, <1>5, <1>7 DEF Inv, GoesOn

-----------------------------------------------------------------------------
LEMMA WaitSteps ==
  ASSUME Inv, NEW r \in Requests,
         UseSession(r) \/ RefuseSession(r) \/ RefuseBusy(r) \/ QueueTimeout(r) \/ PoolExhausted(r)
  PROVE  Inv'
<1> /\ Typed /\ Seated(r) /\ Halted(r)
  BY DEF Inv
<1>1. CASE UseSession(r)
  <2>1. GoesOn(r, "known") /\ place[r] = "new" /\ reply' = reply /\ child' = child
    BY <1>1 DEF UseSession, Create, GoesOn, Typed, files, stop
  <2>2. Seated(r)' /\ Halted(r)'
    BY <2>1 DEF Seated, Halted, Typed, GoesOn, Goto, Alive, Working, Childless, Inside, Owned, Over, Registered
  <2> QED BY <2>1, <2>2, GoOn DEF Places, Owned, Working, Alive
<1>2. CASE RefuseSession(r) \/ RefuseBusy(r)
  <2>1. /\ GoesOn(r, "done") /\ place[r] \in {"new", "known"}
        /\ reply' = [reply EXCEPT ![r] = "refused"] /\ child' = child
    BY <1>2 DEF RefuseSession, RefuseBusy, Refuse, Goto, GoesOn, Typed, Replies, rest, files, stop
  <2>2. Seated(r)' /\ Halted(r)'
    BY <2>1 DEF Seated, Halted, Typed, GoesOn, Goto, Alive, Working, Childless, Inside, Owned, Over, Registered
  <2> QED BY <2>1, <2>2, GoOn DEF Places, Owned, Working, Alive
<1>3. CASE QueueTimeout(r) \/ PoolExhausted(r)
  <2>1. /\ GoesOn(r, "leaving") /\ place[r] \in {"queued", "assigning"}
        /\ reply' \in {[reply EXCEPT ![r] = a] : a \in {"timeout", "failed"}} /\ child' = child
    BY <1>3 DEF QueueTimeout, PoolExhausted, Finally, Goto, GoesOn, Typed, Replies, rest, files, stop
  <2>2. Seated(r)' /\ Halted(r)'
    BY <2>1 DEF Seated, Halted, Typed, GoesOn, Goto, Alive, Working, Childless, Inside, Owned, Over, Registered
  <2> QED BY <2>1, <2>2, GoOn DEF Places, Owned, Working, Alive
<1> QED BY <1>1, <1>2, <1>3

LEMMA ChildSteps ==
  ASSUME Inv, NEW r \in Requests,
         Start(r) \/ TurnEnds(r) \/ Exit(r)
  PROVE  Inv'
<1> /\ Typed /\ Seated(r) /\ Halted(r)
  BY DEF Inv
<1>1. CASE Spawn(r)
  <2>1. /\ GoesOn(r, "initialize") /\ place[r] = "spawning"
        /\ child' = [child EXCEPT ![r] = "alive"] /\ reply' = reply
    BY <1>1 DEF Spawn, GoesOn, Typed, files, stop
  <2>2. Seated(r)' /\ Halted(r)'
    BY <2>1 DEF Seated, Halted, Typed, GoesOn, Goto, Alive, Working, Childless, Inside, Owned, Over, Registered
  <2> QED BY <2>1, <2>2, GoOn DEF Places, Owned, Working, Alive
<1>2. CASE SpawnError(r) \/ Disappoint(r)
  <2>1. /\ GoesOn(r, "leaving") /\ place[r] \in {"spawning"} \cup Working
        /\ reply' = [reply EXCEPT ![r] = "failed"] /\ child' = child
    BY <1>2 DEF SpawnError, Disappoint, Finally, Goto, GoesOn, Typed, Working, Replies, rest, files, stop
  <2>2. Seated(r)' /\ Halted(r)'
    BY <2>1 DEF Seated, Halted, Typed, GoesOn, Goto, Alive, Working, Childless, Inside, Owned, Over, Registered
  <2> QED BY <2>1, <2>2, GoOn DEF Places, Owned, Working, Alive
<1>3. CASE ChildAnswers(r)
  <2> PICK p \in {"prompt", "turn"} : Goto(r, p) /\ place[r] \in Working
    BY <1>3 DEF ChildAnswers, Working
  <2>1. GoesOn(r, p) /\ child' = child /\ reply' = reply
    BY <1>3 DEF ChildAnswers, Goto, GoesOn, Typed, rest, files, stop
  <2>2. Seated(r)' /\ Halted(r)'
    BY <2>1 DEF Seated, Halted, Typed, GoesOn, Goto, Alive, Working, Childless, Inside, Owned, Over, Registered
  <2> QED BY <2>1, <2>2, GoOn DEF Places, Owned, Working, Alive
<1>4. CASE TurnEnds(r)
  <2>1. GoesOn(r, "idle") /\ place[r] = "turn" /\ child[r] = "alive" /\ child' = child /\ reply' = reply
    BY <1>4 DEF TurnEnds, GoesOn, Typed, rest, files, stop
  <2>2. Seated(r)' /\ Halted(r)'
    BY <2>1 DEF Seated, Halted, Typed, GoesOn, Goto, Alive, Working, Childless, Inside, Owned, Over, Registered
  <2> QED BY <2>1, <2>2, GoOn DEF Places, Owned, Working, Alive
<1>5. CASE Exit(r)
  <2>1. /\ GoesOn(r, place[r]) /\ place[r] \in Places \ Childless
        /\ child' = [child EXCEPT ![r] = "dead"] /\ reply' = reply /\ child[r] \in {"alive", "signalled"}
    BY <1>5 DEF Exit, Seated, GoesOn, Goto, Typed, files, stop
  <2>2. Seated(r)' /\ Halted(r)'
    BY <2>1 DEF Seated, Halted, Typed, GoesOn, Goto, Alive, Working, Childless, Inside, Owned, Over, Registered
  <2>3. place[r] # "assigning" /\ r \in Alive
    BY <2>1 DEF Childless, Alive
  <2> QED BY <2>1, <2>2, <2>3, GoOn
<1> QED BY <1>1, <1>2, <1>3, <1>4, <1>5 DEF Start

LEMMA ResultSteps ==
  ASSUME Inv, NEW r \in Requests, TakeResult(r) \/ OutputEnds(r) \/ Collect(r)
  PROVE  Inv'
<1> /\ Typed /\ Seated(r) /\ Halted(r)
  BY DEF Inv
<1>1. PICK p \in {"collecting", "leaving"}, a \in Replies :
        /\ GoesOn(r, p) /\ child' = child /\ reply' = [reply EXCEPT ![r] = a]
        /\ place[r] \in {"idle", "collecting"} \cup Working
        /\ p = "collecting" => place[r] = "idle" /\ a = reply[r]
        /\ a = "completed" => place[r] = "collecting"
        /\ a = "cancelled" => r \in cancelled
  <2>1. CASE TakeResult(r) /\ Goto(r, "collecting") /\ UNCHANGED reply
    <3>1. reply' = [reply EXCEPT ![r] = reply[r]] /\ reply[r] \in Replies /\ place[r] = "idle"
      BY <2>1 DEF TakeResult, Typed
    <3>2. GoesOn(r, "collecting") /\ child' = child
      BY <2>1 DEF TakeResult, GoesOn, Typed, rest, files, stop
    <3>3. reply[r] = "none"
      BY <3>1 DEF Halted, Over
    <3> QED BY <3>1, <3>2, <3>3
  <2>2. CASE \E a \in {"completed", "failed", "cancelled"} : 
               /\ Finally(r, a) /\ UNCHANGED rest /\ place[r] \in {"idle", "collecting"} \cup Working
               /\ a = "completed" => place[r] = "collecting"
               /\ a = "cancelled" => r \in cancelled
    <3> PICK a \in {"completed", "failed", "cancelled"} : 
               /\ Finally(r, a) /\ UNCHANGED rest /\ place[r] \in {"idle", "collecting"} \cup Working
               /\ a = "completed" => place[r] = "collecting"
               /\ a = "cancelled" => r \in cancelled
      BY <2>2
    <3>1. GoesOn(r, "leaving") /\ child' = child /\ reply' = [reply EXCEPT ![r] = a] /\ a \in Replies
      BY DEF Finally, Goto, GoesOn, Typed, Replies, rest, files, stop
    <3> QED BY <3>1
  <2> QED BY <2>1, <2>2 DEF TakeResult, OutputEnds, Collect
<1>2. Seated(r)' /\ Halted(r)'
  BY <1>1 DEF Seated, Halted, Typed, GoesOn, Goto, Alive, Working, Childless, Inside, Owned, Over, Registered
<1> QED BY <1>1, <1>2, GoOn DEF Places, Owned, Working, Alive

-----------------------------------------------------------------------------
(* A remembered stop becomes the stop of the run it cancels.               *)
LEMMA RegisterStep ==
  ASSUME Inv, NEW r \in Requests, Register(r)
  PROVE  Inv'
<1> DEFINE e == Execution(r)
<1> /\ Typed /\ Seated(r) /\ Halted(r)
  BY DEF Inv
<1>1. /\ place[r] = "known" /\ ~Busy(r) /\ runs' = runs \cup {r} /\ Spend(r)
      /\ UNCHANGED <<world, gate, child, owner, unused, adrift, cancelled, stops>>
  BY DEF Register, files
<1>2. PICK p \in {"queued", "leaving"} :
        /\ Goto(r, p)
        /\ p = "queued" => e \notin pendingStops /\ stopped' = stopped /\ reply' = reply
        /\ p = "leaving" => /\ e \in pendingStops
                            /\ stopped' = [stopped EXCEPT ![r] = "remembered"]
                            /\ reply' = [reply EXCEPT ![r] = "cancelled"]
  BY DEF Register, Finally
<1>3. Typed'
  BY <1>1, <1>2 DEF Typed, Goto, Places, Replies, Spend
<1>4. Alone(r)
  BY <1>1, <1>2 DEF Alone, Goto, Typed
<1>5. Seated(r)' /\ Halted(r)'
  BY <1>1, <1>2 DEF Seated, Halted, Typed, Goto, Alive, Working, Childless, Inside, Owned, Over, Registered
<1>6. \A q \in Requests : Seated(q)' /\ Halted(q)'
  BY <1>4, <1>5, OthersStay
<1>7. Apart'
  BY <1>1 DEF Inv, Apart, Busy, Execution, SessionOf
<1>8. /\ \A q \in Requests : place'[q] = "assigning" => place[q] = "assigning"
      /\ \A q \in Requests : place'[q] \in Owned \/ q \in Alive' => place[q] \in Owned \/ q \in Alive
  BY <1>1, <1>2 DEF Goto, Typed, Alive, Owned, Working
<1>9. Ownership'
  BY <1>1, <1>8, NobodyAssigned
<1>10. Accounted'
  <2>1. CASE p = "queued"
    BY <1>1, <1>2, <2>1, NobodyCounted DEF Spend
  <2>2. CASE p = "leaving"
    <3>1. stopped[r] = "no" /\ e \in Executions
      BY <1>1, <2>2, <1>2 DEF Halted, Typed
    <3>2. ASSUME NEW d \in Executions
          PROVE  Cardinality(Hit(d))' + Remembered(d)' <= stops'[d]
      <4>1. Cardinality(Hit(d)) + Remembered(d) <= stops[d] /\ stops'[d] = stops[d] /\ stops[d] \in Nat
        BY <1>1 DEF Inv, Accounted, Typed
      <4>2. CASE d = e
        <5>1. Hit(d)' = Hit(d) \cup {r} /\ r \notin Hit(d)
          BY <4>2, <3>1, <2>2, <1>2, <1>1 DEF Hit, Typed, Execution
        <5>2. IsFiniteSet(Hit(d))
          BY RuntimeAssumption, FS_Subset DEF Hit
        <5>3. Cardinality(Hit(d)') = Cardinality(Hit(d)) + 1 /\ Cardinality(Hit(d)) \in Nat
          BY <5>1, <5>2, FS_AddElement, FS_CardinalityType
        <5>4. Remembered(d) = 1 /\ Remembered(d)' = 0
          BY <4>2, <2>2, <1>2, <1>1 DEF Remembered, Spend
        <5> QED BY <5>3, <5>4, <4>1
      <4>3. CASE d # e
        <5>1. Hit(d)' = Hit(d) /\ Remembered(d)' = Remembered(d)
          BY <4>3, <3>1, <2>2, <1>2, <1>1 DEF Hit, Typed, Execution, Remembered, Spend
        <5> QED BY <5>1, <4>1
      <4> QED BY <4>2, <4>3
    <3> QED BY <3>2 DEF Accounted
  <2> QED BY <2>1, <2>2
<1> QED BY <1>1, <1>3, <1>6, <1>7, <1>9, <1>10 DEF Inv

LEMMA EnterStep ==
  ASSUME Inv, NEW r \in Requests, Enter(r)
  PROVE  Inv'
<1> /\ Typed /\ Seated(r) /\ Halted(r)
  BY DEF Inv
<1>1. /\ place[r] = "queued" /\ Cardinality(gate) < world.capacity /\ gate' = gate \cup {r}
      /\ UNCHANGED <<world, runs, child, owner, unused, adrift, stopped, cancelled, pendingStops, stops>>
  BY DEF Enter, files, stop
<1>2. PICK p \in {"owner", "leaving"}, a \in {"none", "cancelled", "refused"} :
        /\ Goto(r, p) /\ reply' = [reply EXCEPT ![r] = a]
        /\ p = "owner" => stopped[r] = "no" /\ a = "none"
        /\ a = "cancelled" => stopped[r] # "no"
  <2>1. reply[r] = "none" /\ reply = [reply EXCEPT ![r] = "none"]
    BY <1>1 DEF Halted, Typed, Over
  <2> QED BY <2>1 DEF Enter, AfterQueue, Finally
<1>3. Typed'
  BY <1>1, <1>2 DEF Typed, Goto, Places, Replies
<1>4. Alone(r)
  BY <1>1, <1>2 DEF Alone, Goto, Typed
<1>5. Seated(r)' /\ Halted(r)'
  BY <1>1, <1>2 DEF Seated, Halted, Typed, Goto, Alive, Working, Childless, Inside, Owned, Over, Registered
<1>6. \A q \in Requests : Seated(q)' /\ Halted(q)'
  BY <1>4, <1>5, OthersStay
<1>7. Apart'
  BY <1>1 DEF Inv, Apart, Execution, SessionOf
<1>8. /\ \A q \in Requests : place'[q] = "assigning" => place[q] = "assigning"
      /\ \A q \in Requests : place'[q] \in Owned \/ q \in Alive' => place[q] \in Owned \/ q \in Alive
  BY <1>1, <1>2 DEF Goto, Typed, Alive, Owned, Working
<1>9. Ownership'
  BY <1>1, <1>8, NobodyAssigned
<1>10. Accounted'
  BY <1>1, NobodyCounted
<1>11. Cardinality(gate') <= world'.capacity
  <2>1. r \notin gate
    BY <1>1 DEF Seated, Inside, Owned, Working
  <2>2. Cardinality(gate') = Cardinality(gate) + 1
    BY <2>1, <1>1, GateFinite, FS_AddElement
  <2> QED BY <2>2, <1>1, GateFinite
<1> QED BY <1>3, <1>6, <1>7, <1>9, <1>10, <1>11 DEF Inv

(* The thread finds what is unused while nobody else assigns ...           *)
LEMMA LookStep ==
  ASSUME Inv, NEW r \in Requests, LookAtOwners(r)
  PROVE  Inv'
<1> /\ Typed /\ Seated(r) /\ Halted(r)
  BY DEF Inv
<1>1. /\ place[r] = "owner" /\ Unlocked /\ Goto(r, "assigning")
      /\ unused' \in [Requests -> SUBSET Uids]
      /\ \A i \in Identities : i # IdentityOf(r) => owner[i] \notin unused'[r]
      /\ UNCHANGED <<world, reply, runs, gate, child, owner, adrift, stopped, cancelled, pendingStops, stops>>
  <2> DEFINE old == owner[IdentityOf(r)]
             free == world.uids \ {owner[i] : i \in Identities \ {IdentityOf(r)}}
             choice == IF old \in free THEN {old} ELSE free
  <2>1. unused' = [unused EXCEPT ![r] = choice]
    BY DEF LookAtOwners
  <2>2. choice \subseteq free /\ free \subseteq Uids
    BY RuntimeAssumption DEF Typed
  <2>3. unused' \in [Requests -> SUBSET Uids] /\ unused'[r] \subseteq free
    BY <2>1, <2>2 DEF Typed
  <2> QED BY <2>3 DEF LookAtOwners, stop
<1>2. Typed'
  BY <1>1 DEF Typed, Goto, Places
<1>3. Alone(r)
  BY <1>1 DEF Alone, Goto, Typed
<1>4. Seated(r)' /\ Halted(r)'
  BY <1>1 DEF Seated, Halted, Typed, Goto, Alive, Working, Childless, Inside, Owned, Over, Registered
<1>5. \A q \in Requests : Seated(q)' /\ Halted(q)'
  BY <1>3, <1>4, OthersStay
<1>6. Apart'
  BY <1>1 DEF Inv, Apart, Execution, SessionOf
<1>7. Ownership'
  <2>1. \A q \in Requests : place'[q] = "assigning" => q = r
    BY <1>1 DEF Unlocked, Goto, Typed
  <2>3. \A q \in Requests : place'[q] \in Owned \/ q \in Alive' => place[q] \in Owned \/ q \in Alive
    BY <1>1 DEF Goto, Typed, Alive, Owned, Working
  <2> QED BY <2>1, <2>3, <1>1 DEF Inv, Ownership, IdentityOf
<1>8. Accounted'
  BY <1>1, NobodyCounted
<1> QED BY <1>1, <1>2, <1>5, <1>6, <1>7, <1>8 DEF Inv

(* ... so that it takes one of them without looking again.  A thread that  *)
(* is adrift may give a workspace a user id somebody else has.             *)
LEMMA AssignStep ==
  ASSUME Inv, NEW r \in Requests, AssignOwner(r) \/ AssignLate(r)
  PROVE  Inv'
<1> /\ Typed /\ Seated(r) /\ Halted(r)
  BY DEF Inv
<1> DEFINE w == IdentityOf(r)
<1>1. /\ unused' = [unused EXCEPT ![r] = {}]
      /\ UNCHANGED <<world, runs, gate, child, adrift, stopped, cancelled, pendingStops, stops>>
  BY DEF AssignOwner, AssignLate, GiveAway, stop
<1>2. PICK u \in unused[r] : owner' = [owner EXCEPT ![w] = u]
  BY DEF AssignOwner, AssignLate, GiveAway
<1>3. PICK p \in Places, a \in Replies :
        /\ Goto(r, p) /\ reply' = [reply EXCEPT ![r] = a]
        /\ \/ place[r] = "assigning" /\ p = "spawning" /\ a = "none"
           \/ place[r] = "assigning" /\ p = "leaving" /\ a \in {"none", "refused"}
           \/ place[r] = p /\ reply[r] = a /\ adrift # {}
  <2>1. CASE AssignOwner(r)
    <3>1. reply = [reply EXCEPT ![r] = "none"] /\ reply[r] = "none" /\ place[r] = "assigning"
      BY <2>1 DEF AssignOwner, Halted, Typed, Over
    <3> QED BY <2>1, <3>1 DEF AssignOwner, Finally, Places, Replies
  <2>2. CASE AssignLate(r)
    <3>1. /\ Goto(r, place[r]) /\ reply' = [reply EXCEPT ![r] = reply[r]]
          /\ place[r] \in Places /\ reply[r] \in Replies
      BY <2>2 DEF AssignLate, Goto, Typed
    <3> QED BY <2>2, <3>1 DEF AssignLate
  <2> QED BY <2>1, <2>2
<1>4. w \in Identities /\ u \in Uids /\ u # None
  <2>1. world.ask \in [Requests -> [execution : Executions, session : Sessions, identity : Identities]]
    BY RuntimeAssumption DEF Typed
  <2> QED BY RuntimeAssumption, <2>1, <1>2 DEF IdentityOf, Typed
<1>5. Typed'
  BY <1>1, <1>2, <1>3, <1>4 DEF Typed, Goto
<1>6. Alone(r)
  BY <1>1, <1>3 DEF Alone, Goto, Typed
<1>7. Seated(r)' /\ Halted(r)'
  <2>1. /\ place'[r] = p /\ reply'[r] = a
        /\ UNCHANGED <<child, runs, gate, stopped, cancelled>>
    BY <1>1, <1>3 DEF Goto, Typed
  <2>2. CASE place[r] = p /\ reply[r] = a
    BY <2>1, <2>2 DEF Seated, Halted, Alive
  <2>3. CASE place[r] = "assigning" /\ p \in {"spawning", "leaving"} /\ a \in {"none", "refused"}
                                   /\ (p = "spawning" => a = "none")
    BY <2>1, <2>3 DEF Seated, Halted, Typed, Alive, Working, Childless, Inside, Owned, Over, Registered
  <2> QED BY <1>3, <2>2, <2>3
<1>8. \A q \in Requests : Seated(q)' /\ Halted(q)'
  BY <1>6, <1>7, OthersStay
<1>9. Apart'
  BY <1>1 DEF Inv, Apart, Execution, SessionOf
<1>10. Ownership'
  <2>1. \A q \in Requests : place'[q] = "assigning" => place[q] = "assigning"
    BY <1>3 DEF Goto, Typed
  <2>2. ASSUME adrift' = {}
        PROVE  /\ \A q \in Requests : place'[q] # "assigning"
               /\ \A i, j \in Identities : owner'[i] = owner'[j] /\ i # j => owner'[i] = None
    <3>1. adrift = {} /\ place[r] = "assigning" /\ p # "assigning"
      BY <2>2, <1>1, <1>3
    <3>2. \A i \in Identities : i # w => owner[i] # u
      BY <3>1, <1>2 DEF Inv, Ownership
    <3>3. \A q \in Requests : place'[q] # "assigning"
      BY <3>1, <1>3 DEF Inv, Ownership, Goto, Typed
    <3>4. \A i, j \in Identities : owner'[i] = owner'[j] /\ i # j => owner'[i] = None
      BY <3>1, <3>2, <1>2, <1>4 DEF Inv, Ownership, Typed
    <3> QED BY <3>3, <3>4
  <2>3. \A i \in Identities : owner[i] # None => owner'[i] # None
    BY <1>2, <1>4 DEF Typed
  <2>4. owner'[w] # None
    BY <1>2, <1>4 DEF Typed
  <2>5. ASSUME NEW q \in Requests, place'[q] \in Owned \/ q \in Alive'
        PROVE  owner'[IdentityOf(q)'] # None
    <3>1. IdentityOf(q)' = IdentityOf(q) /\ IdentityOf(q) \in Identities
      <4>1. world.ask \in [Requests -> [execution : Executions, session : Sessions, identity : Identities]]
        BY RuntimeAssumption DEF Typed
      <4> QED BY <4>1, <1>1 DEF IdentityOf
    <3>2. CASE q = r
      BY <3>2, <3>1, <2>4
    <3>3. CASE q # r
      <4>1. place[q] \in Owned \/ q \in Alive
        BY <2>5, <3>3, <1>1, <1>3 DEF Goto, Typed, Alive
      <4> QED BY <4>1, <3>1, <2>3 DEF Inv, Ownership
    <3> QED BY <3>2, <3>3
  <2>6. \A q, t \in Requests : place'[q] = "assigning" /\ place'[t] = "assigning" => q = t
    BY <2>1 DEF Inv, Ownership
  <2> QED BY <2>2, <2>5, <2>6 DEF Ownership
<1>11. Accounted'
  BY <1>1, NobodyCounted
<1> QED BY <1>1, <1>5, <1>8, <1>9, <1>10, <1>11 DEF Inv

(* A run that is cancelled goes to its finally, out of it, or away; what it*)
(* holds stays with it.                                                    *)
LEMMA CancelSteps ==
  ASSUME Inv, NEW r \in Requests, Cancel(r)
  PROVE  Inv'
<1> /\ Typed /\ Seated(r) /\ Halted(r)
  BY DEF Inv
<1>1. CASE CancelEntry(r)
  <2>1. /\ GoesOn(r, "done") /\ place[r] \in {"new", "known"}
        /\ reply' = [reply EXCEPT ![r] = "gone"] /\ child' = child
    BY <1>1 DEF CancelEntry, Goto, GoesOn, Typed, Replies, rest, files, stop
  <2>2. Seated(r)' /\ Halted(r)'
    BY <2>1 DEF Seated, Halted, Typed, GoesOn, Goto, Alive, Working, Childless, Inside, Owned, Over, Registered
  <2> QED BY <2>1, <2>2, GoOn DEF Places, Owned, Working, Alive
<1>2. CASE CancelBody(r)
  <2>1. /\ GoesOn(r, "leaving") /\ place[r] \in {"queued"} \cup Inside
        /\ reply' = [reply EXCEPT ![r] = "gone"]
        /\ child' \in {child, [child EXCEPT ![r] = "dead"]}
    BY <1>2 DEF CancelBody, Finally, Goto, GoesOn, Typed, Inside, Owned, Working, Replies, stop
  <2>2. place'[r] = "leaving" /\ reply'[r] = "gone" /\ child'[r] \in {child[r], "dead"}
    BY <2>1 DEF GoesOn, Goto, Typed
  <2>3. Seated(r)' /\ Halted(r)'
    BY <2>1, <2>2 DEF Seated, Halted, GoesOn, Alive, Working, Childless, Inside, Owned, Over, Registered
  <2>4. r \in Alive' => r \in Alive
    BY <2>2 DEF Alive
  <2> QED BY <2>1, <2>3, <2>4, GoOn DEF Places, Owned, Working
<1>3. CASE CancelFinally(r)
  <2>1. /\ GoesOn(r, "lost") /\ place[r] \in {"leaving", "closed"}
        /\ reply' = [reply EXCEPT ![r] = "gone"]
        /\ child' \in {child, [child EXCEPT ![r] = IF @ = "alive" THEN "signalled" ELSE @]}
    BY <1>3 DEF CancelFinally, Goto, GoesOn, Typed, Replies, files, stop
  <2>2. /\ place'[r] = "lost" /\ reply'[r] = "gone"
        /\ child'[r] = child[r] \/ (child[r] = "alive" /\ child'[r] = "signalled")
    BY <2>1 DEF GoesOn, Goto, Typed
  <2>3. Seated(r)' /\ Halted(r)'
    BY <2>1, <2>2 DEF Seated, Halted, GoesOn, Alive, Working, Childless, Inside, Owned, Over, Registered
  <2>4. r \in Alive' => r \in Alive
    BY <2>2 DEF Alive
  <2> QED BY <2>1, <2>3, <2>4, GoOn DEF Places, Owned, Working
<1> QED BY <1>1, <1>2, <1>3 DEF Cancel

LEMMA LeaveSteps ==
  ASSUME Inv, NEW r \in Requests, Close(r) \/ Deregister(r)
  PROVE  Inv'
<1> /\ Typed /\ Seated(r) /\ Halted(r)
  BY DEF Inv
<1>1. PICK p \in {"closed", "done"} :
        /\ Goto(r, p) /\ place[r] \in {"leaving", "closed"}
        /\ runs' = (IF p = "done" THEN runs \ {r} ELSE runs)
        /\ gate' = gate \ {r}
        /\ child' = [child EXCEPT ![r] = IF @ = "none" THEN @ ELSE "dead"]
  <2>1. CASE Close(r)
    BY <2>1 DEF Close
  <2>2. CASE Deregister(r)
    <3>1. place[r] = "closed" /\ r \notin gate /\ child[r] \in {"none", "dead"}
      BY <2>2 DEF Deregister, Seated, Alive, Inside, Owned, Working, Typed
    <3>2. gate = gate \ {r} /\ child = [child EXCEPT ![r] = IF @ = "none" THEN @ ELSE "dead"]
      BY <3>1 DEF Typed
    <3> QED BY <2>2, <3>1, <3>2 DEF Deregister
  <2> QED BY <2>1, <2>2
<1>2. UNCHANGED <<world, reply, owner, unused, adrift, stopped, cancelled, pendingStops, stops>>
  BY DEF Close, Deregister, files, stop
<1>3. Typed'
  BY <1>1, <1>2 DEF Typed, Goto, Places
<1>4. Alone(r)
  BY <1>1, <1>2 DEF Alone, Goto, Typed
<1>5. Seated(r)' /\ Halted(r)'
  <2>1. /\ place'[r] = p /\ (r \in runs' <=> p = "closed" /\ r \in runs) /\ r \notin gate' /\ child'[r] \in {"none", "dead"}
    BY <1>1 DEF Typed, Goto
  <2>2. child[r] \in {"signalled", "dead"} => child'[r] = "dead"
    BY <1>1 DEF Typed
  <2>3. r \in runs
    BY <1>1 DEF Seated, Registered
  <2>4. Seated(r)'
    <3> HIDE DEF Seated
    <3> QED BY <1>2, <2>1, <2>3 DEF Seated, Alive, Working, Childless, Inside, Owned, Registered
  <2>5. Halted(r)'
    BY <1>1, <1>2, <2>1, <2>2 DEF Halted, Working, Over
  <2> QED BY <2>4, <2>5
<1>6. \A q \in Requests : Seated(q)' /\ Halted(q)'
  BY <1>4, <1>5, OthersStay
<1>7. Apart'
  BY <1>1, <1>2 DEF Inv, Apart, Execution, SessionOf
<1>8. /\ \A q \in Requests : place'[q] = "assigning" => place[q] = "assigning"
      /\ \A q \in Requests : place'[q] \in Owned \/ q \in Alive' => place[q] \in Owned \/ q \in Alive
  BY <1>1, <1>2 DEF Goto, Typed, Alive, Owned, Working
<1>9. Ownership'
  BY <1>2, <1>8, NobodyAssigned
<1>10. Accounted'
  BY <1>2, NobodyCounted
<1>11. Cardinality(gate') <= world'.capacity
  <2>1. Cardinality(gate') <= Cardinality(gate) /\ Cardinality(gate') \in Nat
    BY <1>1, GateFinite, FS_Subset, FS_CardinalityType
  <2> QED BY <2>1, <1>2, GateFinite DEF Inv
<1> QED BY <1>2, <1>3, <1>6, <1>7, <1>9, <1>10, <1>11 DEF Inv

-----------------------------------------------------------------------------
(* A stop meets a run at most once, and is counted before.                 *)
LEMMA StopRunStep ==
  ASSUME Inv, NEW r \in Requests, StopRun(r)
  PROVE  Inv'
<1> DEFINE e == Execution(r)
<1> /\ Typed /\ Seated(r) /\ Halted(r)
  BY DEF Inv
<1>1. /\ r \in runs /\ Unlocked
      /\ stops' = [stops EXCEPT ![e] = @ + 1]
      /\ stopped' = [stopped EXCEPT ![r] = IF @ = "no" THEN place[r] ELSE @]
      /\ cancelled' = (IF place[r] \in {"spawning", "idle", "collecting"} \cup Working
                         THEN cancelled \cup {r} ELSE cancelled)
      /\ child' = [child EXCEPT ![r] = IF @ = "alive" THEN "signalled" ELSE @]
      /\ UNCHANGED <<world, place, reply, runs, gate, owner, unused, adrift, pendingStops>>
  BY DEF StopRun, Ask, Signal, files
<1>2. e \in Executions
  <2>1. world.ask \in [Requests -> [execution : Executions, session : Sessions, identity : Identities]]
    BY RuntimeAssumption DEF Typed
  <2> QED BY <2>1 DEF Execution
<1>3. Typed'
  BY <1>1, <1>2 DEF Typed
<1>4. Alone(r)
  BY <1>1 DEF Alone, Typed
<1>5. Seated(r)'
  BY <1>1 DEF Seated, Halted, Typed, Goto, Alive, Working, Childless, Inside, Owned, Over, Registered
<1>6. Halted(r)'
  <2>1. place[r] \in Registered \ {"assigning"}
    BY <1>1 DEF Unlocked, Seated
  <2>2. /\ stopped[r] = "no" => stopped'[r] = place[r]
        /\ stopped[r] # "no" => stopped'[r] = stopped[r]
        /\ child[r] \in {"alive", "signalled"} => child'[r] = "signalled"
        /\ child[r] \in {"none", "dead"} => child'[r] = child[r]
    BY <1>1 DEF Typed
  <2>3. place[r] \in Working => child[r] # "none"
    BY DEF Seated
  <2>4. stopped'[r] # "no"
    BY <2>1, <2>2 DEF Registered, Inside, Owned, Working
  <2>5. /\ place'[r] \in {"new", "known"} => stopped'[r] = "no"
        /\ place'[r] \notin Over => reply'[r] = "none"
    BY <2>1, <1>1 DEF Halted, Registered, Inside, Owned, Working, Over
  <2>6. stopped'[r] \notin {"new", "known", "assigning", "done"}
    BY <2>1, <2>2 DEF Halted, Registered, Inside, Owned, Working
  <2>7. CASE stopped[r] = "no"
    <3>1. stopped'[r] = place[r] /\ place'[r] = place[r] /\ reply'[r] = reply[r]
      BY <2>7, <2>2, <1>1
    <3>2. child[r] \in {"none", "alive", "signalled", "dead"}
      BY DEF Typed
    <3>3. stopped'[r] \in Working => child'[r] \in {"signalled", "dead"}
      BY <3>1, <3>2, <2>2, <2>3
    <3>4. stopped'[r] \in {"queued"} \cup Working => reply'[r] # "completed"
      BY <3>1 DEF Halted, Over, Working
    <3>5. stopped'[r] # "remembered"
      BY <3>1, <2>1 DEF Registered, Inside, Owned, Working
    <3> QED BY <3>1, <3>3, <3>4, <3>5, <2>4, <2>5, <2>6 DEF Halted
  <2>8. CASE stopped[r] # "no"
    <3>1. stopped'[r] = stopped[r] /\ place'[r] = place[r] /\ reply'[r] = reply[r]
      BY <2>8, <2>2, <1>1
    <3>2. child[r] \in {"signalled", "dead"} => child'[r] \in {"signalled", "dead"}
      BY <2>2
    <3> QED BY <3>1, <3>2, <2>4, <2>5, <2>6 DEF Halted
  <2> QED BY <2>7, <2>8
<1>7. \A q \in Requests : Seated(q)' /\ Halted(q)'
  BY <1>4, <1>5, <1>6, OthersStay
<1>8. Apart'
  BY <1>1 DEF Inv, Apart, Execution, SessionOf
<1>9. /\ \A q \in Requests : place'[q] = "assigning" => place[q] = "assigning"
      /\ \A q \in Requests : place'[q] \in Owned \/ q \in Alive' => place[q] \in Owned \/ q \in Alive
  BY <1>1 DEF Typed, Alive
<1>10. Ownership'
  BY <1>1, <1>9, NobodyAssigned
<1>11. Accounted'
  <2> SUFFICES ASSUME NEW d \in Executions
               PROVE  Cardinality(Hit(d))' + Remembered(d)' <= stops'[d]
    BY DEF Accounted
  <2>1. /\ Cardinality(Hit(d)) + Remembered(d) <= stops[d] /\ stops[d] \in Nat
        /\ Remembered(d)' = Remembered(d) /\ Remembered(d) \in {0, 1}
    BY <1>1 DEF Inv, Accounted, Typed, Remembered
  <2>2. IsFiniteSet(Hit(d)) /\ Cardinality(Hit(d)) \in Nat
    BY RuntimeAssumption, FS_Subset, FS_CardinalityType DEF Hit
  <2>3. CASE d = e
    <3>1. Hit(d)' = Hit(d) \cup {r}
      <4>1. stopped'[r] # "no" \/ place[r] = "no"
        BY <1>1 DEF Typed
      <4>2. stopped'[r] # "no"
        BY <4>1, <1>1 DEF Seated, Registered, Inside, Owned, Working
      <4> QED BY <2>3, <1>1, <4>2 DEF Hit, Typed, Execution
    <3>2. /\ Cardinality(Hit(d) \cup {r}) <= Cardinality(Hit(d)) + 1
          /\ Cardinality(Hit(d) \cup {r}) \in Nat
      <4>1. CASE r \in Hit(d)
        <5>1. Hit(d) \cup {r} = Hit(d)
          BY <4>1
        <5>2. Cardinality(Hit(d)) <= Cardinality(Hit(d)) + 1
          BY <2>2
        <5>3. Cardinality(Hit(d) \cup {r}) = Cardinality(Hit(d))
          BY <5>1, Zenon
        <5> QED BY <5>3, <5>2, <2>2
      <4>2. CASE r \notin Hit(d)
        <5>1. Cardinality(Hit(d) \cup {r}) = Cardinality(Hit(d)) + 1
          BY <4>2, <2>2, FS_AddElement
        <5> QED BY <5>1, <2>2
      <4> QED BY <4>1, <4>2
    <3>3. stops'[d] = stops[d] + 1
      BY <2>3, <1>1, <1>2 DEF Typed
    <3> QED BY <3>1, <3>2, <3>3, <2>1, <2>2
  <2>4. CASE d # e
    <3>1. Hit(d)' = Hit(d) /\ stops'[d] = stops[d]
      BY <2>4, <1>1 DEF Hit, Typed, Execution
    <3> QED BY <3>1, <2>1
  <2> QED BY <2>3, <2>4
<1> QED BY <1>1, <1>3, <1>7, <1>8, <1>10, <1>11 DEF Inv

LEMMA OutsideSteps ==
  ASSUME Inv,
         \/ \E e \in Executions : StopUnknown(e) \/ ForgetStop(e)
         \/ \E s \in Sessions, i \in Identities : CreateSession(s, i)
         \/ UNCHANGED runtimeVars
  PROVE  Inv'
<1>1. UNCHANGED <<world, place, reply, runs, gate, child, owner, unused, adrift, stopped, cancelled>>
  BY DEF StopUnknown, ForgetStop, CreateSession, runtimeVars, rest, files, stop
<1>2. Typed /\ \A r \in Requests : Seated(r) /\ Halted(r)
  BY DEF Inv
<1>3. PICK gone, come \in SUBSET Executions :
        /\ pendingStops' = (pendingStops \cup come) \ gone
        /\ stops' \in [Executions -> Nat]
        /\ \A d \in Executions : stops'[d] >= stops[d] /\ (d \in come => stops'[d] >= stops[d] + 1)
  <2>1. CASE \E e \in Executions : StopUnknown(e)
    <3> PICK e \in Executions : StopUnknown(e)
      BY <2>1
    <3>1. pendingStops' = (pendingStops \cup {e}) \ {} /\ stops' = [stops EXCEPT ![e] = @ + 1]
      BY DEF StopUnknown, Ask
    <3>2. stops' \in [Executions -> Nat]
      BY <3>1, <1>2 DEF Typed
    <3>3. \A d \in Executions : stops'[d] >= stops[d] /\ (d \in {e} => stops'[d] >= stops[d] + 1)
      BY <3>1, <1>2 DEF Typed
    <3> QED BY <3>1, <3>2, <3>3
  <2>2. CASE \E e \in Executions : ForgetStop(e)
    <3> PICK e \in Executions : ForgetStop(e)
      BY <2>2
    <3>1. pendingStops' = (pendingStops \cup {}) \ {e} /\ stops' = stops
      BY DEF ForgetStop
    <3>2. stops' \in [Executions -> Nat] /\ \A d \in Executions : stops'[d] >= stops[d]
      BY <3>1, <1>2 DEF Typed
    <3> WITNESS {e} \in SUBSET Executions, {} \in SUBSET Executions
    <3> QED BY <3>1, <3>2
  <2>3. CASE UNCHANGED <<pendingStops, stops>>
    <3>1. pendingStops' = (pendingStops \cup {}) \ {}
      BY <2>3
    <3>2. stops' \in [Executions -> Nat] /\ \A d \in Executions : stops'[d] >= stops[d]
      BY <2>3, <1>2 DEF Typed
    <3> WITNESS {} \in SUBSET Executions, {} \in SUBSET Executions
    <3> QED BY <3>1, <3>2
  <2> QED BY <2>1, <2>2, <2>3 DEF CreateSession, runtimeVars, rest, stop
<1>4. Typed'
  BY <1>1, <1>2, <1>3 DEF Typed
<1>5. \A r \in Requests : Seated(r)' /\ Halted(r)'
  BY <1>1, <1>2 DEF Seated, Halted, Alive
<1>6. Apart'
  BY <1>1 DEF Inv, Apart, Execution, SessionOf
<1>7. Ownership'
  BY <1>1, NobodyAssigned DEF Alive
<1>8. Accounted'
  <2> SUFFICES ASSUME NEW d \in Executions
               PROVE  Cardinality(Hit(d))' + Remembered(d)' <= stops'[d]
    BY DEF Accounted
  <2>1. Hit(d)' = Hit(d)
    BY <1>1 DEF Hit, Execution
  <2>2. Cardinality(Hit(d)) \in Nat
    BY RuntimeAssumption, FS_Subset, FS_CardinalityType DEF Hit
  <2>3. Cardinality(Hit(d)) + Remembered(d) <= stops[d] /\ stops[d] \in Nat /\ stops'[d] \in Nat
    BY <1>2, <1>3 DEF Inv, Accounted, Typed
  <2>4. Remembered(d)' <= Remembered(d) + (stops'[d] - stops[d]) /\ Remembered(d)' \in Nat
    BY <1>3, <2>3 DEF Remembered
  <2> QED BY <2>1, <2>2, <2>3, <2>4 DEF Remembered
<1> QED BY <1>1, <1>4, <1>5, <1>6, <1>7, <1>8 DEF Inv

-----------------------------------------------------------------------------
LEMMA InvInitially ==
  ASSUME Init
  PROVE  Inv
<1>1. Typed
  BY DEF Init, Typed, Places, Replies
<1>2. \A r \in Requests : Seated(r) /\ Halted(r)
  BY DEF Init, Seated, Halted, Alive, Working, Childless, Inside, Owned, Over, Registered
<1>3. Apart
  BY DEF Init, Apart
<1>4. Ownership
  BY DEF Init, Ownership, Alive, Owned, Working
<1>5. Accounted
  <2> SUFFICES ASSUME NEW d \in Executions
               PROVE  Cardinality(Hit(d)) + Remembered(d) <= stops[d]
    BY DEF Accounted
  <2>1. Hit(d) = {} /\ Remembered(d) = 0 /\ stops[d] = 0
    BY DEF Init, Hit, Remembered
  <2> QED BY <2>1, FS_EmptySet
<1>6. Cardinality(gate) <= world.capacity
  <2>1. gate = {} /\ world.capacity \in Nat
    BY RuntimeAssumption DEF Init
  <2> QED BY <2>1, FS_EmptySet
<1> QED BY <1>1, <1>2, <1>3, <1>4, <1>5, <1>6 DEF Inv

LEMMA InvNext ==
  ASSUME Inv, [Next]_runtimeVars
  PROVE  Inv'
<1>1. ASSUME NEW r \in Requests, Begin(r)
      PROVE  Inv'
  BY <1>1, WaitSteps, RegisterStep DEF Begin
<1>2. ASSUME NEW r \in Requests, Wait(r)
      PROVE  Inv'
  BY <1>2, WaitSteps, EnterStep, LookStep, AssignStep DEF Wait
<1>3. ASSUME NEW r \in Requests, Start(r) \/ TurnEnds(r) \/ Exit(r)
      PROVE  Inv'
  BY <1>3, ChildSteps
<1>4. ASSUME NEW r \in Requests, Finish(r)
      PROVE  Inv'
  BY <1>4, ResultSteps, LeaveSteps DEF Finish
<1>5. ASSUME NEW r \in Requests, StopRun(r)
      PROVE  Inv'
  BY <1>5, StopRunStep
<1>6. ASSUME NEW r \in Requests, Cancel(r) \/ AssignLate(r)
      PROVE  Inv'
  BY <1>6, CancelSteps, AssignStep
<1> QED BY <1>1, <1>2, <1>3, <1>4, <1>5, <1>6, OutsideSteps DEF Next

LEMMA Invariance == Spec => []Inv
<1>1. Init => Inv
  BY InvInitially
<1>2. Inv /\ [Next]_runtimeVars => Inv'
  BY InvNext
<1> QED BY <1>1, <1>2, PTL DEF Spec

(* At every moment the children that live are no more than max_concurrency,*)
(* of different executions and sessions, and different users in different  *)
(* workspaces as long as no owner is assigned without the lock, however    *)
(* many requests, sessions and user ids there are, whichever sessions are  *)
(* evicted and wherever the departure of a client cuts a run short         *)
(* (server.py:264-359, 406-423, 555-558, 643-695).                         *)
THEOREM ChildrenAreIsolated == Spec => []Isolation
<1>1. Inv => Isolation
  <2> SUFFICES ASSUME Inv PROVE Isolation
    OBVIOUS
  <2>1. Alive \subseteq gate
    BY DEF Inv, Seated, Alive
  <2>2. Cardinality(Alive) <= world.capacity
    BY <2>1, GateFinite, FS_Subset, FS_CardinalityType DEF Inv
  <2>3. Alive \subseteq runs
    BY <2>1 DEF Inv, Seated, Alive, Registered
  <2>4. \A q, r \in Alive : q # r => Execution(q) # Execution(r) /\ SessionOf(q) # SessionOf(r)
    BY <2>3 DEF Inv, Apart
  <2>5. \A r \in Alive : IdentityOf(r) \in Identities
    BY RuntimeAssumption DEF Inv, Typed, IdentityOf, Alive
  <2>6. \A q, r \in Alive :
          owner[IdentityOf(q)] = owner[IdentityOf(r)] /\ adrift = {} => IdentityOf(q) = IdentityOf(r)
    BY <2>5 DEF Inv, Ownership, Alive
  <2> QED BY <2>2, <2>4, <2>6 DEF Isolation
<1> QED BY <1>1, Invariance, PTL

(* A run that was stopped where it waits or works never completes, and no  *)
(* execution has more cancelled runs than calls of stop, however often it  *)
(* is retried (server.py:280-298, 361-372).                                *)
THEOREM StopsAreAccounted == Spec => []StopsAccounted
<1>1. Inv => StopsAccounted
  <2> SUFFICES ASSUME Inv PROVE StopsAccounted
    OBVIOUS
  <2>1. ASSUME NEW r \in Requests, reply[r] = "completed"
        PROVE  stopped[r] \in {"no", "owner", "spawning", "idle", "collecting", "leaving", "closed"}
    <3>1. Halted(r) /\ stopped[r] \in {"no", "remembered"} \cup Places
      BY DEF Inv, Typed
    <3> QED BY <2>1, <3>1 DEF Halted, Places, Working
  <2>2. ASSUME NEW e \in Executions
        PROVE  Cardinality({r \in Requests : Execution(r) = e /\ reply[r] = "cancelled"}) <= stops[e]
    <3> DEFINE C == {r \in Requests : Execution(r) = e /\ reply[r] = "cancelled"}
    <3>1. C \subseteq Hit(e) /\ Hit(e) \subseteq Requests
      BY DEF Inv, Halted, Hit
    <3>2. IsFiniteSet(Hit(e)) /\ Cardinality(Hit(e)) \in Nat
      BY RuntimeAssumption, <3>1, FS_Subset, FS_CardinalityType
    <3>3. Cardinality(C) <= Cardinality(Hit(e)) /\ Cardinality(C) \in Nat
      BY <3>1, <3>2, FS_Subset, FS_CardinalityType
    <3>4. Cardinality(Hit(e)) + Remembered(e) <= stops[e] /\ Remembered(e) \in {0, 1} /\ stops[e] \in Nat
      BY DEF Inv, Accounted, Typed, Remembered
    <3> QED BY <3>2, <3>3, <3>4
  <2> QED BY <2>1, <2>2 DEF StopsAccounted
<1> QED BY <1>1, Invariance, PTL

=============================================================================

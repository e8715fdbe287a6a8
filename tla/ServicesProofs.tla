---------------------------- MODULE ServicesProofs ----------------------------
(* What Services says of its components, proved for every number of turns, *)
(* runs, calls, clients, queries and so on; one section per component, for *)
(* they share no state.                                                    *)
EXTENDS Services, Sequences, FiniteSetTheorems, TLAPS

-----------------------------------------------------------------------------
(* AgentMemory: the last turns of a conversation.                          *)
(* A write keeps the last MaxTurns turns of what was read and the new one, *)
(* so that the proof is about cutting lists: cutting twice is cutting once *)
(* and what is appended to a cut list is what is appended to the list.     *)

(* Cutting a list ...                                                      *)
LEMMA LastIs ==
  ASSUME Memory!MemorySetting, NEW s \in Seq(Nat)
  PROVE  /\ Memory!Last(s) \in Seq(Nat)
         /\ Len(Memory!Last(s)) = IF Len(s) < MaxTurns THEN Len(s) ELSE MaxTurns
         /\ \A i \in 1..Len(Memory!Last(s)) :
              Memory!Last(s)[i] = s[Len(s) - Len(Memory!Last(s)) + i]
<1> DEFINE from == IF Len(s) > MaxTurns THEN Len(s) - MaxTurns + 1 ELSE 1
<1>0. Len(s) \in Nat /\ MaxTurns \in Nat \ {0}
  BY DEF Memory!MemorySetting
<1>1. from \in Nat /\ from >= 1 /\ from <= Len(s) + 1 /\ Len(s) \in Nat
  BY <1>0
<1>2. Memory!Last(s) = SubSeq(s, from, Len(s))
  BY DEF Memory!Last
<1>3. Len(Memory!Last(s)) = Len(s) - from + 1
  BY <1>1, <1>2
<1>4. \A i \in 1..Len(Memory!Last(s)) : Memory!Last(s)[i] = s[from + i - 1]
  BY <1>1, <1>2, <1>3
<1>5. Memory!Last(s) \in Seq(Nat)
  BY <1>1, <1>2
<1>6. /\ Len(Memory!Last(s)) = IF Len(s) < MaxTurns THEN Len(s) ELSE MaxTurns
      /\ from = Len(s) - Len(Memory!Last(s)) + 1
  <2>1. CASE Len(s) > MaxTurns
    <3>1. from = Len(s) - MaxTurns + 1 /\ Len(Memory!Last(s)) = Len(s) - from + 1
      BY <2>1, <1>3
    <3>2. ~(Len(s) < MaxTurns)
      BY <2>1, <1>0
    <3>. HIDE DEF from
    <3>3. Len(Memory!Last(s)) = MaxTurns
      BY <3>1, <1>0
    <3>4. from = Len(s) - Len(Memory!Last(s)) + 1
      BY <3>1, <3>3
    <3>. QED BY <3>2, <3>3, <3>4
  <2>2. CASE ~(Len(s) > MaxTurns)
    <3>1. from = 1 /\ Len(Memory!Last(s)) = Len(s)
      BY <2>2, <1>0, <1>3
    <3>2. Len(s) < MaxTurns \/ Len(s) = MaxTurns
      BY <2>2, <1>0
    <3>. HIDE DEF from
    <3>. QED BY <1>0, <3>1, <3>2
  <2>. QED BY <2>1, <2>2
<1>. HIDE DEF from
<1>7. ASSUME NEW i \in 1..Len(Memory!Last(s))
      PROVE  from + i - 1 = Len(s) - Len(Memory!Last(s)) + i
  BY <1>0, <1>3, <1>6, <1>7
<1>. QED BY <1>4, <1>5, <1>6, <1>7

LEMMA SameList ==
  ASSUME NEW a \in Seq(Nat), NEW b \in Seq(Nat), Len(a) = Len(b), \A i \in 1..Len(a) : a[i] = b[i]
  PROVE  a = b
OBVIOUS

LEMMA LastOfLast ==
  ASSUME Memory!MemorySetting, NEW s \in Seq(Nat)
  PROVE  Memory!Last(Memory!Last(s)) = Memory!Last(s)
<1> DEFINE l == Memory!Last(s)
           m == Memory!Last(l)
<1>1. l \in Seq(Nat) /\ Len(l) = IF Len(s) < MaxTurns THEN Len(s) ELSE MaxTurns
  BY LastIs
<1>2. m \in Seq(Nat) /\ Len(m) = IF Len(l) < MaxTurns THEN Len(l) ELSE MaxTurns
  BY <1>1, LastIs
<1>3. \A i \in 1..Len(m) : m[i] = l[Len(l) - Len(m) + i]
  BY <1>1, LastIs
<1>4. Len(m) = Len(l) /\ Len(l) \in Nat
  BY <1>1, <1>2 DEF Memory!MemorySetting
<1>. HIDE DEF l, m
<1>5. \A i \in 1..Len(m) : m[i] = l[i]
  BY <1>3, <1>4
<1>6. m = l
  BY <1>1, <1>2, <1>4, <1>5, SameList
<1>. QED BY <1>6 DEF l, m

(* ... and appending to it go together.                                    *)
LEMMA LastOfAppend ==
  ASSUME Memory!MemorySetting, NEW s \in Seq(Nat), NEW r \in Seq(Nat), NEW t \in Nat,
         Memory!Last(s) = Memory!Last(r)
  PROVE  Memory!Last(Append(s, t)) = Memory!Last(Append(r, t))
<1> DEFINE a == Memory!Last(Append(s, t))
           b == Memory!Last(Append(r, t))
           m == Len(Memory!Last(s))
<1>1. /\ m \in Nat /\ Len(s) \in Nat /\ Len(r) \in Nat /\ MaxTurns \in Nat \ {0}
      /\ m = IF Len(s) < MaxTurns THEN Len(s) ELSE MaxTurns
      /\ m = IF Len(r) < MaxTurns THEN Len(r) ELSE MaxTurns
  <2>1. m = IF Len(s) < MaxTurns THEN Len(s) ELSE MaxTurns
    BY LastIs
  <2>2. m = IF Len(r) < MaxTurns THEN Len(r) ELSE MaxTurns
    BY LastIs
  <2>3. Len(s) \in Nat /\ Len(r) \in Nat /\ MaxTurns \in Nat \ {0}
    BY DEF Memory!MemorySetting
  <2>. HIDE DEF m
  <2>. QED BY <2>1, <2>2, <2>3
<1>2. \A i \in 1..m : s[Len(s) - m + i] = r[Len(r) - m + i]
  <2>1. \A i \in 1..m : Memory!Last(s)[i] = s[Len(s) - m + i]
    BY LastIs
  <2>2. \A i \in 1..m : Memory!Last(r)[i] = r[Len(r) - m + i]
    BY LastIs
  <2>. QED BY <2>1, <2>2
<1>3. /\ a \in Seq(Nat) /\ b \in Seq(Nat)
      /\ Len(a) = IF Len(s) + 1 < MaxTurns THEN Len(s) + 1 ELSE MaxTurns
      /\ Len(b) = IF Len(r) + 1 < MaxTurns THEN Len(r) + 1 ELSE MaxTurns
      /\ \A i \in 1..Len(a) : a[i] = Append(s, t)[Len(s) + 1 - Len(a) + i]
      /\ \A i \in 1..Len(b) : b[i] = Append(r, t)[Len(r) + 1 - Len(b) + i]
  <2> DEFINE p == Append(s, t)
             q == Append(r, t)
  <2>1. p \in Seq(Nat) /\ Len(p) = Len(s) + 1
    OBVIOUS
  <2>2. q \in Seq(Nat) /\ Len(q) = Len(r) + 1
    OBVIOUS
  <2>. HIDE DEF p, q
  <2>3. /\ a \in Seq(Nat)
        /\ Len(a) = IF Len(s) + 1 < MaxTurns THEN Len(s) + 1 ELSE MaxTurns
        /\ \A i \in 1..Len(a) : a[i] = p[Len(s) + 1 - Len(a) + i]
    <3>1. a = Memory!Last(p)
      BY DEF p
    <3>2. /\ Memory!Last(p) \in Seq(Nat)
          /\ Len(Memory!Last(p)) = IF Len(p) < MaxTurns THEN Len(p) ELSE MaxTurns
          /\ \A i \in 1..Len(Memory!Last(p)) :
               Memory!Last(p)[i] = p[Len(p) - Len(Memory!Last(p)) + i]
      BY <2>1, LastIs
    <3>3. a \in Seq(Nat) /\ Len(a) = IF Len(p) < MaxTurns THEN Len(p) ELSE MaxTurns
      BY <3>1, <3>2
    <3>4. ASSUME NEW i \in 1..Len(a) PROVE a[i] = p[Len(s) + 1 - Len(a) + i]
      <4>1. a[i] = p[Len(p) - Len(a) + i]
        BY <3>1, <3>2, <3>4
      <4>. QED BY <4>1, <2>1
    <3>. HIDE DEF a
    <3>. QED BY <2>1, <3>3, <3>4
  <2>4. /\ b \in Seq(Nat)
        /\ Len(b) = IF Len(r) + 1 < MaxTurns THEN Len(r) + 1 ELSE MaxTurns
        /\ \A i \in 1..Len(b) : b[i] = q[Len(r) + 1 - Len(b) + i]
    <3>1. b = Memory!Last(q)
      BY DEF q
    <3>2. /\ Memory!Last(q) \in Seq(Nat)
          /\ Len(Memory!Last(q)) = IF Len(q) < MaxTurns THEN Len(q) ELSE MaxTurns
          /\ \A i \in 1..Len(Memory!Last(q)) :
               Memory!Last(q)[i] = q[Len(q) - Len(Memory!Last(q)) + i]
      BY <2>2, LastIs
    <3>3. b \in Seq(Nat) /\ Len(b) = IF Len(q) < MaxTurns THEN Len(q) ELSE MaxTurns
      BY <3>1, <3>2
    <3>4. ASSUME NEW i \in 1..Len(b) PROVE b[i] = q[Len(r) + 1 - Len(b) + i]
      <4>1. b[i] = q[Len(q) - Len(b) + i]
        BY <3>1, <3>2, <3>4
      <4>. QED BY <4>1, <2>2
    <3>. HIDE DEF b
    <3>. QED BY <2>2, <3>3, <3>4
  <2>. HIDE DEF a, b
  <2>. QED BY <2>3, <2>4 DEF p, q
<1>. HIDE DEF a, b, m
<1>4. Len(a) = Len(b) /\ Len(a) <= m + 1 /\ Len(a) >= 1 /\ Len(a) \in Nat
  BY <1>1, <1>3, SMTT(30)
<1>5. ASSUME NEW i \in 1..Len(a) PROVE a[i] = b[i]
  <2>1. CASE i = Len(a)
    <3>1. Append(s, t)[Len(s) + 1] = t /\ Append(r, t)[Len(r) + 1] = t
      OBVIOUS
    <3>2. Len(s) + 1 - Len(a) + i = Len(s) + 1 /\ Len(r) + 1 - Len(b) + i = Len(r) + 1
      BY <2>1, <1>1, <1>4, <1>5
    <3>. QED BY <3>1, <3>2, <1>3, <1>4, <1>5
  <2>2. CASE i < Len(a)
    <3> DEFINE j == m + 1 - Len(a) + i
    <3>0. i \in Nat \ {0} /\ i < Len(a) /\ m <= Len(s) /\ m <= Len(r)
      BY <2>2, <1>1, <1>4, <1>5
    <3>1. j \in 1..m /\ Len(s) - m + j \in 1..Len(s) /\ Len(r) - m + j \in 1..Len(r)
      BY <3>0, <1>1, <1>4, SMTT(30)
    <3>2. /\ Append(s, t)[Len(s) - m + j] = s[Len(s) - m + j]
          /\ Append(r, t)[Len(r) - m + j] = r[Len(r) - m + j]
      BY <3>1
    <3>3. Len(s) - m + j = Len(s) + 1 - Len(a) + i /\ Len(r) - m + j = Len(r) + 1 - Len(b) + i
      <4>1. /\ m \in Nat /\ Len(s) \in Nat /\ Len(r) \in Nat /\ Len(a) \in Nat /\ i \in Nat
            /\ Len(b) = Len(a)
        BY <3>0, <1>1, <1>4
      <4>. QED BY <4>1
    <3>. HIDE DEF j
    <3>4. s[Len(s) - m + j] = r[Len(r) - m + j]
      BY <3>1, <1>2
    <3>. QED BY <3>2, <3>3, <3>4, <1>3, <1>4, <1>5
  <2>. QED BY <2>1, <2>2, <1>4, <1>5
<1>6. a = b
  BY <1>3, <1>4, <1>5, SameList
<1>. QED BY <1>6 DEF a, b

(* What a turn has read is what is stored as long as nobody has changed    *)
(* it, and what is stored ends like what was appended.                     *)
MemoryInv ==
  /\ stored \in Seq(Nat) /\ legacy \in Seq(Nat) /\ log \in Seq(Nat)
  /\ phase \in [Turns -> {"idle", "read", "migrating", "done", "failed"}]
  /\ buffer \in [Turns -> Seq(Nat)]
  /\ stale \subseteq Turns
  /\ \A t \in Turns \ stale : phase[t] = "read" => buffer[t] = stored
  /\ ~overlap => Memory!Last(stored) = Memory!Last(log)

LEMMA MemoryInit == Memory!MemorySetting /\ Memory!Init => MemoryInv
<1>. SUFFICES ASSUME Memory!MemorySetting, Memory!Init PROVE MemoryInv
  OBVIOUS
<1>1. <<>> \in Seq(Nat)
  OBVIOUS
<1>2. legacy \in {<<>>, Legacy}
  BY DEF Memory!Init
<1>3. legacy \in Seq(Nat)
  BY <1>1, <1>2 DEF Memory!MemorySetting
<1>. QED BY <1>1, <1>3 DEF Memory!Init, MemoryInv

(* Who has read the list before it is written is stale after.              *)
LEMMA Overwritten ==
  ASSUME Memory!MemorySetting, MemoryInv, NEW t \in Turns \cup {0}, NEW list \in Seq(Nat),
         Memory!Write(t, list), NEW u \in Turns \ stale', u # t
  PROVE  phase[u] # "read"
BY DEF MemoryInv, Memory!Write, Memory!Busy

LEMMA MemoryNext ==
  ASSUME Memory!MemorySetting, MemoryInv, [Memory!Next]_(Memory!memoryVars)
  PROVE  MemoryInv'
<1>1. CASE UNCHANGED Memory!memoryVars
  BY <1>1 DEF Memory!memoryVars, MemoryInv
<1>2. ASSUME NEW t \in Turns, Memory!Get(t) PROVE MemoryInv'
  BY <1>2 DEF Memory!Get, Memory!Move, Memory!Migrates, MemoryInv
<1>3. ASSUME NEW t \in Turns, Memory!SetMigrated(t) PROVE MemoryInv'
  <2>1. stored' = buffer[t] /\ log' = buffer[t] /\ buffer[t] \in Seq(Nat)
    BY <1>3 DEF Memory!SetMigrated, Memory!Write, MemoryInv
  <2>2. /\ phase' = [phase EXCEPT ![t] = "read"] /\ UNCHANGED <<legacy, buffer>>
        /\ stale' = (stale \cup Memory!Busy) \ {t}
    BY <1>3 DEF Memory!SetMigrated, Memory!Move, Memory!Write
  <2>3. \A u \in Turns \ stale' : phase'[u] = "read" => buffer'[u] = stored'
    <3>1. Memory!Write(t, buffer[t])
      BY <1>3 DEF Memory!SetMigrated
    <3>. QED BY <2>1, <2>2, <3>1, Overwritten DEF MemoryInv
  <2>. QED BY <2>1, <2>2, <2>3 DEF MemoryInv, Memory!Busy
<1>4. ASSUME NEW t \in Turns, Memory!Set(t) PROVE MemoryInv'
  <2> DEFINE list == Append(buffer[t], t)
  <2>1. buffer[t] \in Seq(Nat) /\ t \in Nat /\ list \in Seq(Nat) /\ Memory!Last(list) \in Seq(Nat)
    <3>1. buffer[t] \in Seq(Nat) /\ t \in Nat
      BY <1>4 DEF MemoryInv, Memory!MemorySetting
    <3>2. list \in Seq(Nat)
      BY <3>1
    <3>. QED BY <3>1, <3>2, LastIs
  <2>2. PICK outcome \in {"done", "failed"} :
          /\ phase[t] = "read" /\ phase' = [phase EXCEPT ![t] = outcome]
          /\ Memory!Write(t, Memory!Last(list))
          /\ log' = Append(log, t) /\ UNCHANGED legacy
          /\ buffer' = [buffer EXCEPT ![t] = <<>>]
    BY <1>4 DEF Memory!Set, Memory!Move, Memory!Forget
  <2>3. /\ stored' = Memory!Last(list) /\ stale' = (stale \cup Memory!Busy) \ {t}
        /\ overlap' = (overlap \/ t \in stale)
    BY <2>2 DEF Memory!Write
  <2>. HIDE DEF list
  <2>4. \A u \in Turns \ stale' : phase'[u] = "read" => buffer'[u] = stored'
    BY <2>1, <2>2, Overwritten DEF MemoryInv
  <2>5. ~overlap' => Memory!Last(stored') = Memory!Last(log')
    <3>1. SUFFICES ASSUME ~overlap, t \notin stale
                   PROVE  Memory!Last(stored') = Memory!Last(log')
      BY <2>3
    <3>2. stored = buffer[t] /\ Memory!Last(stored) = Memory!Last(log)
      BY <2>2, <3>1 DEF MemoryInv
    <3>3. Memory!Last(list) = Memory!Last(Append(log, t))
      BY <2>1, <3>2, LastOfAppend DEF MemoryInv, list
    <3>. QED BY <2>1, <2>2, <2>3, <3>3, LastOfLast
  <2>6. Append(log, t) \in Seq(Nat) /\ <<>> \in Seq(Nat)
    BY <2>1 DEF MemoryInv
  <2>. QED BY <2>1, <2>2, <2>3, <2>4, <2>5, <2>6 DEF MemoryInv, Memory!Busy
<1>5. ASSUME NEW t \in Turns, Memory!GiveUp(t) PROVE MemoryInv'
  BY <1>5 DEF Memory!GiveUp, Memory!Move, Memory!Forget, MemoryInv
<1>6. ASSUME NEW list \in Seq(Nat), NEW old \in {legacy, <<>>}, Memory!Change(list, old)
      PROVE  MemoryInv'
  <2>1. /\ Memory!Write(0, list) /\ log' = list /\ legacy' \in Seq(Nat)
        /\ UNCHANGED <<phase, buffer>>
    <3>1. <<>> \in Seq(Nat)
      OBVIOUS
    <3>. QED BY <1>6, <3>1 DEF Memory!Change, MemoryInv
  <2>2. stored' = list /\ stale' = (stale \cup Memory!Busy) \ {0}
    BY <2>1 DEF Memory!Write
  <2>3. \A u \in Turns \ stale' : phase'[u] = "read" => buffer'[u] = stored'
    BY <2>1, Overwritten DEF Memory!MemorySetting
  <2>. QED BY <2>1, <2>2, <2>3 DEF MemoryInv, Memory!Busy
<1>e. <<>> \in Seq(Nat)
  OBVIOUS
<1>7. CASE Memory!Delete
  BY <1>6, <1>7, <1>e DEF Memory!Delete
<1>8. CASE Memory!Clear
  BY <1>6, <1>8, <1>e DEF Memory!Clear
<1>9. CASE Memory!Put
  <2>1. PICK t \in Turns : Memory!Change(<<t>>, legacy)
    BY <1>9 DEF Memory!Put
  <2>2. <<t>> \in Seq(Nat)
    BY DEF Memory!MemorySetting
  <2>. QED BY <2>1, <2>2, <1>6
<1>. QED
  BY <1>1, <1>2, <1>3, <1>4, <1>5, <1>7, <1>8, <1>9 DEF Memory!Next

(* What load returns is the end of what was appended, in its order, unless *)
(* an append overlapped another write of the list: cutting it at           *)
(* MaxTurns at every write loses nothing that a later load would return    *)
(* (store.py:279-310).                                                     *)
THEOREM HistoryIsTheLog == Memory!Spec => []HistoryIsLog
<1>0. Memory!MemorySetting
  BY MemoryAssumption
<1>1. MemoryInv => HistoryIsLog
  <2>1. SUFFICES ASSUME MemoryInv, ~overlap PROVE HistoryIsLog
    BY DEF Memory!HistoryIsLog, HistoryIsLog
  <2>2. Memory!Load = Memory!Last(log) /\ log \in Seq(Nat)
    BY <2>1 DEF MemoryInv, Memory!Load
  <2>. QED BY <1>0, <2>2, LastIs DEF Memory!HistoryIsLog, HistoryIsLog, Memory!MemorySetting
<1>. QED BY <1>0, <1>1, MemoryInit, MemoryNext, PTL DEF Memory!Spec

-----------------------------------------------------------------------------
(* CapabilityClients: the tokens of the runs' clients.                     *)

(* One call is under way at a time.                                        *)
Idle(c) == step[c] \notin {"begun", "waiting", "ready", "sent"}
OneCall == \A c, d \in Calls : ~Idle(c) /\ ~Idle(d) => c = d

(* Without a renewal in the moment it is closed, a client has no token any *)
(* more and asks for one with none; the answer to a call that was under    *)
(* way may bring one, but then nothing is left to be sent.                 *)
Steps == {"idle", "begun", "waiting", "ready", "sent", "over"}

ClientInv ==
  /\ step \in [Calls -> Steps] /\ DOMAIN carried = Calls
  /\ OneCall
  /\ ~shut => crossing = "nothing" /\ ~lateCall
  /\ shut /\ crossing # "renewal" => renewal = Nil \/ renewal.with = Nil
  /\ shut /\ crossing = "nothing" =>
       token = Nil /\ \A c \in Calls : step[c] = "sent" => carried[c] = Nil
  /\ shut /\ crossing = "call" => \A c \in Calls : Idle(c) \/ (step[c] = "sent" /\ token = Nil)
  /\ lateCall => crossing = "renewal"
  /\ host = "deepseek" => crossing = "nothing"
  /\ shut /\ host = "deepseek" => \A c \in Calls : Idle(c)
  /\ shut \in BOOLEAN /\ crossing \in {"nothing", "call", "renewal"} /\ lateCall \in BOOLEAN

LEMMA ClientInit == Tokens!Init => ClientInv
BY DEF Tokens!Init, ClientInv, OneCall, Idle, Steps

(* A step of a call that changes nothing but where the call is.            *)
LEMMA CallStep ==
  ASSUME ClientInv, NEW c \in Calls, NEW w \in {"waiting", "ready", "sent", "over"},
         ~Idle(c), step' = [step EXCEPT ![c] = w],
         UNCHANGED <<host, token, shut, carried, crossing, lateCall>>,
         renewal' = renewal \/ renewal' = Nil \/ (shut => renewal'.with \in {Nil, token}),
         w = "sent" => UNCHANGED step,
         w # "over" => step[c] # "sent" \/ UNCHANGED step
  PROVE  ClientInv'
<1>1. /\ step' \in [Calls -> Steps] /\ step'[c] = w
      /\ \A d \in Calls \ {c} : step'[d] = step[d]
  BY DEF ClientInv, Steps
<1>2. OneCall'
  BY <1>1 DEF ClientInv, OneCall, Idle
<1>3. shut /\ crossing = "call" => step[c] = "sent" /\ token = Nil
  BY DEF ClientInv
<1>4. shut /\ crossing # "renewal" => token = Nil
  BY <1>3 DEF ClientInv
<1>5. shut' /\ crossing' # "renewal" => renewal' = Nil \/ renewal'.with = Nil
  BY <1>4 DEF ClientInv
<1>6. shut' /\ host' = "deepseek" => \A d \in Calls : Idle(d)'
  BY DEF ClientInv
<1>7. shut' /\ crossing' = "call" => \A d \in Calls : Idle(d)' \/ (step'[d] = "sent" /\ token' = Nil)
  BY <1>1, <1>3 DEF ClientInv, Idle
<1>8. shut' /\ crossing' = "nothing" =>
        token' = Nil /\ \A d \in Calls : step'[d] = "sent" => carried'[d] = Nil
  BY <1>1 DEF ClientInv
<1>. QED BY <1>1, <1>2, <1>5, <1>6, <1>7, <1>8 DEF ClientInv

LEMMA ClientNext ==
  ASSUME Tokens!ClientSetting, ClientInv, [Tokens!Next]_(Tokens!clientVars)
  PROVE  ClientInv'
<1>1. CASE UNCHANGED Tokens!clientVars
  BY <1>1 DEF Tokens!clientVars, ClientInv, OneCall, Idle, Steps
<1>2. ASSUME NEW c \in Calls, Tokens!Call(c) PROVE ClientInv'
  <2>1. CASE Tokens!Begin(c)
    <3>1. /\ ~shut /\ step' = [step EXCEPT ![c] = "begun"]
          /\ \A d \in Calls : Idle(d)
          /\ UNCHANGED <<host, token, shut, renewal, carried, crossing, lateCall>>
      BY <2>1 DEF Tokens!Begin, Tokens!Calling, Idle
    <3>. QED BY <3>1 DEF ClientInv, OneCall, Idle, Steps
  <2>2. CASE Tokens!NeedNotRenew(c)
    BY <2>2, CallStep DEF Tokens!NeedNotRenew, Idle
  <2>3. CASE Tokens!ClosedMeanwhile(c)
    <3>1. CASE Tokens!Valid(token)
      BY <2>3, <3>1, CallStep DEF Tokens!ClosedMeanwhile, Idle
    <3>2. CASE ~Tokens!Valid(token)
      BY <2>3, <3>2, CallStep DEF Tokens!ClosedMeanwhile, Idle
    <3>. QED BY <3>1, <3>2
  <2>4. CASE Tokens!Join(c)
    BY <2>4, CallStep DEF Tokens!Join, Idle
  <2>5. CASE Tokens!RenewFirst(c)
    <3>1. renewal'.with \in {Nil, token}
      BY <2>5 DEF Tokens!RenewFirst, Tokens!Ask, Tokens!Presented
    <3>. QED BY <2>5, <3>1, CallStep DEF Tokens!RenewFirst, Idle
  <2>6. CASE Tokens!Send(c)
    <3>1. /\ step[c] = "ready" /\ step' = [step EXCEPT ![c] = "sent"]
          /\ carried' = [carried EXCEPT ![c] = IF alive THEN token ELSE Nil]
          /\ lateCall' = (lateCall \/ (shut /\ token # Nil))
          /\ UNCHANGED <<host, token, shut, renewal, crossing>>
      BY <2>6 DEF Tokens!Send, Tokens!Presented
    <3>2. /\ step' \in [Calls -> Steps] /\ step'[c] = "sent"
          /\ \A d \in Calls \ {c} : step'[d] = step[d] /\ carried'[d] = carried[d]
          /\ DOMAIN carried' = Calls /\ carried'[c] \in {token, Nil}
      BY <3>1 DEF ClientInv, Steps
    <3>3. OneCall'
      BY <3>1, <3>2 DEF ClientInv, OneCall, Idle
    <3>4. shut => crossing # "call" /\ host # "deepseek"
      BY <3>1 DEF ClientInv, Idle
    <3>5. shut /\ crossing = "nothing" => token = Nil
      BY DEF ClientInv
    <3>. QED BY <3>1, <3>2, <3>3, <3>4, <3>5 DEF ClientInv
  <2>7. CASE Tokens!Reply(c)
    <3>1. CASE token' = token
      BY <2>7, <3>1, CallStep DEF Tokens!Reply, Idle
    <3>2. CASE Tokens!Valid(carried[c]) /\ token' = "fresh"
      <4>1. /\ step[c] = "sent" /\ step' = [step EXCEPT ![c] = "over"] /\ carried[c] # Nil
            /\ UNCHANGED <<host, shut, renewal, carried, crossing, lateCall>>
        BY <2>7, <3>2 DEF Tokens!Reply, Tokens!Valid, Tokens!ClientSetting
      <4>2. shut => crossing # "nothing"
        BY <4>1 DEF ClientInv
      <4>3. /\ step' \in [Calls -> Steps]
            /\ \A d \in Calls : Idle(d)'
        BY <4>1 DEF ClientInv, OneCall, Idle, Steps
      <4>. QED BY <4>1, <4>2, <4>3 DEF ClientInv, OneCall, Idle, Steps
    <3>. QED BY <2>7, <3>1, <3>2 DEF Tokens!Reply
  <2>8. CASE Tokens!GiveUp(c)
    BY <2>8, CallStep DEF Tokens!GiveUp, Idle
  <2>. QED
    BY <1>2, <2>1, <2>2, <2>3, <2>4, <2>5, <2>6, <2>7, <2>8 DEF Tokens!Call
<1>3. CASE Tokens!RenewLoop
  BY <1>3 DEF Tokens!RenewLoop, Tokens!Ask, ClientInv, OneCall, Idle, Steps
<1>4. ASSUME Tokens!Renewed \/ Tokens!NotRenewed \/ Tokens!RenewalFails PROVE ClientInv'
  <2>1. /\ renewal # Nil /\ renewal' = Nil
        /\ UNCHANGED <<host, shut, carried, crossing, lateCall>>
        /\ token' = token \/ renewal.with # Nil
    BY <1>4 DEF Tokens!Renewed, Tokens!NotRenewed, Tokens!RenewalFails, Tokens!Valid, Tokens!ClientSetting
  <2>2. \E renewed \in BOOLEAN : step' = [c \in Calls |-> Tokens!AfterRenewal(c, renewed)]
    BY <1>4 DEF Tokens!Renewed, Tokens!NotRenewed, Tokens!RenewalFails
  <2>3. \A c \in Calls : \/ step'[c] = step[c]
                         \/ step[c] = "waiting" /\ step'[c] \in {"begun", "ready", "over"}
    BY <2>2 DEF Tokens!AfterRenewal, Tokens!Waiting
  <2>4. step' \in [Calls -> Steps]
    <3>1. DOMAIN step' = Calls
      BY <2>2
    <3>2. step' = [c \in Calls |-> step'[c]]
      BY <2>2
    <3>. QED BY <2>3, <3>2 DEF ClientInv, Steps
  <2>5. OneCall'
    BY <2>3 DEF ClientInv, OneCall, Idle
  <2>6. shut /\ crossing # "renewal" => token' = token
    BY <2>1 DEF ClientInv
  <2>7. shut /\ crossing = "call" => \A c \in Calls : step'[c] = step[c]
    BY <2>3 DEF ClientInv, Idle
  <2>8. \A c \in Calls : Idle(c) => Idle(c)'
    BY <2>3 DEF Idle
  <2>9. \A c \in Calls : step'[c] = "sent" => step[c] = "sent"
    BY <2>3
  <2>. QED BY <2>1, <2>4, <2>5, <2>6, <2>7, <2>8, <2>9 DEF ClientInv
<1>5. CASE Tokens!Close
  <2>1. /\ ~shut /\ shut' = TRUE /\ token' = Nil
        /\ UNCHANGED <<host, carried, lateCall>>
        /\ step' = [c \in Calls |-> IF host = "deepseek" /\ ~Idle(c) THEN "over" ELSE step[c]]
        /\ renewal' = IF host = "deepseek" THEN Nil ELSE renewal
        /\ crossing' = IF host = "deepseek" THEN "nothing"
                         ELSE IF renewal # Nil THEN "renewal"
                         ELSE IF \E c \in Calls : step[c] = "sent" THEN "call" ELSE "nothing"
    BY <1>5 DEF Tokens!Close, Tokens!Dropped, Tokens!Calling, Idle
  <2>2. /\ step' \in [Calls -> Steps]
        /\ \A c \in Calls : step'[c] = step[c] \/ step'[c] = "over"
        /\ host = "deepseek" => \A c \in Calls : Idle(c)'
    BY <2>1 DEF ClientInv, Idle, Steps
  <2>3. OneCall'
    BY <2>2 DEF ClientInv, OneCall, Idle
  <2>4. crossing' = "nothing" => \A c \in Calls : step'[c] # "sent"
    BY <2>1, <2>2 DEF Idle
  <2>5. crossing' = "call" => \A c \in Calls : Idle(c)' \/ step'[c] = "sent"
    BY <2>1, <2>2 DEF ClientInv, OneCall, Idle, Steps
  <2>. QED BY <2>1, <2>2, <2>3, <2>4, <2>5 DEF ClientInv
<1>6. CASE Tokens!Age
  BY <1>6 DEF Tokens!Age, Tokens!Valid, Tokens!ClientSetting, ClientInv, OneCall, Idle, Steps
<1>7. CASE Tokens!EndExecution
  BY <1>7 DEF Tokens!EndExecution, ClientInv, OneCall, Idle, Steps
<1>. QED
  BY <1>1, <1>2, <1>3, <1>4, <1>5, <1>6, <1>7 DEF Tokens!Next

(* When a run is over no call of its tools is sent with its token, unless  *)
(* a renewal was under way when its client was closed, and its token is    *)
(* dropped unless that, or the answer to a call, brings another            *)
(* (platform_capabilities.py:185-248, mcp-tools.mjs:105-198).              *)
THEOREM TokensAreDropped == Tokens!Spec => []NoLateCall
<1>0. Tokens!ClientSetting
  BY TokensAssumption
<1>1. ClientInv => NoLateCall
  BY DEF ClientInv, Tokens!NoLateCall, NoLateCall
<1>. QED BY <1>0, <1>1, ClientInit, ClientNext, PTL DEF Tokens!Spec

(* DeepSeek's client cancels what could outlive it: when it is closed      *)
(* nothing is under way, it has no token and sends no call                 *)
(* (capability_dispatcher.py:80-97).                                       *)
THEOREM DeepSeekIsNeverLate ==
  Tokens!Spec => [](host = "deepseek" => ~lateCall /\ (shut => token = Nil /\ \A c \in Calls : Idle(c)))
<1>0. Tokens!ClientSetting
  BY TokensAssumption
<1>1. ClientInv => (host = "deepseek" => ~lateCall /\ (shut => token = Nil /\ \A c \in Calls : Idle(c)))
  BY DEF ClientInv
<1>. QED BY <1>0, <1>1, ClientInit, ClientNext, PTL DEF Tokens!Spec

-----------------------------------------------------------------------------
(* HermesTools: the registry of the aliases of the runs.                   *)

ToolsOf(r) == Hermes!ToSet(Given[r].tools)
Users(a) == {r \in Hermes!Registered : a \in ToolsOf(r)}

(* What the registry must say of an alias with these users.                *)
Counted(n, users) == n = IF users = {} THEN Nil ELSE Cardinality(users)

HermesInv ==
  /\ life \in [Runs -> {"new", "registered", "attached", "refused", "over"}]
  /\ claim \in [Runs \cup HermesSessions -> Runs \cup {Nil}]
  /\ \A a \in Hermes!Aliases \ spoiled : Counted(count[a], Users(a))
  /\ \A k \in Runs \cup HermesSessions :
       claim[k] # Nil => claim[k] \in Hermes!Registered /\ k \in Hermes!ClaimKeys(claim[k])
  /\ \A s \in served : s[1] = s[2] \/ Given[s[1]].session = Given[s[2]].session

(* The sets of the module are counted as everywhere.                       *)
LEMMA SameSets ==
  ASSUME NEW S
  PROVE  (Hermes!IsFiniteSet(S) <=> IsFiniteSet(S)) /\ Hermes!Cardinality(S) = Cardinality(S)
<1>1. Hermes!IsFiniteSet(S) <=> IsFiniteSet(S)
  BY DEF IsFiniteSet, Hermes!IsFiniteSet
<1>2. Hermes!Cardinality(S) = Cardinality(S)
  BY Zenon DEF Cardinality, Hermes!Cardinality
<1>. QED BY <1>1, <1>2

LEMMA HermesInit == Hermes!Init => HermesInv
BY DEF Hermes!Init, HermesInv, Counted, Users, Hermes!Registered

(* Counting one user more and one less.                                    *)
LEMMA OneMore ==
  ASSUME Hermes!HermesSetting, NEW n, NEW users \in SUBSET Runs, NEW r \in Runs \ users, Counted(n, users)
  PROVE  Counted(IF n = Nil THEN 1 ELSE n + 1, users \cup {r})
<1>1. IsFiniteSet(users) /\ Cardinality(users) \in Nat
  <2>1. IsFiniteSet(Runs)
    BY SameSets DEF Hermes!HermesSetting
  <2>. QED BY <2>1, FS_Subset, FS_CardinalityType
<1>2. Cardinality(users \cup {r}) = Cardinality(users) + 1
  BY <1>1, FS_AddElement
<1>3. users = {} <=> Cardinality(users) = 0
  BY <1>1, FS_EmptySet
<1>4. Nil \notin Nat
  BY DEF Hermes!HermesSetting
<1>. QED BY <1>1, <1>2, <1>3, <1>4 DEF Counted

LEMMA OneLess ==
  ASSUME Hermes!HermesSetting, NEW n, NEW users \in SUBSET Runs, NEW r \in users, Counted(n, users)
  PROVE  Counted(IF n = Nil \/ n <= 1 THEN Nil ELSE n - 1, users \ {r})
<1>1. IsFiniteSet(users) /\ Cardinality(users) \in Nat
  <2>1. IsFiniteSet(Runs)
    BY SameSets DEF Hermes!HermesSetting
  <2>. QED BY <2>1, FS_Subset, FS_CardinalityType
<1>2. IsFiniteSet(users \ {r}) /\ Cardinality(users \ {r}) = Cardinality(users) - 1
  BY <1>1, FS_RemoveElement
<1>3. users \ {r} = {} <=> Cardinality(users \ {r}) = 0
  BY <1>2, FS_EmptySet
<1>4. n = Cardinality(users) /\ n # Nil /\ n \in Nat /\ n # 0
  BY <1>1, FS_EmptySet DEF Hermes!HermesSetting, Counted
<1>. DEFINE rest == Cardinality(users \ {r})
<1>5. rest = n - 1
  BY <1>2, <1>4
<1>. HIDE DEF rest
<1>6. n <= 1 <=> rest = 0
  BY <1>4, <1>5
<1>7. (IF n = Nil \/ n <= 1 THEN Nil ELSE n - 1) = IF rest = 0 THEN Nil ELSE rest
  BY <1>4, <1>5, <1>6
<1>. QED BY <1>3, <1>7, Zenon DEF Counted, rest

LEMMA HermesNext ==
  ASSUME Hermes!HermesSetting, HermesInv, [Hermes!Next]_(Hermes!toolVars)
  PROVE  HermesInv'
<1>1. CASE UNCHANGED Hermes!toolVars
  BY <1>1 DEF Hermes!toolVars, HermesInv, Counted, Users, Hermes!Registered
<1>2. ASSUME NEW r \in Runs, Hermes!RefuseIdentity(r) PROVE HermesInv'
  <2>1. Hermes!Registered' = Hermes!Registered
    BY <1>2 DEF Hermes!RefuseIdentity, HermesInv, Hermes!Registered
  <2>. QED BY <1>2, <2>1 DEF Hermes!RefuseIdentity, HermesInv, Users
<1>3. ASSUME NEW r \in Runs, Hermes!RegisterRun(r) PROVE HermesInv'
  <2>1. /\ life[r] = "new" /\ Hermes!Free(r)
        /\ life' = [life EXCEPT ![r] = "registered"]
        /\ claim' = [k \in DOMAIN claim |-> IF k \in Hermes!ClaimKeys(r) THEN r ELSE claim[k]]
        /\ count' = [a \in Hermes!Aliases |-> IF a \in ToolsOf(r) THEN Hermes!Plus(a) ELSE count[a]]
        /\ UNCHANGED <<agentTools, served, spoiled>>
    BY <1>3 DEF Hermes!RegisterRun, ToolsOf
  <2>2. Hermes!Registered' = Hermes!Registered \cup {r} /\ r \notin Hermes!Registered
    BY <1>3, <2>1 DEF HermesInv, Hermes!Registered
  <2>3. ASSUME NEW a \in Hermes!Aliases \ spoiled' PROVE Counted(count'[a], Users(a)')
    <3>1. Counted(count[a], Users(a)) /\ Users(a) \in SUBSET Runs /\ r \notin Users(a)
      BY <2>1, <2>2, <2>3 DEF HermesInv, Users, Hermes!Registered
    <3>2. CASE a \in ToolsOf(r)
      <4>1. Users(a)' = Users(a) \cup {r}
        BY <2>2, <3>2 DEF Users, ToolsOf
      <4>2. count'[a] = IF count[a] = Nil THEN 1 ELSE count[a] + 1
        BY <2>1, <2>3, <3>2 DEF Hermes!Plus
      <4>. QED BY <1>3, <3>1, <4>1, <4>2, OneMore
    <3>3. CASE a \notin ToolsOf(r)
      <4>1. Users(a)' = Users(a)
        BY <2>2, <3>3 DEF Users, ToolsOf
      <4>. QED BY <2>1, <2>3, <3>1, <3>3, <4>1
    <3>. QED BY <3>2, <3>3
  <2>4. \A k \in Runs \cup HermesSessions :
          claim'[k] # Nil => claim'[k] \in Hermes!Registered' /\ k \in Hermes!ClaimKeys(claim'[k])
    BY <2>1, <2>2 DEF HermesInv
  <2>. QED BY <1>3, <2>1, <2>3, <2>4 DEF HermesInv
<1>4. ASSUME NEW r \in Runs, Hermes!RegisterFails(r) PROVE HermesInv'
  <2>1. Hermes!Registered' = Hermes!Registered
    BY <1>4 DEF Hermes!RegisterFails, HermesInv, Hermes!Registered
  <2>2. /\ life' = [life EXCEPT ![r] = "refused"]
        /\ \A a \in Hermes!Aliases \ spoiled' : a \notin spoiled /\ count'[a] = count[a]
        /\ UNCHANGED <<claim, served>>
    BY <1>4 DEF Hermes!RegisterFails
  <2>. QED BY <2>1, <2>2 DEF HermesInv, Users
<1>5. ASSUME NEW r \in Runs, Hermes!AttachRunTools(r) PROVE HermesInv'
  <2>1. Hermes!Registered' = Hermes!Registered
    BY <1>5 DEF Hermes!AttachRunTools, HermesInv, Hermes!Registered
  <2>. QED BY <1>5, <2>1 DEF Hermes!AttachRunTools, HermesInv, Users
<1>6. ASSUME NEW r \in Runs, Hermes!UnregisterRun(r) PROVE HermesInv'
  <2>1. /\ life[r] \in {"registered", "attached"}
        /\ life' = [life EXCEPT ![r] = "over"]
        /\ claim' = [k \in DOMAIN claim |-> IF claim[k] = r THEN Nil ELSE claim[k]]
        /\ count' = [a \in Hermes!Aliases |-> IF a \in ToolsOf(r) THEN Hermes!Discount(a) ELSE count[a]]
        /\ UNCHANGED <<agentTools, served, spoiled>>
    BY <1>6 DEF Hermes!UnregisterRun, ToolsOf
  <2>2. Hermes!Registered' = Hermes!Registered \ {r} /\ r \in Hermes!Registered
    BY <1>6, <2>1 DEF HermesInv, Hermes!Registered
  <2>3. ASSUME NEW a \in Hermes!Aliases \ spoiled' PROVE Counted(count'[a], Users(a)')
    <3>1. Counted(count[a], Users(a)) /\ Users(a) \in SUBSET Runs
      BY <2>1, <2>3 DEF HermesInv, Users, Hermes!Registered
    <3>2. CASE a \in ToolsOf(r)
      <4>1. Users(a)' = Users(a) \ {r} /\ r \in Users(a)
        BY <2>2, <3>2 DEF Users, ToolsOf
      <4>2. count'[a] = IF count[a] = Nil \/ count[a] <= 1 THEN Nil ELSE count[a] - 1
        BY <2>1, <2>3, <3>2 DEF Hermes!Discount
      <4>. QED BY <3>1, <4>1, <4>2, OneLess
    <3>3. CASE a \notin ToolsOf(r)
      <4>1. Users(a)' = Users(a)
        BY <2>2, <3>3 DEF Users, ToolsOf
      <4>. QED BY <2>1, <2>3, <3>1, <3>3, <4>1
    <3>. QED BY <3>2, <3>3
  <2>4. \A k \in Runs \cup HermesSessions :
          claim'[k] # Nil => claim'[k] \in Hermes!Registered' /\ k \in Hermes!ClaimKeys(claim'[k])
    BY <2>1, <2>2 DEF HermesInv
  <2>. QED BY <1>6, <2>1, <2>3, <2>4 DEF HermesInv
<1>7. ASSUME NEW r \in Runs, NEW a \in Hermes!Aliases, Hermes!Invoke(r, a) PROVE HermesInv'
  <2> DEFINE q == Hermes!BindingOf(r)
  <2>1. /\ q # Nil /\ served' = served \cup {<<r, q, a>>}
        /\ UNCHANGED <<life, claim, count, agentTools, spoiled>>
    BY <1>7 DEF Hermes!Invoke
  <2>2. r = q \/ Given[r].session = Given[q].session
    <3>1. CASE claim[r] # Nil \/ Given[r].session = Nil
      <4>1. q = claim[r] /\ r \in Hermes!ClaimKeys(q) /\ q \in Runs
        BY <1>7, <2>1, <3>1 DEF Hermes!BindingOf, HermesInv
      <4>. QED BY <1>7, <4>1 DEF Hermes!ClaimKeys, Hermes!HermesSetting
    <3>2. CASE ~(claim[r] # Nil \/ Given[r].session = Nil)
      <4> DEFINE s == Given[r].session
      <4>1. s \in HermesSessions /\ q = claim[s]
        BY <1>7, <3>2 DEF Hermes!BindingOf, Hermes!HermesSetting
      <4>2. s \in Hermes!ClaimKeys(q) /\ q \in Runs
        BY <2>1, <4>1 DEF HermesInv
      <4>. QED BY <4>1, <4>2 DEF Hermes!ClaimKeys, Hermes!HermesSetting
    <3>. QED BY <3>1, <3>2
  <2>. HIDE DEF q
  <2>3. \A s \in served' : s[1] = s[2] \/ Given[s[1]].session = Given[s[2]].session
    BY <2>1, <2>2 DEF HermesInv
  <2>4. \A x \in Hermes!Aliases \ spoiled' : Counted(count'[x], Users(x)')
    BY <2>1 DEF HermesInv, Users, Hermes!Registered
  <2>5. \A k \in Runs \cup HermesSessions :
          claim'[k] # Nil => claim'[k] \in Hermes!Registered' /\ k \in Hermes!ClaimKeys(claim'[k])
    BY <2>1 DEF HermesInv, Hermes!Registered
  <2>6. \A x \in Hermes!Aliases \ spoiled' : Counted(count[x], Users(x))'
    BY <2>4 DEF Counted
  <2>. QED BY <2>1, <2>3, <2>5, <2>6 DEF HermesInv
<1>. QED
  BY <1>1, <1>2, <1>3, <1>4, <1>5, <1>6, <1>7 DEF Hermes!Next

(* The registry counts, for each alias, the registered runs that have it   *)
(* in their context, unless a failed registration discounted it for        *)
(* another; a session leads to a run that is registered; and no call is    *)
(* made for a run of another session (platform_capabilities.py:81-147).    *)
THEOREM ToolsAreCounted == Hermes!Spec => []ToolsCounted
<1>0. Hermes!HermesSetting
  BY HermesAssumption
<1>1. HermesInv => ToolsCounted
  BY SameSets, Zenon DEF HermesInv, Hermes!ToolsCounted, ToolsCounted, Counted, Users, ToolsOf
<1>. QED BY <1>0, <1>1, HermesInit, HermesNext, PTL DEF Hermes!Spec

-----------------------------------------------------------------------------
(* ExecutionRun: the rows of one execution.                                *)
(* First the statuses of execution and session (StoryInv), then the rows   *)
(* of the stages, for which the statuses must be known (RowsInv).          *)

Statuses == {"none", "running", "succeeded", "failed", "cancelled"}

(* The run on its way to an outcome, past the point where it wrote it, and *)
(* where it writes none any more.                                          *)
Ahead == {"new", "resolving", "recall", "details", "prompt", "runtime", "routing", "running",
          "trace", "output", "append", "completing", "storing"} \cup Execution!Prepared
Stored == {"calls", "artifact", "done"}
Final  == {"revoking", "cleaning", "closing", "over", "raised", "dead"}

(* The requests to stop that have written their verdict.                   *)
Written == {r \in Stops : stop[r] \in {"revoking", "finding", "closing", "over"}}

ExecutionTypes ==
  /\ at \in Ahead \cup Stored \cup Final \cup {"cancelling", "failing", "failed"}
  /\ exec \in Statuses /\ sess \in Statuses
  /\ stop \in [Stops -> {"idle", "asked", "telling", "revoking", "finding", "closing", "over"}]
  /\ seen \in [Stops -> Statuses]

(* The status of the execution follows the run, and it is not that of its  *)
(* session only when two requests have written it.                         *)
Story ==
  /\ at = "new" => exec = "none" /\ \A r \in Stops : stop[r] = "idle"
  /\ at \in Ahead \ {"new"} => exec \in {"running", "cancelled"}
  /\ at \in Stored => exec \in {"succeeded", "cancelled"}
  /\ at \in Final \ {"raised", "dead"} => exec \in {"failed", "cancelled"}
  /\ exec # sess => \E r, q \in Written : r # q
  /\ sess = "cancelled" => at \in Final \/ Written # {}
  /\ \A r \in Stops :
       seen[r] = "cancelled" => (sess = "cancelled" /\ at \in Final) \/ \E q \in Written : q # r

StoryInv == ExecutionTypes /\ Story

LEMMA StoryInit == Execution!Init => StoryInv
BY DEF Execution!Init, StoryInv, ExecutionTypes, Story, Statuses, Ahead, Stored, Final, Written

LEMMA AfterStages ==
  ASSUME NEW s \in DOMAIN Execution!After
  PROVE  /\ s \in Ahead => Execution!After[s] \in (Ahead \ {"new"})
         /\ s \in Stored => Execution!After[s] \in Stored
         /\ s \in Ahead \cup Stored /\ s # "new"
BY DEF Execution!After, Ahead, Stored, Execution!Prepared

LEMMA StoryNext ==
  ASSUME StoryInv, [Execution!Next]_(Execution!executionVars)
  PROVE  StoryInv'
<1>. USE DEF StoryInv, ExecutionTypes, Story, Statuses, Ahead, Stored, Final, Written,
             Execution!Prepared, Execution!rows, Execution!asked, Execution!Goto, Execution!Both
<1>1. CASE UNCHANGED Execution!executionVars
  BY <1>1 DEF Execution!executionVars, Execution!run
<1>2. CASE Execution!Prepare
  BY <1>2 DEF Execution!Prepare, Execution!Create, Execution!Resolve, Execution!Unresolved,
    Execution!InputInvalid, Execution!StageFails, Execution!RecordDetails, Execution!Fallible
<1>3. CASE Execution!Record
  <2>1. CASE Execution!StartStep
    BY <2>1 DEF Execution!StartStep, Execution!run
  <2>2. ASSUME at \in DOMAIN Execution!After, at' = Execution!After[at],
               UNCHANGED <<exec, sess, stop, seen>>
        PROVE  StoryInv'
    <3>1. /\ at \in Ahead => at' \in Ahead \ {"new"}
          /\ at \in Stored => at' \in Stored
          /\ at \in Ahead \cup Stored /\ at # "new"
      BY <2>2, AfterStages, Zenon
    <3>2. at' \in Ahead \cup Stored /\ at' # "new" /\ at \notin Final /\ at' \notin Final
      BY <3>1
    <3>. QED BY <2>2, <3>1, <3>2
  <2>3. CASE Execution!FinishStep
    BY <2>2, <2>3 DEF Execution!FinishStep
  <2>4. CASE Execution!SkipStep
    <3>1. at \in DOMAIN Execution!After
      BY <2>4 DEF Execution!SkipStep, Execution!Optional, Execution!After
    <3>. QED BY <2>2, <2>4, <3>1 DEF Execution!SkipStep
  <2>. QED BY <1>3, <2>1, <2>3, <2>4 DEF Execution!Record
<1>4. CASE Execution!Execute
  BY <1>4 DEF Execution!Execute, Execution!StartRuntime, Execution!Route,
    Execution!RuntimeReturns,
    Execution!RuntimeFails, Execution!RuntimeCancelled
<1>5. CASE Execution!Remember
  BY <1>5 DEF Execution!Remember, Execution!AppendTurn, Execution!AppendFails
<1>6. CASE Execution!Complete
  BY <1>6 DEF Execution!Complete, Execution!ReadOutcome, Execution!Store, Execution!StoreFails,
    Execution!StoreRaises
<1>7. CASE Execution!Fail
  BY <1>7 DEF Execution!Fail, Execution!CancelledBefore, Execution!ReadFailure,
    Execution!WriteFailure
<1>8. CASE Execution!Cancel
  BY <1>8 DEF Execution!Cancel, Execution!WriteCancel, Execution!Revoke, Execution!RevokeRaises
<1>9. CASE Execution!Clean
  BY <1>9 DEF Execution!Clean, Execution!FindRunning, Execution!CloseRunning
<1>10. CASE Execution!Disconnect
  BY <1>10 DEF Execution!Disconnect
<1>11. CASE Execution!Die
  BY <1>11 DEF Execution!Die
<1>12. ASSUME NEW r \in Stops, Execution!StopExecution(r) PROVE StoryInv'
  <2>. USE DEF Execution!MoveStop, Execution!run
  <2>1. CASE Execution!Ask(r)
    BY <1>12, <2>1 DEF Execution!Ask
  <2>2. CASE Execution!ReadSession(r)
    BY <1>12, <2>2 DEF Execution!ReadSession
  <2>3. CASE Execution!RuntimeRefuses(r)
    BY <1>12, <2>3 DEF Execution!RuntimeRefuses
  <2>4. CASE Execution!WriteStop(r)
    <3>1. /\ stop[r] = "telling" /\ stop' = [stop EXCEPT ![r] = "revoking"]
          /\ exec' = "cancelled" /\ UNCHANGED <<at, seen>>
          /\ sess' = IF seen[r] = "cancelled" THEN sess ELSE "cancelled"
      BY <2>4 DEF Execution!WriteStop
    <3>2. Written' = Written \cup {r} /\ r \notin Written
      BY <1>12, <3>1
    <3>. HIDE DEF Written
    <3>3. sess' # "cancelled" => \E q \in Written : q # r
      BY <1>12, <3>1
    <3>4. exec' # sess' => \E p, q \in Written' : p # q
      BY <1>12, <3>1, <3>2, <3>3
    <3>5. ASSUME NEW q \in Stops, seen'[q] = "cancelled"
          PROVE  (sess' = "cancelled" /\ at' \in Final) \/ \E p \in Written' : p # q
      BY <1>12, <3>1, <3>2, <3>5
    <3>. QED BY <1>12, <3>1, <3>2, <3>4, <3>5
  <2>5. CASE Execution!RevokeStopped(r) \/ Execution!RevokeStoppedRaises(r)
    BY <1>12, <2>5 DEF Execution!RevokeStopped, Execution!RevokeStoppedRaises
  <2>6. CASE Execution!FindStopped(r) \/ Execution!CloseStopped(r)
    BY <1>12, <2>6 DEF Execution!FindStopped, Execution!CloseStopped
  <2>. QED BY <1>12, <2>1, <2>2, <2>3, <2>4, <2>5, <2>6 DEF Execution!StopExecution
<1>. QED
  BY <1>1, <1>2, <1>3, <1>4, <1>5, <1>6, <1>7, <1>8, <1>9, <1>10, <1>11, <1>12 DEF Execution!Next

(* An execution and its session have the same status at every moment,      *)
(* whatever stops, failures and successes race for them, unless two        *)
(* requests to stop overlap (executions.py:200-237, agents.py:1179-1278).  *)
THEOREM VerdictsDoAgree == Execution!Spec => []VerdictsAgree
<1>1. StoryInv => VerdictsAgree
  BY DEF StoryInv, Story, ExecutionTypes, Written, Execution!VerdictsAgree, VerdictsAgree
<1>. QED BY <1>1, StoryInit, StoryNext, PTL DEF Execution!Spec

(* The rows a run must have closed before it comes to a stage.             *)
Before ==
  LET input == {"request"}               memory == input \cup {"input"}
      skill == memory \cup {"memory"}     mcp    == skill \cup {"skill"}
      known == mcp \cup {"mcp"}           asked  == known \cup {"knowledge"}
      ready == asked \cup {"prompt"}      ran    == ready \cup {"runtime"}
      whole == ran \cup {"output"}
  IN
  [new |-> {}, resolving |-> {}, request |-> {}, input |-> input, memory |-> memory,
   skill |-> skill, mcp |-> mcp, knowledge |-> known, recall |-> asked, details |-> asked,
   prompt |-> asked, runtime |-> ready, routing |-> ready, running |-> ready, trace |-> ran,
   output |-> ran, append |-> whole, completing |-> whole, storing |-> whole,
   calls |-> whole, artifact |-> whole, done |-> whole]

(* The row that is open at a stage.                                        *)
Open == IF at \in DOMAIN Execution!After THEN {at}
        ELSE IF at \in {"routing", "running"} THEN {"runtime"} ELSE {}

Rows ==
  /\ steps \in [Execution!Stages -> {"absent", "running", "succeeded", "failed", "cancelled"}]
  /\ mine \subseteq Execution!Stages
  /\ at \in {"cleaning", "closing"} => judged \in {"failed", "cancelled"}
  /\ at \in Ahead \cup Stored => Execution!Running \subseteq Open \cup {"trace"}
  /\ at = "closing" => Execution!Running \subseteq mine
  /\ at = "over" => Execution!Running = {}
  /\ at \in Ahead \cup Stored => \A s \in Before[at] : steps[s] \in {"succeeded", "cancelled"}
  /\ at \in Stored \cup {"completing", "storing"} => remembered
  /\ Execution!SuccessIsWhole

RowsInv == StoryInv /\ Rows

(* A step of a stop closes rows or leaves them alone.                      *)
LEMMA ClosingRows ==
  ASSUME RowsInv, StoryInv', UNCHANGED <<at, judged, mine, remembered>>,
         steps' \in [Execution!Stages -> {"absent", "running", "succeeded", "failed", "cancelled"}],
         \A s \in Execution!Stages : steps'[s] \in {steps[s], "cancelled"},
         exec' = "succeeded" => exec = "succeeded"
  PROVE  Rows'
<1>1. Execution!Running' \subseteq Execution!Running
  BY DEF Execution!Running
<1>2. Open' = Open
  BY DEF Open
<1>3. \A s \in Execution!Stages :
        steps[s] \in {"succeeded", "cancelled"} => steps'[s] \in {"succeeded", "cancelled"}
  OBVIOUS
<1>4. at \in Ahead \cup Stored => Before[at] \subseteq Execution!Stages
  BY DEF Before, Ahead, Stored, Execution!Stages, Execution!Prepared
<1>5. Execution!SuccessIsWhole'
  BY <1>3 DEF Execution!SuccessIsWhole, RowsInv, Rows, Execution!Stages, Execution!Prepared
<1>. QED BY <1>1, <1>2, <1>3, <1>4, <1>5 DEF RowsInv, Rows

LEMMA RowsInit == Execution!Init => Rows
BY DEF Execution!Init, Rows, Execution!Running, Ahead, Stored, Before, Open,
  Execution!SuccessIsWhole

LEMMA BeforeStages ==
  ASSUME NEW s \in DOMAIN Execution!After
  PROVE  /\ Before[Execution!After[s]] \subseteq Before[s] \cup ({s} \ {"trace", "calls", "recall", "artifact"})
         /\ s \notin Before[s] /\ Before[s] \subseteq Execution!Stages
         /\ Execution!After[s] \in {"completing", "storing"} \cup Stored => s \in Stored
         /\ s \in Execution!Stages
         /\ Execution!After[s] \notin {"routing", "running"}
         /\ s \notin {"new", "cleaning", "closing", "over", "completing", "storing", "routing", "running"}
         /\ Execution!After[s] \notin {"cleaning", "closing", "over"}
BY DEF Execution!After, Before, Execution!Prepared, Execution!Stages, Stored

LEMMA EndOfRow ==
  ASSUME NEW s
  PROVE  /\ Execution!Ends(s) \subseteq {"succeeded", "failed", "cancelled", "running"}
         /\ s \notin {"calls", "trace"} => Execution!Ends(s) = {"succeeded"}
         /\ s # "trace" => "running" \notin Execution!Ends(s)
BY DEF Execution!Ends

LEMMA RowsNext ==
  ASSUME RowsInv, StoryInv', [Execution!Next]_(Execution!executionVars)
  PROVE  Rows'
<1>. USE DEF RowsInv, Rows, Execution!rows, Execution!Goto, Execution!Both
<1>1. CASE UNCHANGED Execution!executionVars
  BY <1>1, ClosingRows DEF Execution!executionVars, Execution!run, Execution!Stages
<1>2. CASE Execution!Prepare
  <2>. USE DEF Ahead, Stored, Before, Open, Execution!After, Execution!Running,
    Execution!Stages, Execution!Prepared, Execution!SuccessIsWhole
  <2>1. CASE Execution!Create
    BY <2>1 DEF Execution!Create
  <2>2. CASE Execution!Resolve
    BY <2>2 DEF Execution!Resolve
  <2>3. CASE Execution!Unresolved
    BY <2>3 DEF Execution!Unresolved
  <2>4. CASE Execution!InputInvalid
    BY <2>4 DEF Execution!InputInvalid, StoryInv, Story
  <2>5. CASE Execution!StageFails
    BY <2>5 DEF Execution!StageFails
  <2>6. CASE Execution!RecordDetails
    BY <2>6 DEF Execution!RecordDetails
  <2>. QED BY <1>2, <2>1, <2>2, <2>3, <2>4, <2>5, <2>6 DEF Execution!Prepare
<1>4. CASE Execution!Execute
  <2>. USE DEF Ahead, Stored, Before, Open, Execution!After, Execution!Running,
    Execution!Stages, Execution!Prepared, Execution!SuccessIsWhole, StoryInv, Story
  <2>1. CASE Execution!StartRuntime
    BY <2>1 DEF Execution!StartRuntime
  <2>2. CASE Execution!Route
    BY <2>2 DEF Execution!Route
  <2>3. CASE Execution!RuntimeReturns
    BY <2>3 DEF Execution!RuntimeReturns
  <2>4. CASE Execution!RuntimeFails \/ Execution!RuntimeCancelled
    BY <2>4 DEF Execution!RuntimeFails, Execution!RuntimeCancelled
  <2>. QED BY <1>4, <2>1, <2>2, <2>3, <2>4 DEF Execution!Execute
<1>5. CASE Execution!Remember
  BY <1>5 DEF Execution!Remember, Execution!AppendTurn, Execution!AppendFails,
    Ahead, Stored, Before, Open, Execution!After, Execution!Running, Execution!Prepared,
      Execution!SuccessIsWhole, StoryInv, Story
<1>6. CASE Execution!Complete
  BY <1>6 DEF Execution!Complete, Execution!ReadOutcome, Execution!Store, Execution!StoreFails,
    Execution!StoreRaises,
    Ahead, Stored, Before, Open, Execution!After, Execution!Running, Execution!Prepared,
      Execution!SuccessIsWhole
<1>7. CASE Execution!Fail
  BY <1>7 DEF Execution!Fail, Execution!CancelledBefore, Execution!ReadFailure,
    Execution!WriteFailure,
    Ahead, Stored, Execution!Prepared, Execution!Running, Execution!SuccessIsWhole
<1>8. CASE Execution!Cancel
  BY <1>8 DEF Execution!Cancel, Execution!WriteCancel, Execution!Revoke, Execution!RevokeRaises,
    Ahead, Stored, Execution!Prepared, Execution!Running, Execution!SuccessIsWhole
<1>9. CASE Execution!Clean
  BY <1>9 DEF Execution!Clean, Execution!FindRunning, Execution!CloseRunning,
    Ahead, Stored, Final, Execution!Prepared, Execution!Stages, Execution!Running,
      Execution!SuccessIsWhole, StoryInv, Story
<1>10. CASE Execution!Disconnect
  BY <1>10 DEF Execution!Disconnect, Ahead, Stored, Execution!Prepared, Execution!Running,
    Execution!SuccessIsWhole
<1>11. CASE Execution!Die
  BY <1>11 DEF Execution!Die, Ahead, Stored, Execution!Prepared, Execution!Running,
    Execution!SuccessIsWhole
<1>12. ASSUME NEW r \in Stops, Execution!StopExecution(r) PROVE Rows'
  <2>1. CASE Execution!CloseStopped(r)
    BY <1>12, <2>1, ClosingRows DEF Execution!CloseStopped, Execution!run
  <2>2. UNCHANGED <<at, judged, mine, remembered>> /\ exec' \in {exec, "cancelled"}
    BY <1>12 DEF Execution!StopExecution, Execution!Ask, Execution!ReadSession,
      Execution!RuntimeRefuses,
       Execution!WriteStop, Execution!RevokeStopped, Execution!RevokeStoppedRaises,
         Execution!FindStopped,
       Execution!CloseStopped, Execution!run
  <2>3. CASE UNCHANGED steps
    BY <1>12, <2>2, <2>3, ClosingRows
  <2>. QED
    BY <1>12, <2>1, <2>3 DEF Execution!StopExecution, Execution!Ask, Execution!ReadSession,
      Execution!RuntimeRefuses,
       Execution!WriteStop, Execution!RevokeStopped, Execution!RevokeStoppedRaises,
         Execution!FindStopped
<1>3. CASE Execution!Record
  <2>1. CASE Execution!StartStep
    BY <2>1, BeforeStages DEF Execution!StartStep, Execution!run, Open, Execution!Running,
      Execution!Stages, Execution!SuccessIsWhole, StoryInv, Story
  <2>2. ASSUME at \in DOMAIN Execution!After, at' = Execution!After[at], UNCHANGED <<judged,
                                                            mine, exec, remembered>>,
               NEW status \in {"succeeded", "failed", "cancelled", "running"},
               at \notin {"calls", "trace"} => status = "succeeded", at # "trace" => status # "running",
               \/ steps' = [steps EXCEPT ![at] = status]
               \/ at \in Execution!Optional /\ steps[at] = "absent" /\ UNCHANGED steps
        PROVE  Rows'
    <3>1. /\ Before[at'] \subseteq Before[at] \cup ({at} \ {"trace", "calls", "recall", "artifact"})
          /\ at \notin Before[at] /\ Before[at] \subseteq Execution!Stages
          /\ at' \in {"completing", "storing"} \cup Stored => at \in Stored
          /\ at \in Execution!Stages /\ at \in Ahead \cup Stored /\ at # "new"
          /\ at' \notin {"cleaning", "closing", "over"}
      BY <2>2, BeforeStages, AfterStages, Zenon
    <3>2. steps' \in [Execution!Stages -> {"absent", "running", "succeeded", "failed", "cancelled"}]
      BY <2>2, <3>1
    <3>3. Execution!Running' \subseteq {"trace"}
      BY <2>2, <3>1 DEF Execution!Running, Open, Execution!Optional
    <3>4. ASSUME NEW s \in Before[at'] PROVE steps'[s] \in {"succeeded", "cancelled"}
      BY <2>2, <3>1, <3>4 DEF Execution!Optional
    <3>5. Execution!SuccessIsWhole'
      BY <2>2, <3>1 DEF Execution!SuccessIsWhole, StoryInv, Story, Execution!Stages,
        Execution!Prepared, Stored, Execution!Optional
    <3>. QED BY <2>2, <3>1, <3>2, <3>3, <3>4, <3>5
  <2>3. CASE Execution!FinishStep
    <3>1. PICK status \in Execution!Ends(at) : steps' = [steps EXCEPT ![at] = status]
      BY <2>3 DEF Execution!FinishStep
    <3>. QED BY <2>2, <2>3, <3>1, EndOfRow, ZenonT(30) DEF Execution!FinishStep
  <2>4. CASE Execution!SkipStep
    <3>1. at \in DOMAIN Execution!After
      BY <2>4 DEF Execution!SkipStep, Execution!Optional, Execution!After
    <3>. QED BY <2>2, <2>4, <3>1 DEF Execution!SkipStep
  <2>. QED BY <1>3, <2>1, <2>3, <2>4 DEF Execution!Record
<1>. QED
  BY <1>1, <1>2, <1>3, <1>4, <1>5, <1>6, <1>7, <1>8, <1>9, <1>10, <1>11, <1>12 DEF Execution!Next

(* A run that is over leaves no execution and no row running: what was     *)
(* opened after a stop had closed the rows it found is closed by the run   *)
(* itself (agents.py:1179-1424, repositories/executions.py:270-300).       *)
THEOREM NothingIsLeftRunning == Execution!Spec => []NothingLeftRunning
<1>1. RowsInv => NothingLeftRunning
  BY DEF RowsInv, Rows, StoryInv, Story, Ahead, Stored, Final, Open, Execution!After,
    Execution!NothingLeftRunning, NothingLeftRunning
<1>. QED BY <1>1, StoryInit, StoryNext, RowsInit, RowsNext, PTL DEF Execution!Spec, RowsInv

(* An execution is a success only once its turn is in the memory and every *)
(* row up to the output is there and none of them failed                   *)
(* (agents.py:389-462, 1179-1278).                                         *)
THEOREM SuccessesAreWhole == Execution!Spec => []Execution!SuccessIsWhole
<1>1. Rows => Execution!SuccessIsWhole
  BY DEF Rows
<1>. QED BY <1>1, StoryInit, StoryNext, RowsInit, RowsNext, PTL DEF Execution!Spec, RowsInv

-----------------------------------------------------------------------------
(* PublicCalls: the calls of API clients.                                  *)
(* A step of a call is first cut down to what it does to the few variables *)
(* each invariant is about (Leads, Admits, Counts, Finishes), and a step   *)
(* of the administration to what it leaves alone (Aside).                  *)

CallStages == {"new", "entered", "unknown", "known", "counting", "admitted", "executing",
               "auditing", "done"}

PublicTypes ==
  /\ scene \in Scenes /\ quota \in Limits
  /\ keys \in [Keys -> {"unused", "active", "revoked"}]
  /\ minute \in 0..MaxMinute /\ counters \in [0..MaxMinute -> Nat]
  /\ stage \in [Calls -> CallStages]
  /\ presented \in [Calls -> Keys \cup {Nil}]
  /\ window \in [Calls -> 0..MaxMinute] /\ allowance \in [Calls -> Nat]
  /\ intent \in [Calls -> Public!Statuses \cup {"none"}]
  /\ audit \in [Calls -> Public!Statuses \cup {"none"}]
  /\ answer \in [Calls -> Public!Statuses \cup {"none"}]
  /\ started \subseteq Calls /\ barred \subseteq Calls /\ passed \subseteq Calls
  /\ \A c \in Calls : stage[c] = "auditing" => intent[c] \in Public!Statuses

(* What moving a call, and concluding one, does to the others.             *)
LEMMA Going ==
  ASSUME PublicTypes, NEW c \in Calls, NEW from, NEW to \in CallStages, Public!Go(c, from, to)
  PROVE  /\ stage[c] = from /\ stage'[c] = to /\ stage' \in [Calls -> CallStages]
         /\ \A d \in Calls \ {c} : stage'[d] = stage[d]
BY DEF Public!Go, PublicTypes

LEMMA Concluding ==
  ASSUME PublicTypes, NEW c \in Calls, NEW from, NEW status \in Public!Statuses,
         Public!Conclude(c, from, status)
  PROVE  /\ stage[c] = from /\ stage'[c] = "auditing" /\ stage' \in [Calls -> CallStages]
         /\ intent'[c] = status /\ intent' \in [Calls -> Public!Statuses \cup {"none"}]
         /\ \A d \in Calls \ {c} : stage'[d] = stage[d] /\ intent'[d] = intent[d]
<1>1. Public!Go(c, from, "auditing") /\ "auditing" \in CallStages
  BY DEF Public!Conclude, CallStages
<1>2. intent' = [intent EXCEPT ![c] = status]
  BY DEF Public!Conclude
<1>. QED BY <1>1, <1>2, Going DEF PublicTypes

LEMMA PublicTypesInit == Public!PublicSetting /\ Public!Init => PublicTypes
BY DEF Public!PublicSetting, Public!Init, PublicTypes, CallStages, Public!Statuses

LEMMA Assigned ==
  ASSUME NEW S, NEW T, NEW f \in [S -> T], NEW c \in S, NEW v \in T, NEW g,
         g = f \/ g = [f EXCEPT ![c] = v]
  PROVE  g \in [S -> T] /\ \A d \in S \ {c} : g[d] = f[d]
OBVIOUS

(* Where a step of a call leads, and with which status it is concluded.    *)
Leads(c) ==
  /\ stage' \in [Calls -> CallStages] /\ intent' \in [Calls -> Public!Statuses \cup {"none"}]
  /\ \A d \in Calls \ {c} : stage'[d] = stage[d] /\ intent'[d] = intent[d]
  /\ stage'[c] # "auditing" => intent'[c] = intent[c]
  /\ stage'[c] = "auditing" => intent'[c] \in Public!Statuses
  /\ stage'[c] = "auditing" /\ stage[c] \in {"executing", "auditing"} => intent'[c] # "rejected"
  /\ stage'[c] = "executing" => stage[c] = "admitted"
  /\ stage'[c] = "admitted" => stage[c] = "counting"
  /\ stage'[c] \in {"counting", "known"} =>
       stage[c] = "known" \/ (stage[c] \in {"entered", "unknown"} /\ keys[presented[c]] = "active")
  /\ stage'[c] \in {"entered", "unknown"} => stage[c] \in {"new", "entered"}
  /\ stage'[c] # "new" /\ stage[c] # "done"
  /\ stage[c] \in {"executing", "auditing"} => stage'[c] \in {"auditing", "done"}

(* What else an admission does.                                            *)
Admits(c) ==
  /\ UNCHANGED <<scene, quota, keys, shown, rotated, turn, minute, audit, answer, total, tally>>
  /\ \A d \in Calls \ {c} : presented'[d] = presented[d] /\ window'[d] = window[d] /\ allowance'[d] = allowance[d]
  /\ presented' \in [Calls -> Keys \cup {Nil}] /\ window' \in [Calls -> 0..MaxMinute]
  /\ allowance' \in [Calls -> Nat]
  /\ stage[c] # "new" => presented'[c] = presented[c] /\ barred' = barred
  /\ stage[c] = "new" => /\ presented'[c] \in Keys
                         /\ barred' = IF keys[presented'[c]] = "revoked" THEN barred \cup {c} ELSE barred
  /\ stage[c] \notin {"entered", "unknown", "known"} => window'[c] = window[c] /\ allowance'[c] = allowance[c]
  /\ window'[c] \in {window[c], minute}
  /\ started' = IF stage'[c] = "executing" THEN started \cup {c} ELSE started

Counts(c) ==
  /\ counters' \in [0..MaxMinute -> Nat]
  /\ \A w \in 0..MaxMinute : counters'[w] >= counters[w]
  /\ \/ passed' = passed
     \/ /\ stage[c] = "counting" /\ stage'[c] = "admitted"
        /\ window[c] = minute /\ passed' = passed \cup {c}
        /\ counters[minute] < allowance[c] /\ counters'[minute] = counters[minute] + 1

LEMMA AdmitLeads ==
  ASSUME Public!PublicSetting, PublicTypes, NEW c \in Calls, Public!Admit(c)
  PROVE  Leads(c) /\ Admits(c) /\ Counts(c)
<1>. USE DEF Public!accounts, Public!clock, Public!ledger, Public!called
<1>t. /\ "entered" \in CallStages /\ "unknown" \in CallStages /\ "known" \in CallStages
      /\ "counting" \in CallStages /\ "admitted" \in CallStages /\ "executing" \in CallStages
      /\ {"rejected", "failed"} \subseteq Public!Statuses
  BY DEF CallStages, Public!Statuses
(* A move of the stage alone, and a conclusion.                            *)
<1>g. ASSUME NEW from \in {"new", "entered", "unknown", "known", "counting", "admitted"},
             NEW to \in {"entered", "unknown", "known", "counting", "admitted", "executing"},
             Public!Go(c, from, to), UNCHANGED intent,
             <<from, to>> \in {<<"new", "entered">>, <<"entered", "unknown">>, <<"known",
                                                            "counting">>,
                              <<"counting", "admitted">>, <<"admitted", "executing">>}
               \/ (from \in {"entered", "unknown"} /\ to \in {"counting", "known"} /\ keys[presented[c]] = "active")
      PROVE  Leads(c) /\ stage[c] = from /\ stage'[c] = to
  <2>1. to \in CallStages
    BY <1>g DEF CallStages
  <2>2. /\ stage[c] = from /\ stage'[c] = to /\ stage' \in [Calls -> CallStages]
        /\ \A d \in Calls \ {c} : stage'[d] = stage[d]
    BY <1>g, <2>1, Going
  <2>. QED BY <1>g, <2>2 DEF Leads, PublicTypes
<1>c. ASSUME NEW from \in {"new", "entered", "unknown", "known", "counting", "admitted"},
             NEW status \in {"rejected", "failed"}, Public!Conclude(c, from, status)
      PROVE  Leads(c) /\ stage[c] = from /\ stage'[c] = "auditing"
  <2>1. status \in Public!Statuses
    BY <1>c DEF Public!Statuses
  <2>2. /\ stage[c] = from /\ stage'[c] = "auditing" /\ stage' \in [Calls -> CallStages]
        /\ intent'[c] = status /\ intent' \in [Calls -> Public!Statuses \cup {"none"}]
        /\ \A d \in Calls \ {c} : stage'[d] = stage[d] /\ intent'[d] = intent[d]
    BY <1>c, <2>1, Concluding
  <2>. QED BY <1>c, <2>1, <2>2 DEF Leads
<1>s. ASSUME UNCHANGED <<counters, passed>> PROVE Counts(c)
  <2>1. counters \in [0..MaxMinute -> Nat] /\ \A w \in 0..MaxMinute : counters[w] \in Nat
    BY DEF PublicTypes
  <2>. QED BY <1>s, <2>1 DEF Counts
<1>1. ASSUME NEW k \in Keys, Public!Arrive(c, k) PROVE Leads(c) /\ Admits(c) /\ Counts(c)
  <2>1. Leads(c) /\ stage[c] = "new" /\ stage'[c] # "executing"
    <3>1. CASE Public!Go(c, "new", "entered") /\ UNCHANGED intent
      BY <3>1, <1>g
    <3>2. CASE Public!Conclude(c, "new", "rejected")
      BY <3>2, <1>c
    <3>. QED BY <1>1, <3>1, <3>2 DEF Public!Arrive
  <2>2. /\ presented' = [presented EXCEPT ![c] = k]
        /\ barred' = IF keys[k] = "revoked" THEN barred \cup {c} ELSE barred
        /\ UNCHANGED <<scene, quota, keys, shown, rotated, turn, minute, counters, audit,
                       answer, total,
                       tally, window, allowance, started, passed>>
    BY <1>1 DEF Public!Arrive
  <2>3. Admits(c)
    BY <1>1, <2>1, <2>2 DEF Admits, PublicTypes
  <2>. QED BY <2>1, <2>2, <2>3, <1>s
<1>2. CASE Public!Authenticate(c)
  <2>1. Leads(c) /\ stage[c] = "entered" /\ stage'[c] # "executing"
    <3>1. CASE Public!Usable(presented[c]) /\ Public!Go(c, "entered", "counting")
      BY <1>2, <3>1, <1>g DEF Public!Authenticate, Public!Usable
    <3>2. CASE Public!Go(c, "entered", "unknown")
      BY <1>2, <3>2, <1>g DEF Public!Authenticate
    <3>. QED BY <1>2, <3>1, <3>2 DEF Public!Authenticate
  <2>2. /\ allowance' = [allowance EXCEPT ![c] = quota] \/ UNCHANGED allowance
        /\ window' = [window EXCEPT ![c] = minute] \/ UNCHANGED window
        /\ UNCHANGED <<scene, quota, keys, shown, rotated, turn, minute, counters, audit,
                       answer, total,
                       tally, presented, barred, started, passed>>
    BY <1>2 DEF Public!Authenticate, Public!Attribute, Public!ReadClock
  <2>3. Admits(c)
    <3>1. quota \in Nat /\ minute \in 0..MaxMinute
      BY DEF PublicTypes, Public!PublicSetting
    <3>2. allowance' \in [Calls -> Nat] /\ \A d \in Calls \ {c} : allowance'[d] = allowance[d]
      <4>1. allowance \in [Calls -> Nat]
        BY DEF PublicTypes
      <4>2. allowance' = allowance \/ allowance' = [allowance EXCEPT ![c] = quota]
        BY <2>2
      <4>. QED BY <3>1, <4>1, <4>2, Assigned, Zenon
    <3>4. window'[c] \in {window[c], minute}
      BY <2>2 DEF PublicTypes
    <3>3. window' \in [Calls -> 0..MaxMinute] /\ \A d \in Calls \ {c} : window'[d] = window[d]
      <4>1. window \in [Calls -> 0..MaxMinute]
        BY DEF PublicTypes
      <4>2. window' = window \/ window' = [window EXCEPT ![c] = minute]
        BY <2>2
      <4>. QED BY <3>1, <4>1, <4>2, Assigned, Zenon
    <3>. QED BY <2>1, <2>2, <3>2, <3>3, <3>4 DEF Admits, PublicTypes
  <2>. QED BY <2>1, <2>2, <2>3, <1>s
<1>3. CASE Public!AuthenticateClient(c)
  <2>1. Leads(c) /\ stage[c] = "unknown" /\ stage'[c] # "executing"
    <3>1. CASE Public!Known(c) /\ Public!Go(c, "unknown", "known") /\ UNCHANGED intent
      BY <3>1, <1>g DEF Public!Known, Public!Usable
    <3>2. CASE Public!Conclude(c, "unknown", "rejected")
      BY <3>2, <1>c
    <3>. QED BY <1>3, <3>1, <3>2 DEF Public!AuthenticateClient
  <2>2. /\ allowance' = [allowance EXCEPT ![c] = quota] \/ UNCHANGED allowance
        /\ UNCHANGED <<scene, quota, keys, shown, rotated, turn, minute, counters, audit,
                       answer, total,
                       tally, presented, window, barred, started, passed>>
    BY <1>3 DEF Public!AuthenticateClient, Public!Attribute
  <2>3. Admits(c)
    <3>1. quota \in Nat /\ minute \in 0..MaxMinute
      BY DEF PublicTypes, Public!PublicSetting
    <3>2. allowance' \in [Calls -> Nat] /\ \A d \in Calls \ {c} : allowance'[d] = allowance[d]
      <4>1. allowance \in [Calls -> Nat]
        BY DEF PublicTypes
      <4>2. allowance' = allowance \/ allowance' = [allowance EXCEPT ![c] = quota]
        BY <2>2
      <4>. QED BY <3>1, <4>1, <4>2, Assigned, Zenon
    <3>4. window'[c] \in {window[c], minute}
      BY <2>2 DEF PublicTypes
    <3>3. window' \in [Calls -> 0..MaxMinute] /\ \A d \in Calls \ {c} : window'[d] = window[d]
      <4>1. window \in [Calls -> 0..MaxMinute]
        BY DEF PublicTypes
      <4>2. window' = window \/ window' = [window EXCEPT ![c] = minute]
        BY <2>2
      <4>. QED BY <3>1, <4>1, <4>2, Assigned, Zenon
    <3>. QED BY <2>1, <2>2, <3>2, <3>3, <3>4 DEF Admits, PublicTypes
  <2>. QED BY <2>1, <2>2, <2>3, <1>s
<1>4. CASE Public!HasInvokePermission(c)
  <2>1. Leads(c) /\ stage[c] = "known" /\ stage'[c] # "executing"
    <3>1. CASE Public!Go(c, "known", "counting") /\ UNCHANGED intent
      BY <3>1, <1>g
    <3>2. CASE Public!Conclude(c, "known", "rejected")
      BY <3>2, <1>c
    <3>. QED BY <1>4, <3>1, <3>2 DEF Public!HasInvokePermission
  <2>2. /\ window' = [window EXCEPT ![c] = minute] \/ UNCHANGED window
        /\ UNCHANGED <<scene, quota, keys, shown, rotated, turn, minute, counters, audit,
                       answer, total,
                       tally, presented, allowance, barred, started, passed>>
    BY <1>4 DEF Public!HasInvokePermission, Public!ReadClock
  <2>3. Admits(c)
    <3>1. quota \in Nat /\ minute \in 0..MaxMinute
      BY DEF PublicTypes, Public!PublicSetting
    <3>2. allowance' \in [Calls -> Nat] /\ \A d \in Calls \ {c} : allowance'[d] = allowance[d]
      <4>1. allowance \in [Calls -> Nat]
        BY DEF PublicTypes
      <4>2. allowance' = allowance \/ allowance' = [allowance EXCEPT ![c] = quota]
        BY <2>2
      <4>. QED BY <3>1, <4>1, <4>2, Assigned, Zenon
    <3>4. window'[c] \in {window[c], minute}
      BY <2>2 DEF PublicTypes
    <3>3. window' \in [Calls -> 0..MaxMinute] /\ \A d \in Calls \ {c} : window'[d] = window[d]
      <4>1. window \in [Calls -> 0..MaxMinute]
        BY DEF PublicTypes
      <4>2. window' = window \/ window' = [window EXCEPT ![c] = minute]
        BY <2>2
      <4>. QED BY <3>1, <4>1, <4>2, Assigned, Zenon
    <3>. QED BY <2>1, <2>2, <3>2, <3>3, <3>4 DEF Admits, PublicTypes
  <2>. QED BY <2>1, <2>2, <2>3, <1>s
<1>5. CASE Public!EnforceRateLimit(c)
  <2> DEFINE w == window[c]
             allowed == counters[w] < allowance[c]
  <2>1. Leads(c) /\ stage[c] = "counting" /\ stage'[c] # "executing"
    <3>1. CASE Public!Go(c, "counting", "admitted") /\ UNCHANGED intent
      BY <3>1, <1>g
    <3>2. CASE Public!Conclude(c, "counting", "rejected")
      BY <3>2, <1>c
    <3>. QED BY <1>5, <3>1, <3>2 DEF Public!EnforceRateLimit
  <2>2. /\ counters' = [counters EXCEPT ![w] = @ + 1]
        /\ passed' = IF allowed /\ w = minute THEN passed \cup {c} ELSE passed
        /\ UNCHANGED <<scene, quota, keys, shown, rotated, turn, minute, audit, answer, total,
                       tally, presented, window, allowance, barred, started>>
    BY <1>5 DEF Public!EnforceRateLimit
  <2>3. Admits(c)
    BY <2>1, <2>2 DEF Admits, PublicTypes
  <2>4. Counts(c)
    <3>1. /\ counters \in [0..MaxMinute -> Nat] /\ w \in 0..MaxMinute
          /\ \A v \in 0..MaxMinute : counters[v] \in Nat
      BY DEF PublicTypes
    <3>2. /\ counters' \in [0..MaxMinute -> Nat] /\ counters'[w] = counters[w] + 1
          /\ \A v \in 0..MaxMinute : v # w => counters'[v] = counters[v]
      BY <2>2, <3>1
    <3>3. \A v \in 0..MaxMinute : counters'[v] >= counters[v]
      BY <3>1, <3>2
    <3>4. passed' = passed \/ (allowed /\ w = minute /\ passed' = passed \cup {c})
      BY <2>2
    <3>5. allowed => stage'[c] = "admitted"
      <4>1. allowed => Public!Go(c, "counting", "admitted")
        BY <1>5 DEF Public!EnforceRateLimit
      <4>2. "admitted" \in CallStages
        BY DEF CallStages
      <4>. QED BY <4>1, <4>2, Going
    <3>. QED BY <2>1, <3>2, <3>3, <3>4, <3>5 DEF Counts
  <2>. QED BY <2>1, <2>3, <2>4
<1>6. CASE Public!RateLimitUnavailable(c)
  <2>1. Leads(c) /\ stage[c] = "counting" /\ stage'[c] # "executing"
    BY <1>6, <1>c DEF Public!RateLimitUnavailable
  <2>2. /\ \E n \in {0, 1} : counters' = [counters EXCEPT ![window[c]] = @ + n]
        /\ UNCHANGED <<scene, quota, keys, shown, rotated, turn, minute, audit, answer, total,
                       tally, presented, window, allowance, barred, started, passed>>
    BY <1>6 DEF Public!RateLimitUnavailable
  <2>3. Admits(c)
    BY <2>1, <2>2 DEF Admits, PublicTypes
  <2>4. Counts(c)
    <3> DEFINE w == window[c]
    <3>1. /\ counters \in [0..MaxMinute -> Nat] /\ w \in 0..MaxMinute
          /\ \A v \in 0..MaxMinute : counters[v] \in Nat
      BY DEF PublicTypes
    <3>2. PICK n \in {0, 1} : counters' = [counters EXCEPT ![w] = @ + n]
      BY <2>2
    <3>3. /\ counters' \in [0..MaxMinute -> Nat] /\ counters'[w] = counters[w] + n
          /\ \A v \in 0..MaxMinute : v # w => counters'[v] = counters[v]
      BY <3>1, <3>2
    <3>4. \A v \in 0..MaxMinute : counters'[v] >= counters[v]
      BY <3>1, <3>2, <3>3
    <3>. QED BY <2>2, <3>3, <3>4 DEF Counts
  <2>. QED BY <2>1, <2>3, <2>4
<1>7. CASE Public!Validate(c)
  <2>1. Leads(c) /\ stage[c] = "admitted"
    <3>1. CASE Public!Go(c, "admitted", "executing") /\ UNCHANGED intent
      BY <3>1, <1>g
    <3>2. CASE \E status \in {"rejected", "failed"} : Public!Conclude(c, "admitted", status)
      BY <3>2, <1>c
    <3>. QED BY <1>7, <3>1, <3>2 DEF Public!Validate
  <2>2. /\ started' = IF stage'[c] = "executing" THEN started \cup {c} ELSE started
        /\ UNCHANGED <<scene, quota, keys, shown, rotated, turn, minute, counters, audit,
                       answer, total,
                       tally, presented, window, allowance, barred, passed>>
    BY <1>7 DEF Public!Validate
  <2>3. Admits(c)
    BY <2>1, <2>2 DEF Admits, PublicTypes
  <2>. QED BY <2>1, <2>2, <2>3, <1>s
<1>. QED BY <1>1, <1>2, <1>3, <1>4, <1>5, <1>6, <1>7 DEF Public!Admit

(* What the end of a call does.                                            *)
Finishes(c) ==
  /\ UNCHANGED <<scene, quota, keys, shown, rotated, turn, minute, counters, presented, window,
                 allowance,
                 barred, started, passed>>
  /\ \/ UNCHANGED <<audit, total, tally>>
     \/ /\ stage[c] = "auditing" /\ audit[c] = "none"
        /\ audit' = [audit EXCEPT ![c] = intent[c]] /\ Public!Count(c)
  /\ \/ UNCHANGED answer
     \/ audit'[c] = intent[c] /\ intent' = intent /\ answer' = [answer EXCEPT ![c] = intent[c]]
        /\ stage[c] = "auditing" /\ stage'[c] = "done" /\ audit[c] = "none"

LEMMA ServeLeads ==
  ASSUME PublicTypes, NEW c \in Calls, Public!Serving(c)
  PROVE  Leads(c) /\ Finishes(c)
<1>. USE DEF Public!accounts, Public!clock, Public!ledger, Public!called
<1>d. "done" \in CallStages
  BY DEF CallStages
<1>1. CASE Public!RunAgent(c) \/ Public!Disconnect(c)
  <2>1. PICK status \in {"succeeded", "failed"} : Public!Conclude(c, "executing", status)
    BY <1>1 DEF Public!RunAgent, Public!Disconnect
  <2>2. status \in Public!Statuses /\ status # "rejected"
    BY <2>1 DEF Public!Statuses
  <2>3. Leads(c) /\ stage[c] = "executing"
    BY <2>1, <2>2, Concluding DEF Leads
  <2>4. Finishes(c)
    BY <1>1 DEF Public!RunAgent, Public!Disconnect, Finishes
  <2>. QED BY <2>3, <2>4
<1>2. CASE Public!Vanish(c)
  <2>1. stage' = [stage EXCEPT ![c] = "done"] /\ stage[c] \notin {"new", "done"}
    BY <1>2 DEF Public!Vanish
  <2>2. stage'[c] = "done" /\ stage' \in [Calls -> CallStages] /\ \A d \in Calls \ {c} : stage'[d] = stage[d]
    BY <2>1, <1>d DEF PublicTypes
  <2>3. Leads(c)
    BY <1>2, <2>1, <2>2 DEF Public!Vanish, Leads, PublicTypes
  <2>4. Finishes(c)
    BY <1>2 DEF Public!Vanish, Finishes
  <2>. QED BY <2>3, <2>4
<1>3. CASE Public!RecordPublicCall(c)
  <2>1. /\ stage[c] = "auditing" /\ stage'[c] = "done" /\ stage' \in [Calls -> CallStages]
        /\ \A d \in Calls \ {c} : stage'[d] = stage[d]
    BY <1>3, <1>d, Going DEF Public!RecordPublicCall
  <2>2. Leads(c)
    BY <1>3, <2>1 DEF Public!RecordPublicCall, Leads, PublicTypes
  <2>3. /\ audit[c] = "none" /\ audit' = [audit EXCEPT ![c] = intent[c]] /\ Public!Count(c)
        /\ answer' = [answer EXCEPT ![c] = intent[c]] /\ intent' = intent
        /\ UNCHANGED <<scene, quota, keys, shown, rotated, turn, minute, counters, presented,
                       window, allowance,
                       barred, started, passed>>
    BY <1>3 DEF Public!RecordPublicCall, Public!Record, Public!Fresh
  <2>4. audit'[c] = intent[c]
    BY <2>3 DEF PublicTypes
  <2>. QED BY <2>1, <2>2, <2>3, <2>4 DEF Finishes
<1>4. CASE Public!RecordFails(c)
  <2>1. Leads(c) /\ stage[c] = "auditing"
    <3>1. CASE intent[c] = "succeeded" /\ Public!Conclude(c, "auditing", "failed")
      <4>1. "failed" \in Public!Statuses /\ "failed" # "rejected"
        BY DEF Public!Statuses
      <4>. QED BY <3>1, <4>1, Concluding DEF Leads
    <3>2. CASE Public!Go(c, "auditing", "done") /\ UNCHANGED intent
      BY <3>2, <1>d, Going DEF Leads, PublicTypes
    <3>. QED BY <1>4, <3>1, <3>2 DEF Public!RecordFails
  <2>2. /\ Public!Record(c) \/ UNCHANGED <<audit, total, tally>>
        /\ UNCHANGED <<answer, scene, quota, keys, shown, rotated, turn, minute, counters,
                       presented, window,
                       allowance, barred, started, passed>>
    BY <1>4 DEF Public!RecordFails
  <2>3. Finishes(c)
    BY <2>1, <2>2 DEF Finishes, Public!Record, Public!Fresh
  <2>. QED BY <2>1, <2>3
<1>. QED BY <1>1, <1>2, <1>3, <1>4 DEF Public!Serving

(* What administration and time leave alone.                               *)
Aside ==
  UNCHANGED <<stage, presented, window, allowance, intent, audit, answer, total, tally, barred,
              started, passed, scene>>

LEMMA OthersAside ==
  ASSUME Public!Administer \/ Public!Tick \/ \E w \in 0..MaxMinute : Public!Expire(w)
  PROVE  Aside
BY DEF Public!Administer, Public!Change, Public!UpdateAPIClient, Public!DeleteAPIClient,
  Public!Bind, Public!Serve,
  Public!RevokeAPIKey, Public!CreateAPIKey, Public!RevokeLegacyKeys, Public!AbandonRotation,
    Public!IssueLegacyKey,
  Public!Tick, Public!Expire, Public!accounts, Public!clock, Public!ledger, Public!called, Aside

LEMMA PublicTypesNext ==
  ASSUME Public!PublicSetting, PublicTypes, [Public!Next]_(Public!publicVars)
  PROVE  PublicTypes'
<1>1. CASE UNCHANGED Public!publicVars
  BY <1>1 DEF Public!publicVars, Public!accounts, Public!clock, Public!ledger, Public!called,
    PublicTypes
<1>2. ASSUME NEW c \in Calls, Leads(c)
      PROVE  \A d \in Calls : stage'[d] = "auditing" => intent'[d] \in Public!Statuses
  BY <1>2 DEF Leads, PublicTypes
<1>3. ASSUME NEW c \in Calls, Public!Admit(c) PROVE PublicTypes'
  <2>1. Leads(c) /\ Admits(c) /\ Counts(c)
    BY <1>3, AdmitLeads
  <2>2. UNCHANGED <<scene, quota, keys, minute, audit, answer>>
    BY <2>1 DEF Admits
  <2>3. /\ presented' \in [Calls -> Keys \cup {Nil}] /\ window' \in [Calls -> 0..MaxMinute]
        /\ allowance' \in [Calls -> Nat]
    BY <2>1 DEF Admits
  <2>4. counters' \in [0..MaxMinute -> Nat] /\ passed' \subseteq Calls
    BY <2>1, <1>3 DEF Counts, PublicTypes
  <2>5. started' \subseteq Calls /\ barred' \subseteq Calls
    BY <2>1, <1>3 DEF Admits, PublicTypes
  <2>6. stage' \in [Calls -> CallStages] /\ intent' \in [Calls -> Public!Statuses \cup {"none"}]
    BY <2>1 DEF Leads
  <2>. QED BY <1>2, <1>3, <2>1, <2>2, <2>3, <2>4, <2>5, <2>6 DEF PublicTypes
<1>4. ASSUME NEW c \in Calls, Public!Serving(c) PROVE PublicTypes'
  <2>1. Leads(c) /\ Finishes(c)
    BY <1>4, ServeLeads
  <2>2. /\ UNCHANGED <<scene, quota, keys, minute, counters, presented, window, allowance,
                       barred, started, passed>>
    BY <2>1 DEF Finishes
  <2>3. stage' \in [Calls -> CallStages] /\ intent' \in [Calls -> Public!Statuses \cup {"none"}]
    BY <2>1 DEF Leads
  <2>4. audit' \in [Calls -> Public!Statuses \cup {"none"}] /\ answer' \in [Calls -> Public!Statuses \cup {"none"}]
    <3>1. intent[c] \in Public!Statuses \cup {"none"}
      BY <1>4 DEF PublicTypes
    <3>2. audit' = audit \/ audit' = [audit EXCEPT ![c] = intent[c]]
      BY <2>1 DEF Finishes
    <3>3. answer' = answer \/ answer' = [answer EXCEPT ![c] = intent[c]]
      BY <2>1 DEF Finishes
    <3>. QED BY <1>4, <3>1, <3>2, <3>3 DEF PublicTypes
  <2>. QED BY <1>2, <1>4, <2>1, <2>2, <2>3, <2>4 DEF PublicTypes
<1>5. CASE Public!Administer \/ Public!Tick \/ \E w \in 0..MaxMinute : Public!Expire(w)
  <2>1. Aside
    BY <1>5, OthersAside
  <2>2. quota' \in Limits /\ keys' \in [Keys -> {"unused", "active", "revoked"}]
    <3>. quota \in Limits /\ keys \in [Keys -> {"unused", "active", "revoked"}]
      BY DEF PublicTypes
    <3>1. CASE Public!UpdateAPIClient
      BY <3>1 DEF Public!UpdateAPIClient
    <3>2. CASE Public!DeleteAPIClient
      BY <3>2 DEF Public!DeleteAPIClient
    <3>3. ASSUME NEW k \in Keys, Public!RevokeAPIKey(k) \/ Public!CreateAPIKey(k)
          PROVE  quota' \in Limits /\ keys' \in [Keys -> {"unused", "active", "revoked"}]
      BY <3>3 DEF Public!RevokeAPIKey, Public!CreateAPIKey
    <3>4. ASSUME NEW r \in Rotations, NEW k \in Keys, Public!IssueLegacyKey(r, k)
          PROVE  quota' \in Limits /\ keys' \in [Keys -> {"unused", "active", "revoked"}]
      BY <3>4 DEF Public!IssueLegacyKey
    <3>5. CASE \/ Public!Bind \/ Public!Serve \/ Public!Tick \/ \E w \in 0..MaxMinute : Public!Expire(w)
               \/ \E r \in Rotations : Public!RevokeLegacyKeys(r) \/ Public!AbandonRotation(r)
      <4>1. quota' = quota /\ keys' = keys
        BY <3>5 DEF Public!Bind, Public!Serve, Public!Tick, Public!Expire,
          Public!RevokeLegacyKeys,
           Public!AbandonRotation, Public!accounts
      <4>. QED BY <4>1
    <3>. QED BY <1>5, <3>1, <3>2, <3>3, <3>4, <3>5, Zenon DEF Public!Administer
  <2>3. minute' \in 0..MaxMinute
    <3>1. CASE Public!Tick
      <4>1. scene.last \in 0..MaxMinute /\ minute \in 0..MaxMinute /\ MaxMinute \in Nat
        BY DEF PublicTypes, Public!PublicSetting
      <4>. QED BY <3>1, <4>1 DEF Public!Tick
    <3>2. CASE minute' = minute
      BY <3>2 DEF PublicTypes
    <3>. QED
      BY <1>5, <3>1, <3>2 DEF Public!Administer, Public!Change, Public!UpdateAPIClient,
        Public!DeleteAPIClient,
       Public!Bind, Public!Serve, Public!RevokeAPIKey, Public!CreateAPIKey,
         Public!RevokeLegacyKeys,
       Public!AbandonRotation, Public!IssueLegacyKey, Public!Expire, Public!clock
  <2>4. counters' \in [0..MaxMinute -> Nat]
    <3>1. ASSUME NEW w \in 0..MaxMinute, Public!Expire(w) PROVE counters' \in [0..MaxMinute -> Nat]
      BY <3>1 DEF Public!Expire, PublicTypes
    <3>2. CASE counters' = counters
      BY <3>2 DEF PublicTypes
    <3>. QED
      BY <1>5, <3>1, <3>2 DEF Public!Administer, Public!Change, Public!UpdateAPIClient,
        Public!DeleteAPIClient,
       Public!Bind, Public!Serve, Public!RevokeAPIKey, Public!CreateAPIKey,
         Public!RevokeLegacyKeys,
       Public!AbandonRotation, Public!IssueLegacyKey, Public!Tick, Public!clock
  <2>. QED BY <2>1, <2>2, <2>3, <2>4 DEF Aside, PublicTypes
<1>6. scene.calls \subseteq Calls
  BY DEF PublicTypes, Public!PublicSetting
<1>. QED BY <1>1, <1>3, <1>4, <1>5, <1>6 DEF Public!Next

-----------------------------------------------------------------------------
(* A call with a revoked key gets no further than the reason why ...       *)
BarredInv ==
  /\ \A c \in barred : /\ stage[c] \in {"entered", "unknown", "auditing", "done"}
                       /\ presented[c] \in Keys /\ keys[presented[c]] = "revoked"
  /\ \A c \in started : stage[c] \in {"executing", "auditing", "done"}
  /\ barred \cap started = {}

(* ... a key that a rotation has issued was never unused since, and the    *)
(* rotation under way, of which there is one, knows every active key.      *)
RotationInv ==
  /\ turn \in [Rotations -> (SUBSET Keys) \cup {Nil}]
  /\ rotated \subseteq Keys /\ \A k \in rotated : keys[k] # "unused"
  /\ \A r, q \in Rotations : turn[r] # Nil /\ turn[q] # Nil => r = q
  /\ \A r \in Rotations, k \in Keys : turn[r] # Nil /\ keys[k] = "active" => k \in turn[r]
  /\ \A k \in rotated : keys[k] = "active" => k = shown

KeysInv == BarredInv /\ RotationInv

LEMMA KeysInit == Public!PublicSetting /\ Public!Init => KeysInv
<1>. SUFFICES ASSUME Public!PublicSetting, Public!Init PROVE KeysInv
  OBVIOUS
<1>1. BarredInv
  BY DEF Public!Init, BarredInv
<1>2. First \in Keys /\ rotated = {First} /\ shown = First /\ keys[First] = "active"
  BY DEF Public!Init, Public!PublicSetting
<1>3. turn \in [Rotations -> {Nil}] /\ \A r \in Rotations : turn[r] = Nil
  BY DEF Public!Init
<1>. QED BY <1>1, <1>2, <1>3 DEF KeysInv, RotationInv

(* What a step of a call does to the two of them: the keys stay.           *)
LEMMA CallsKeepKeys ==
  ASSUME PublicTypes, KeysInv, NEW c \in Calls, Leads(c), Admits(c) \/ Finishes(c)
  PROVE  KeysInv'
<1>1. RotationInv'
  <2>1. UNCHANGED <<keys, turn, rotated, shown>>
    BY DEF Admits, Finishes
  <2>. QED BY <2>1 DEF KeysInv, RotationInv
<1>2. CASE Admits(c)
  <2>1. \A d \in barred' : /\ stage'[d] \in {"entered", "unknown", "auditing", "done"}
                           /\ presented'[d] \in Keys /\ keys'[presented'[d]] = "revoked"
    <3>. SUFFICES ASSUME NEW d \in barred'
         PROVE  /\ stage'[d] \in {"entered", "unknown", "auditing", "done"}
                /\ presented'[d] \in Keys /\ keys'[presented'[d]] = "revoked"
      OBVIOUS
    <3>1. keys' = keys
      BY <1>2 DEF Admits
    <3>2. CASE d # c
      <4>1. d \in barred /\ d \in Calls
        BY <1>2, <3>2 DEF Admits, PublicTypes
      <4>2. stage'[d] = stage[d] /\ presented'[d] = presented[d]
        BY <1>2, <3>2, <4>1 DEF Admits, Leads
      <4>. QED BY <3>1, <4>1, <4>2 DEF KeysInv, BarredInv
    <3>3. CASE d = c /\ stage[c] = "new"
      <4>1. c \notin barred
        BY <3>3 DEF KeysInv, BarredInv
      <4>2. presented'[c] \in Keys /\ keys[presented'[c]] = "revoked"
        BY <1>2, <3>3, <4>1 DEF Admits
      <4>3. stage'[c] \in {"entered", "unknown", "auditing", "done"}
        BY <3>3 DEF Leads, CallStages
      <4>. QED BY <3>1, <3>3, <4>2, <4>3
    <3>4. CASE d = c /\ stage[c] # "new"
      <4>1. c \in barred /\ presented'[c] = presented[c]
        BY <1>2, <3>4 DEF Admits
      <4>2. /\ stage[c] \in {"entered", "unknown", "auditing", "done"}
            /\ presented[c] \in Keys /\ keys[presented[c]] = "revoked"
        BY <4>1 DEF KeysInv, BarredInv
      <4>3. stage'[c] \in {"entered", "unknown", "auditing", "done"}
        BY <4>2 DEF Leads, CallStages
      <4>. QED BY <3>1, <3>4, <4>1, <4>2, <4>3
    <3>. QED BY <3>2, <3>3, <3>4
  <2>2. \A d \in started' : stage'[d] \in {"executing", "auditing", "done"}
    <3>. SUFFICES ASSUME NEW d \in started' PROVE stage'[d] \in {"executing", "auditing", "done"}
      OBVIOUS
    <3>1. CASE d # c
      <4>1. d \in started /\ d \in Calls
        BY <1>2, <3>1 DEF Admits, PublicTypes
      <4>. QED BY <3>1, <4>1 DEF Leads, KeysInv, BarredInv
    <3>2. CASE d = c /\ stage'[c] # "executing"
      <4>1. c \in started
        BY <1>2, <3>2 DEF Admits
      <4>. QED BY <3>2, <4>1 DEF Leads, KeysInv, BarredInv
    <3>. QED BY <3>1, <3>2
  <2>3. barred' \cap started' = {}
    <3>1. barred' \subseteq barred \cup {c} /\ started' \subseteq started \cup {c}
      BY <1>2 DEF Admits
    <3>2. c \in started' => c \notin barred'
      <4>1. CASE stage'[c] = "executing"
        BY <2>1, <4>1
      <4>2. CASE stage'[c] # "executing" /\ c \in started
        BY <1>2, <4>2 DEF Admits, KeysInv, BarredInv
      <4>. QED BY <1>2, <4>1, <4>2 DEF Admits
    <3>. QED BY <3>1, <3>2 DEF KeysInv, BarredInv
  <2>. QED BY <1>1, <2>1, <2>2, <2>3 DEF KeysInv, BarredInv
<1>3. CASE Finishes(c)
  <2>1. UNCHANGED <<keys, presented, barred, started>>
    BY <1>3 DEF Finishes
  <2>2. \A d \in barred : d \in Calls /\ stage'[d] \in {"entered", "unknown", "auditing", "done"}
    BY SMTT(30) DEF Leads, CallStages, PublicTypes, KeysInv, BarredInv
  <2>3. \A d \in started : d \in Calls /\ stage'[d] \in {"executing", "auditing", "done"}
    BY DEF Leads, PublicTypes, KeysInv, BarredInv
  <2>. QED BY <1>1, <2>1, <2>2, <2>3 DEF KeysInv, BarredInv
<1>. QED BY <1>2, <1>3

LEMMA AdministrationKeepsKeys ==
  ASSUME PublicTypes, KeysInv, Aside,
         Public!Administer \/ Public!Tick \/ \E w \in 0..MaxMinute : Public!Expire(w)
  PROVE  KeysInv'
<1>b. ASSUME \A k \in Keys : keys[k] = "revoked" => keys'[k] = "revoked"
      PROVE  BarredInv'
  BY <1>b DEF Aside, KeysInv, BarredInv
<1>. keys \in [Keys -> {"unused", "active", "revoked"}]
  BY DEF PublicTypes
<1>1. CASE UNCHANGED <<keys, turn, rotated, shown>>
  BY <1>1, <1>b DEF KeysInv, RotationInv
<1>2. CASE Public!DeleteAPIClient
  <2>1. /\ keys' = [k \in Keys |-> IF keys[k] = "active" THEN "revoked" ELSE keys[k]]
        /\ UNCHANGED <<turn, rotated, shown>>
    BY <1>2 DEF Public!DeleteAPIClient
  <2>2. \A k \in Keys : keys'[k] # "active" /\ (keys[k] # "unused" => keys'[k] # "unused")
    BY <2>1
  <2>3. BarredInv'
    BY <2>1, <1>b
  <2>. QED BY <2>1, <2>2, <2>3 DEF KeysInv, RotationInv
<1>3. ASSUME NEW k \in Keys, Public!RevokeAPIKey(k) PROVE KeysInv'
  <2>1. /\ keys' = [keys EXCEPT ![k] = "revoked"] /\ keys[k] = "active"
        /\ UNCHANGED <<turn, rotated, shown>>
    BY <1>3 DEF Public!RevokeAPIKey
  <2>2. \A l \in Keys : /\ keys'[l] = "active" => keys[l] = "active"
                        /\ keys[l] # "unused" => keys'[l] # "unused"
                        /\ keys[l] = "revoked" => keys'[l] = "revoked"
    BY <1>3, <2>1
  <2>3. BarredInv'
    BY <2>2, <1>b
  <2>. QED BY <2>1, <2>2, <2>3 DEF KeysInv, RotationInv
<1>4. ASSUME NEW k \in Keys, Public!CreateAPIKey(k) PROVE KeysInv'
  <2>1. /\ keys' = [keys EXCEPT ![k] = "active"] /\ keys[k] = "unused"
        /\ \A r \in Rotations : turn[r] = Nil
        /\ UNCHANGED <<turn, rotated, shown>>
    BY <1>4 DEF Public!CreateAPIKey, Public!Open
  <2>2. keys'[k] = "active" /\ \A l \in Keys \ {k} : keys'[l] = keys[l]
    BY <1>4, <2>1
  <2>3. BarredInv'
    BY <2>1, <2>2, <1>b
  <2>. QED BY <1>4, <2>1, <2>2, <2>3 DEF KeysInv, RotationInv
<1>5. ASSUME NEW r \in Rotations, Public!RevokeLegacyKeys(r) PROVE KeysInv'
  <2>1. /\ turn' = [turn EXCEPT ![r] = {k \in Keys : keys[k] = "active"}]
        /\ \A q \in Rotations : turn[q] = Nil
        /\ UNCHANGED <<keys, rotated, shown>>
    BY <1>5 DEF Public!RevokeLegacyKeys, Public!Lock, Public!Open
  <2>2. /\ turn'[r] = {k \in Keys : keys[k] = "active"} /\ \A q \in Rotations \ {r} : turn'[q] = Nil
        /\ turn' \in [Rotations -> (SUBSET Keys) \cup {Nil}]
    BY <1>5, <2>1 DEF KeysInv, RotationInv
  <2>3. BarredInv'
    BY <2>1, <1>b
  <2>. QED BY <1>5, <2>1, <2>2, <2>3 DEF KeysInv, RotationInv
<1>6. ASSUME NEW r \in Rotations, Public!AbandonRotation(r) PROVE KeysInv'
  <2>1. turn' = [turn EXCEPT ![r] = Nil] /\ UNCHANGED <<keys, rotated, shown>>
    BY <1>6 DEF Public!AbandonRotation
  <2>2. /\ turn'[r] = Nil /\ \A q \in Rotations \ {r} : turn'[q] = turn[q]
        /\ turn' \in [Rotations -> (SUBSET Keys) \cup {Nil}]
    BY <1>6, <2>1 DEF KeysInv, RotationInv
  <2>3. BarredInv'
    BY <2>1, <1>b
  <2>. QED BY <1>6, <2>1, <2>2, <2>3 DEF KeysInv, RotationInv
<1>7. ASSUME NEW r \in Rotations, NEW k \in Keys, Public!IssueLegacyKey(r, k) PROVE KeysInv'
  <2>1. /\ turn[r] # Nil /\ keys[k] = "unused"
        /\ keys' = [l \in Keys |-> IF l = k THEN "active"
                                   ELSE IF l \in turn[r] THEN "revoked" ELSE keys[l]]
        /\ shown' = k /\ rotated' = rotated \cup {k} /\ turn' = [turn EXCEPT ![r] = Nil]
    BY <1>7 DEF Public!IssueLegacyKey
  <2>2. /\ turn'[r] = Nil /\ \A q \in Rotations \ {r} : turn'[q] = turn[q]
        /\ turn' \in [Rotations -> (SUBSET Keys) \cup {Nil}]
    BY <1>7, <2>1 DEF KeysInv, RotationInv
  <2>3. \A q \in Rotations : turn'[q] = Nil
    BY <1>7, <2>1, <2>2 DEF KeysInv, RotationInv
  <2>4. \A l \in Keys : keys[l] = "active" => l \in turn[r]
    BY <1>7, <2>1 DEF KeysInv, RotationInv
  <2>5. /\ keys'[k] = "active" /\ \A l \in Keys \ {k} : keys'[l] # "active"
        /\ \A l \in Keys : /\ keys[l] = "revoked" => keys'[l] = "revoked"
                           /\ keys[l] # "unused" => keys'[l] # "unused"
    BY <1>7, <2>1, <2>4
  <2>6. BarredInv'
    BY <2>5, <1>b
  <2>. QED BY <1>7, <2>1, <2>2, <2>3, <2>5, <2>6 DEF KeysInv, RotationInv
<1>8. CASE \/ Public!UpdateAPIClient \/ Public!Bind \/ Public!Serve \/ Public!Tick
           \/ \E w \in 0..MaxMinute : Public!Expire(w)
  BY <1>1, <1>8 DEF Public!UpdateAPIClient, Public!Bind, Public!Serve, Public!Tick,
    Public!Expire, Public!accounts
<1>. QED BY <1>2, <1>3, <1>4, <1>5, <1>6, <1>7, <1>8, Zenon DEF Public!Administer

(* The steps there are, by what the lemmas above say of them.              *)
LEMMA StepOfACall ==
  ASSUME Public!PublicSetting, PublicTypes, [Public!Next]_(Public!publicVars)
  PROVE  \/ UNCHANGED Public!publicVars
         \/ \E c \in Calls : Leads(c) /\ Admits(c) /\ Counts(c)
         \/ \E c \in Calls : Leads(c) /\ Finishes(c)
         \/ Aside /\ (Public!Administer \/ Public!Tick \/ \E w \in 0..MaxMinute : Public!Expire(w))
<1>1. scene.calls \subseteq Calls
  BY DEF PublicTypes, Public!PublicSetting
<1>2. ASSUME NEW c \in Calls, Public!Admit(c) PROVE Leads(c) /\ Admits(c) /\ Counts(c)
  BY <1>2, AdmitLeads
<1>3. ASSUME NEW c \in Calls, Public!Serving(c) PROVE Leads(c) /\ Finishes(c)
  BY <1>3, ServeLeads
<1>4. ASSUME Public!Administer \/ Public!Tick \/ \E w \in 0..MaxMinute : Public!Expire(w) PROVE Aside
  BY <1>4, OthersAside
<1>. QED BY <1>1, <1>2, <1>3, <1>4, Zenon DEF Public!Next

LEMMA KeysNext ==
  ASSUME Public!PublicSetting, PublicTypes, KeysInv, [Public!Next]_(Public!publicVars)
  PROVE  KeysInv'
<1>1. CASE UNCHANGED Public!publicVars
  BY <1>1 DEF KeysInv, BarredInv, RotationInv, Public!publicVars, Public!accounts, Public!called
<1>2. CASE \E c \in Calls : Leads(c) /\ (Admits(c) \/ Finishes(c))
  BY <1>2, CallsKeepKeys
<1>3. CASE Aside /\ (Public!Administer \/ Public!Tick \/ \E w \in 0..MaxMinute : Public!Expire(w))
  BY <1>3, AdministrationKeepsKeys
<1>. QED BY <1>1, <1>2, <1>3, StepOfACall, Zenon

(* A call whose key was revoked before it came does not reach the Agent,   *)
(* and of the keys that rotations have issued only the one the publication *)
(* shows is active (production.py:122-192, 261-329).                       *)
THEOREM KeysAreExact == Public!Spec => []KeysExact
<1>0. Public!PublicSetting
  BY PublicAssumption
<1>1. KeysInv => KeysExact
  BY DEF KeysInv, BarredInv, RotationInv, Public!KeysExact, KeysExact
<1>. QED BY <1>0, <1>1, PublicTypesInit, PublicTypesNext, KeysInit, KeysNext, PTL DEF Public!Spec

-----------------------------------------------------------------------------
LEMMA SamePublicSets ==
  ASSUME NEW S
  PROVE  (Public!IsFiniteSet(S) <=> IsFiniteSet(S)) /\ Public!Cardinality(S) = Cardinality(S)
<1>1. Public!IsFiniteSet(S) <=> IsFiniteSet(S)
  BY DEF IsFiniteSet, Public!IsFiniteSet
<1>2. Public!Cardinality(S) = Cardinality(S)
  BY Zenon DEF Cardinality, Public!Cardinality
<1>. QED BY <1>1, <1>2

(* Sets of calls are finite, and one call more is one more.                *)
LEMMA SomeCalls ==
  ASSUME Public!PublicSetting, NEW S \in SUBSET Calls
  PROVE  /\ IsFiniteSet(S) /\ Cardinality(S) \in Nat
         /\ \A c \in Calls : c \notin S => Cardinality(S \cup {c}) = Cardinality(S) + 1
<1>1. IsFiniteSet(Calls)
  BY SamePublicSets DEF Public!PublicSetting
<1>2. IsFiniteSet(S)
  BY <1>1, FS_Subset
<1>. QED BY <1>2, FS_CardinalityType, FS_AddElement

(* The calls that passed in time in a window; Redis has counted them while *)
(* the window lasts, and no call is in a window to come.                   *)
InTime(w) == {c \in passed : window[c] = w}

RateInv ==
  /\ \A c \in Calls : window[c] <= minute
  /\ \A c \in passed : stage[c] \in {"admitted", "executing", "auditing", "done"}
  /\ \A w \in 0..MaxMinute : w >= minute => Cardinality(InTime(w)) <= counters[w]
  /\ \A w \in 0..MaxMinute :
       InTime(w) # {} => \E c \in InTime(w) : Cardinality(InTime(w)) <= allowance[c]

LEMMA RateInit == Public!PublicSetting /\ Public!Init => RateInv
<1>. SUFFICES ASSUME Public!PublicSetting, Public!Init PROVE RateInv
  OBVIOUS
<1>1. \A w \in 0..MaxMinute : InTime(w) = {} /\ Cardinality(InTime(w)) = 0 /\ counters[w] = 0
  BY FS_EmptySet DEF Public!Init, InTime
<1>2. passed = {} /\ minute = 0 /\ \A c \in Calls : window[c] = 0
  BY DEF Public!Init
<1>. QED BY <1>1, <1>2 DEF RateInv

LEMMA RateNext ==
  ASSUME Public!PublicSetting, PublicTypes, RateInv, [Public!Next]_(Public!publicVars)
  PROVE  RateInv'
<1>t. /\ minute \in 0..MaxMinute /\ MaxMinute \in Nat /\ passed \subseteq Calls
      /\ window \in [Calls -> 0..MaxMinute] /\ counters \in [0..MaxMinute -> Nat]
      /\ allowance \in [Calls -> Nat]
  BY DEF PublicTypes, Public!PublicSetting
<1>s. \A w \in 0..MaxMinute : InTime(w) \in SUBSET Calls /\ Cardinality(InTime(w)) \in Nat
  BY <1>t, SomeCalls DEF InTime
(* Nobody passes: what has passed has not got another window or limit.     *)
<1>1. ASSUME passed' = passed, \A c \in passed : window'[c] = window[c] /\ allowance'[c] = allowance[c],
             minute' \in 0..MaxMinute, minute' >= minute, \A c \in Calls : window'[c] <= minute',
             \A c \in passed : stage'[c] \in {"admitted", "executing", "auditing", "done"},
             \A w \in 0..MaxMinute : w >= minute => counters'[w] \in Nat /\ counters'[w] >= counters[w]
      PROVE  RateInv'
  <2>1. \A w \in 0..MaxMinute : InTime(w)' = InTime(w)
    BY <1>1 DEF InTime
  <2>2. \A w \in 0..MaxMinute : w >= minute' => Cardinality(InTime(w)) <= counters'[w]
    <3>. SUFFICES ASSUME NEW w \in 0..MaxMinute, w >= minute' PROVE Cardinality(InTime(w)) <= counters'[w]
      OBVIOUS
    <3>1. w >= minute
      BY <1>t, <1>1
    <3>2. Cardinality(InTime(w)) <= counters[w] /\ counters'[w] >= counters[w]
      BY <1>1, <3>1 DEF RateInv
    <3>3. Cardinality(InTime(w)) \in Nat /\ counters[w] \in Nat /\ counters'[w] \in Nat
      BY <1>s, <1>t, <1>1, <3>1
    <3>. QED BY <3>2, <3>3
  <2>3. \A w \in 0..MaxMinute : Cardinality(InTime(w))' = Cardinality(InTime(w))
    BY <2>1
  <2>4. \A w \in 0..MaxMinute : InTime(w) # {} => \E c \in InTime(w) : Cardinality(InTime(w)) <= allowance'[c]
    <3>. SUFFICES ASSUME NEW w \in 0..MaxMinute, InTime(w) # {}
         PROVE  \E c \in InTime(w) : Cardinality(InTime(w)) <= allowance'[c]
      OBVIOUS
    <3>1. PICK c \in InTime(w) : Cardinality(InTime(w)) <= allowance[c]
      BY DEF RateInv
    <3>2. allowance'[c] = allowance[c]
      BY <1>1 DEF InTime
    <3>. QED BY <3>1, <3>2
  <2>. QED BY <1>1, <2>1, <2>2, <2>3, <2>4 DEF RateInv
<1>2. CASE UNCHANGED Public!publicVars
  <2>1. UNCHANGED <<passed, window, allowance, minute, stage, counters>>
    BY <1>2 DEF Public!publicVars, Public!called, Public!clock
  <2>2. minute' >= minute /\ \A w \in 0..MaxMinute : counters'[w] \in Nat /\ counters'[w] >= counters[w]
    BY <1>t, <2>1
  <2>. QED BY <1>1, <1>t, <2>1, <2>2 DEF RateInv
<1>3. ASSUME NEW c \in Calls, Leads(c), Admits(c), Counts(c) PROVE RateInv'
  <2>1. /\ minute' = minute
        /\ \A d \in passed : window'[d] = window[d] /\ allowance'[d] = allowance[d]
    <3>. SUFFICES ASSUME NEW d \in passed
         PROVE  window'[d] = window[d] /\ allowance'[d] = allowance[d]
      BY <1>3 DEF Admits
    <3>1. CASE d = c
      BY <1>3, <3>1 DEF Admits, RateInv
    <3>2. CASE d # c
      BY <1>3, <1>t, <3>2 DEF Admits
    <3>. QED BY <3>1, <3>2
  <2>2. \A d \in passed : stage'[d] \in {"admitted", "executing", "auditing", "done"}
    <3>. SUFFICES ASSUME NEW d \in passed
         PROVE  stage'[d] \in {"admitted", "executing", "auditing", "done"}
      OBVIOUS
    <3>1. d \in Calls /\ stage[d] \in {"admitted", "executing", "auditing", "done"}
      BY <1>t DEF RateInv
    <3>2. stage' \in [Calls -> CallStages]
      BY <1>3 DEF Leads
    <3>. QED BY <1>3, <3>1, <3>2 DEF Leads, CallStages
  <2>3. \A d \in Calls : window'[d] <= minute
    <3>1. \A d \in Calls \ {c} : window'[d] = window[d]
      BY <1>3 DEF Admits
    <3>2. window'[c] = window[c] \/ window'[c] = minute
      BY <1>3 DEF Admits
    <3>3. \A d \in Calls : window[d] \in Nat /\ window[d] <= minute
      BY <1>t DEF RateInv
    <3>4. minute <= minute
      BY <1>t
    <3>. QED BY <1>3, <3>1, <3>2, <3>3, <3>4, Zenon
  <2>4. CASE passed' = passed
    BY <1>1, <1>3, <1>t, <2>1, <2>2, <2>3, <2>4 DEF Counts
  <2>5. CASE /\ stage[c] = "counting" /\ stage'[c] = "admitted"
             /\ window[c] = minute /\ passed' = passed \cup {c}
             /\ counters[minute] < allowance[c] /\ counters'[minute] = counters[minute] + 1
    <3>n. PICK now \in 0..MaxMinute : now = minute
      BY <1>t
    <3>. DEFINE before == Cardinality(InTime(now))
    <3>1. c \notin passed /\ window'[c] = minute /\ allowance'[c] = allowance[c]
      BY <1>3, <2>5 DEF RateInv, Admits
    <3>2. InTime(now)' = InTime(now) \cup {c} /\ c \notin InTime(now)
      BY <2>1, <2>5, <3>n, <3>1 DEF InTime
    <3>3. \A w \in 0..MaxMinute : w # now => InTime(w)' = InTime(w)
      BY <2>1, <2>5, <3>n, <3>1 DEF InTime
    <3>4. Cardinality(InTime(now))' = before + 1
      <4>1. Cardinality(InTime(now) \cup {c}) = before + 1
        BY <1>t, <1>s, <1>3, <3>2, SomeCalls
      <4>. QED BY <3>2, <4>1
    <3>5. before <= counters[minute] /\ before \in Nat /\ counters[minute] \in Nat /\ allowance[c] \in Nat
      BY <1>t, <1>s, <1>3, <3>n DEF RateInv
    <3>. HIDE DEF before
    <3>6. before + 1 <= counters'[now] /\ before + 1 <= allowance'[c]
      BY <2>5, <3>n, <3>1, <3>5
    <3>7. ASSUME NEW w \in 0..MaxMinute, w >= minute' PROVE Cardinality(InTime(w))' <= counters'[w]
      <4>1. CASE w = now
        <5>1. Cardinality(InTime(now))' <= counters'[now]
          BY <3>4, <3>6
        <5>. QED BY <4>1, <5>1
      <4>2. CASE w # now
        <5>1. Cardinality(InTime(w)) <= counters[w] /\ counters'[w] >= counters[w]
          BY <1>3, <2>1, <3>7 DEF RateInv, Counts
        <5>2. counters[w] \in Nat /\ counters'[w] \in Nat /\ Cardinality(InTime(w)) \in Nat
          BY <1>3, <1>t, <1>s, <3>7 DEF Counts
        <5>3. Cardinality(InTime(w))' = Cardinality(InTime(w))
          BY <3>3, <3>7, <4>2
        <5>. QED BY <5>1, <5>2, <5>3
      <4>. QED BY <4>1, <4>2
    <3>8. ASSUME NEW w \in 0..MaxMinute, InTime(w)' # {}
          PROVE  \E d \in InTime(w)' : Cardinality(InTime(w))' <= allowance'[d]
      <4>1. CASE w = now
        <5>1. c \in InTime(now)' /\ Cardinality(InTime(now))' <= allowance'[c]
          BY <3>2, <3>4, <3>6
        <5>. QED BY <4>1, <5>1
      <4>2. CASE w # now
        <5>1. InTime(w)' = InTime(w) /\ Cardinality(InTime(w))' = Cardinality(InTime(w))
          BY <3>3, <3>8, <4>2
        <5>2. PICK d \in InTime(w) : Cardinality(InTime(w)) <= allowance[d]
          BY <3>8, <5>1 DEF RateInv
        <5>3. allowance'[d] = allowance[d]
          BY <2>1 DEF InTime
        <5>. QED BY <5>1, <5>2, <5>3
      <4>. QED BY <4>1, <4>2
    <3>9. \A d \in passed' : stage'[d] \in {"admitted", "executing", "auditing", "done"}
      BY <2>2, <2>5
    <3>. QED BY <2>1, <2>3, <3>7, <3>8, <3>9 DEF RateInv
  <2>. QED BY <1>3, <2>4, <2>5 DEF Counts
<1>4. ASSUME NEW c \in Calls, Leads(c), Finishes(c) PROVE RateInv'
  <2>1. UNCHANGED <<passed, window, allowance, minute, counters>>
    BY <1>4 DEF Finishes
  <2>2. \A d \in passed : stage'[d] \in {"admitted", "executing", "auditing", "done"}
    BY <1>4, <1>t DEF Leads, RateInv, CallStages
  <2>. QED BY <1>1, <1>t, <2>1, <2>2 DEF RateInv
<1>5. CASE Aside /\ (Public!Administer \/ Public!Tick \/ \E w \in 0..MaxMinute : Public!Expire(w))
  <2>1. UNCHANGED <<passed, window, allowance, stage>>
    BY <1>5 DEF Aside
  <2>2. minute' \in 0..MaxMinute /\ minute' >= minute
    <3>1. CASE Public!Tick
      <4>1. minute' = minute + 1 /\ minute < scene.last
        BY <3>1 DEF Public!Tick
      <4>2. scene.last \in 0..MaxMinute
        BY DEF PublicTypes, Public!PublicSetting
      <4>. QED BY <1>t, <4>1, <4>2
    <3>2. CASE minute' = minute
      BY <3>2, <1>t
    <3>. QED
      BY <1>5, <3>1, <3>2 DEF Public!Administer, Public!Change, Public!UpdateAPIClient,
        Public!DeleteAPIClient,
         Public!Bind, Public!Serve, Public!RevokeAPIKey, Public!CreateAPIKey,
           Public!RevokeLegacyKeys,
         Public!AbandonRotation, Public!IssueLegacyKey, Public!Expire, Public!clock
  <2>3. \A w \in 0..MaxMinute : w >= minute => counters'[w] \in Nat /\ counters'[w] >= counters[w]
    <3>1. ASSUME NEW v \in 0..MaxMinute, Public!Expire(v)
          PROVE  \A w \in 0..MaxMinute : w >= minute => counters'[w] = counters[w]
      BY <1>t, <3>1 DEF Public!Expire, Public!Over
    <3>2. CASE counters' = counters
      BY <3>2, <1>t
    <3>3. counters' = counters \/ \E v \in 0..MaxMinute : Public!Expire(v)
      BY <1>5 DEF Public!Administer, Public!Change, Public!UpdateAPIClient,
        Public!DeleteAPIClient,
         Public!Bind, Public!Serve, Public!RevokeAPIKey, Public!CreateAPIKey,
           Public!RevokeLegacyKeys,
         Public!AbandonRotation, Public!IssueLegacyKey, Public!Tick, Public!clock
    <3>. QED BY <1>t, <3>1, <3>2, <3>3
  <2>4. \A c \in Calls : window'[c] <= minute'
    BY <1>t, <2>1, <2>2 DEF RateInv
  <2>. QED BY <1>1, <2>1, <2>2, <2>3, <2>4 DEF RateInv
<1>. QED BY <1>2, <1>3, <1>4, <1>5, StepOfACall, Zenon

(* Of the calls that are counted while their minute lasts no more pass     *)
(* than the highest limit that one of them has read, however they overlap  *)
(* (production.py:1160-1189).                                              *)
THEOREM RatesAreBounded == Public!Spec => []RateBound
<1>0. Public!PublicSetting
  BY PublicAssumption
<1>1. RateInv => RateBound
  BY SamePublicSets DEF RateInv, InTime, Public!RateBound, RateBound
<1>. QED BY <1>0, <1>1, PublicTypesInit, PublicTypesNext, RateInit, RateNext, PTL DEF Public!Spec

-----------------------------------------------------------------------------
(* A row is written when a call is concluded, for an intent that is not to *)
(* reject what has reached the Agent, and with it the counters.            *)
Told(c) ==
  /\ audit[c] # "none" => stage[c] \in {"auditing", "done"}
  /\ stage[c] \notin {"auditing", "done"} => intent[c] = "none"
  /\ intent[c] = "rejected" \/ audit[c] = "rejected" => c \notin started
  /\ answer[c] # "none" => audit[c] = answer[c]
  /\ c \in started => stage[c] \in {"executing", "auditing", "done"}

Succeeded == {c \in Calls : audit[c] = "succeeded"}
Unsuccessful == {c \in Calls : audit[c] \in {"failed", "rejected"}}

Tallied ==
  /\ tally \in [success : Nat, failure : Nat]
  /\ total = Cardinality(Succeeded) /\ tally.success = total
  /\ tally.failure = Cardinality(Unsuccessful)

AuditInv == Tallied /\ \A c \in Calls : Told(c)

LEMMA AuditInit == Public!PublicSetting /\ Public!Init => AuditInv
<1>. SUFFICES ASSUME Public!PublicSetting, Public!Init PROVE AuditInv
  OBVIOUS
<1>1. Succeeded = {} /\ Unsuccessful = {}
  BY DEF Public!Init, Succeeded, Unsuccessful
<1>2. Cardinality(Succeeded) = 0 /\ Cardinality(Unsuccessful) = 0
  BY <1>1, FS_EmptySet
<1>3. Tallied
  BY <1>2 DEF Public!Init, Tallied
<1>4. \A c \in Calls : Told(c)
  BY DEF Public!Init, Told
<1>. QED BY <1>3, <1>4 DEF AuditInv

(* The call itself, and the others.                                        *)
LEMMA AdmittedCallIsTold ==
  ASSUME PublicTypes, AuditInv, NEW c \in Calls, Leads(c), Admits(c)
  PROVE  AuditInv'
<1>1. UNCHANGED <<audit, answer, total, tally>>
  BY DEF Admits
<1>2. Tallied'
  BY <1>1 DEF AuditInv, Tallied, Succeeded, Unsuccessful
<1>3. ASSUME NEW d \in Calls, d # c PROVE Told(d)'
  <2>1. stage'[d] = stage[d] /\ intent'[d] = intent[d] /\ (d \in started' <=> d \in started)
    BY <1>3 DEF Leads, Admits
  <2>. QED BY <1>1, <1>3, <2>1 DEF AuditInv, Told
<1>4. Told(c)'
  <2>1. /\ Told(c) /\ stage[c] \in CallStages
        /\ stage'[c] \in CallStages /\ intent'[c] \in Public!Statuses \cup {"none"}
    BY DEF AuditInv, PublicTypes, Leads
  <2>2. audit[c] # "none" => stage'[c] \in {"auditing", "done"}
    BY <2>1 DEF Told, Leads
  <2>3. stage'[c] \notin {"auditing", "done"} => intent'[c] = "none"
    BY <2>1 DEF Told, Leads, CallStages
  <2>4. c \in started' => stage'[c] \in {"executing", "auditing", "done"}
    BY <2>1 DEF Told, Leads, Admits
  <2>5. intent'[c] = "rejected" => c \notin started'
    <3>1. CASE stage'[c] = "auditing" /\ c \in started
      BY <2>1, <3>1 DEF Told, Leads
    <3>2. CASE stage'[c] # "auditing" /\ c \in started
      BY <2>1, <3>2 DEF Told, Leads
    <3>3. CASE c \notin started
      BY <2>1, <2>3, <3>3 DEF Admits
    <3>. QED BY <3>1, <3>2, <3>3
  <2>6. audit[c] = "rejected" => c \notin started'
    BY <2>1 DEF Told, Leads, Admits
  <2>. QED BY <1>1, <2>1, <2>2, <2>3, <2>4, <2>5, <2>6 DEF Told
<1>. QED BY <1>2, <1>3, <1>4 DEF AuditInv

LEMMA RecordCounts ==
  ASSUME Public!PublicSetting, PublicTypes, AuditInv, NEW c \in Calls, stage[c] = "auditing", audit[c] = "none",
         audit' = [audit EXCEPT ![c] = intent[c]], Public!Count(c)
  PROVE  Tallied'
<1>1. /\ audit'[c] = intent[c] /\ \A d \in Calls \ {c} : audit'[d] = audit[d]
      /\ intent[c] \in {"succeeded", "failed", "rejected"}
  BY DEF PublicTypes, Public!Statuses
<1>2. Succeeded \in SUBSET Calls /\ Unsuccessful \in SUBSET Calls /\ c \notin Succeeded /\ c \notin Unsuccessful
  BY DEF Succeeded, Unsuccessful
<1>3. /\ Cardinality(Succeeded) \in Nat /\ Cardinality(Unsuccessful) \in Nat
      /\ Cardinality(Succeeded \cup {c}) = Cardinality(Succeeded) + 1
      /\ Cardinality(Unsuccessful \cup {c}) = Cardinality(Unsuccessful) + 1
  BY <1>2, SomeCalls
<1>4. CASE intent[c] = "succeeded"
  <2>1. Succeeded' = Succeeded \cup {c} /\ Unsuccessful' = Unsuccessful
    BY <1>1, <1>4 DEF Succeeded, Unsuccessful
  <2>2. /\ Cardinality(Succeeded)' = Cardinality(Succeeded) + 1
        /\ Cardinality(Unsuccessful)' = Cardinality(Unsuccessful)
    BY <1>3, <2>1
  <2>3. total' = total + 1 /\ tally' = [tally EXCEPT !.success = @ + 1]
    BY <1>4 DEF Public!Count
  <2>4. /\ tally \in [success : Nat, failure : Nat] /\ tally.success = total
        /\ total = Cardinality(Succeeded) /\ tally.failure = Cardinality(Unsuccessful)
    BY DEF AuditInv, Tallied
  <2>5. /\ tally' \in [success : Nat, failure : Nat]
        /\ tally'.success = tally.success + 1 /\ tally'.failure = tally.failure
    BY <2>3, <2>4
  <2>. QED BY <2>2, <2>3, <2>4, <2>5 DEF Tallied
<1>5. CASE intent[c] # "succeeded"
  <2>1. Unsuccessful' = Unsuccessful \cup {c} /\ Succeeded' = Succeeded
    BY <1>1, <1>5 DEF Succeeded, Unsuccessful
  <2>2. /\ Cardinality(Unsuccessful)' = Cardinality(Unsuccessful) + 1
        /\ Cardinality(Succeeded)' = Cardinality(Succeeded)
    BY <1>3, <2>1
  <2>3. total' = total /\ tally' = [tally EXCEPT !.failure = @ + 1]
    BY <1>5 DEF Public!Count
  <2>4. /\ tally \in [success : Nat, failure : Nat] /\ tally.success = total
        /\ total = Cardinality(Succeeded) /\ tally.failure = Cardinality(Unsuccessful)
    BY DEF AuditInv, Tallied
  <2>5. /\ tally' \in [success : Nat, failure : Nat]
        /\ tally'.success = tally.success /\ tally'.failure = tally.failure + 1
    BY <2>3, <2>4
  <2>. QED BY <2>2, <2>3, <2>4, <2>5 DEF Tallied
<1>. QED BY <1>4, <1>5

LEMMA ServedCallIsTold ==
  ASSUME Public!PublicSetting, PublicTypes, AuditInv, NEW c \in Calls, Leads(c), Finishes(c)
  PROVE  AuditInv'
<1>1. started' = started
  BY DEF Finishes
<1>2. Tallied'
  <2>1. CASE UNCHANGED <<audit, total, tally>>
    BY <2>1 DEF AuditInv, Tallied, Succeeded, Unsuccessful
  <2>2. CASE /\ stage[c] = "auditing" /\ audit[c] = "none"
             /\ audit' = [audit EXCEPT ![c] = intent[c]] /\ Public!Count(c)
    BY <2>2, RecordCounts
  <2>. QED BY <2>1, <2>2 DEF Finishes
<1>3. ASSUME NEW d \in Calls, d # c PROVE Told(d)'
  <2>1. stage'[d] = stage[d] /\ intent'[d] = intent[d]
    BY <1>3 DEF Leads
  <2>2. audit'[d] = audit[d] /\ answer'[d] = answer[d]
    BY <1>3 DEF Finishes, PublicTypes
  <2>. QED BY <1>1, <1>3, <2>1, <2>2 DEF AuditInv, Told
<1>4. Told(c)'
  <2>1. /\ Told(c) /\ stage[c] \in CallStages /\ stage'[c] \in CallStages
        /\ answer \in [Calls -> Public!Statuses \cup {"none"}] /\ audit \in [Calls -> Public!Statuses \cup {"none"}]
        /\ intent'[c] \in Public!Statuses \cup {"none"} /\ (stage[c] = "auditing" => intent[c] \in Public!Statuses)
        /\ "none" \notin Public!Statuses
    BY DEF AuditInv, PublicTypes, Leads, Public!Statuses
  <2>2. \/ audit'[c] = audit[c]
        \/ audit[c] = "none" /\ stage[c] = "auditing" /\ audit'[c] = intent[c]
    BY <2>1 DEF Finishes
  <2>3. audit'[c] # "none" => stage'[c] \in {"auditing", "done"}
    BY <2>1, <2>2 DEF Told, Leads
  <2>4. stage'[c] \notin {"auditing", "done"} => intent'[c] = "none"
    BY <2>1 DEF Told, Leads, CallStages
  <2>5. c \in started' => stage'[c] \in {"executing", "auditing", "done"}
    BY <1>1, <2>1 DEF Told, Leads
  <2>6. intent'[c] = "rejected" => c \notin started'
    <3>1. CASE stage'[c] = "auditing" /\ c \in started
      BY <2>1, <3>1 DEF Told, Leads
    <3>2. CASE stage'[c] # "auditing" /\ c \in started
      BY <2>1, <3>2 DEF Told, Leads
    <3>. QED BY <1>1, <3>1, <3>2
  <2>7. audit'[c] = "rejected" => c \notin started'
    BY <1>1, <2>1, <2>2 DEF Told
  <2>8. answer'[c] # "none" => audit'[c] = answer'[c]
    <3>1. CASE answer' = answer
      BY <2>1, <2>2, <3>1 DEF Told
    <3>2. CASE audit'[c] = intent[c] /\ answer' = [answer EXCEPT ![c] = intent[c]]
      BY <2>1, <3>2
    <3>. QED BY <3>1, <3>2 DEF Finishes
  <2>. QED BY <2>3, <2>4, <2>5, <2>6, <2>7, <2>8 DEF Told
<1>. QED BY <1>2, <1>3, <1>4 DEF AuditInv

LEMMA AuditNext ==
  ASSUME Public!PublicSetting, PublicTypes, AuditInv, [Public!Next]_(Public!publicVars)
  PROVE  AuditInv'
<1>1. ASSUME UNCHANGED <<stage, intent, audit, answer, total, tally, started>> PROVE AuditInv'
  BY <1>1 DEF AuditInv, Told, Tallied, Succeeded, Unsuccessful
<1>2. CASE UNCHANGED Public!publicVars
  BY <1>1, <1>2 DEF Public!publicVars, Public!ledger, Public!called
<1>3. CASE Aside
  BY <1>1, <1>3 DEF Aside
<1>4. CASE \E c \in Calls : Leads(c) /\ Admits(c)
  BY <1>4, AdmittedCallIsTold
<1>5. CASE \E c \in Calls : Leads(c) /\ Finishes(c)
  BY <1>5, ServedCallIsTold
<1>. QED BY <1>2, <1>3, <1>4, <1>5, StepOfACall, Zenon

(* A caller finds in the audit what it was told, what is recorded as       *)
(* rejected never reached the Agent, and the counters of the publication   *)
(* and of the day are those of the audit rows, even when the record of a   *)
(* stream is tried twice (publications.py:559-649, production.py:332-403). *)
THEOREM AuditDoesAgree == Public!Spec => []AuditAgrees
<1>0. Public!PublicSetting
  BY PublicAssumption
<1>1. AuditInv => AuditAgrees
  BY SamePublicSets DEF AuditInv, Told, Tallied, Succeeded, Unsuccessful, Public!AuditAgrees,
    AuditAgrees
<1>. QED BY <1>0, <1>1, PublicTypesInit, PublicTypesNext, AuditInit, AuditNext,
  PTL DEF Public!Spec

-----------------------------------------------------------------------------
(* ModelRegistry: the registered models.                                   *)
(* The operations read in one transaction and write in another: what was   *)
(* read is still so in the second as long as nobody overtook the client,   *)
(* and who has written is known to have overtaken.                         *)

Operations == {"create", "edit", "test", "enable", "disable", "choose", "bind", "delete"}
Healths    == {"unknown", "online", "offline"}
Demands    == [op : Operations, model : Models, version : Nat, health : Healths,
               enabled : BOOLEAN, default : BOOLEAN]

RegistryTypes ==
  /\ menu \in Menus
  /\ listed \subseteq Models /\ usable \subseteq listed /\ preferred \in usable \cup {Nil}
  /\ version \in [Models -> Nat] /\ checked \in [Models -> Nat] /\ health \in [Models -> Healths]
  /\ uses \in [Agents -> Models \cup {Nil}]
  /\ demand \in [Clients -> Demands \cup {Registry!Nothing}]

(* What a client read is still so, unless it was overtaken.                *)
UpToDate(c) ==
  c \notin overtaken =>
    /\ demand[c].op = "test" => demand[c].version = version[demand[c].model]
    /\ demand[c].op = "edit" => demand[c].health = health[demand[c].model]
    /\ demand[c].op = "bind" => demand[c].model \in listed
    /\ demand[c].op = "delete" =>
         demand[c].model # preferred /\ ~Registry!Referenced(demand[c].model)
    /\ demand[c].op = "choose" /\ demand[c].default => preferred = demand[c].model

Current(m) ==
  /\ health[m] # "unknown" /\ m \notin forgiven => checked[m] = version[m]
  /\ m \notin listed => health[m] = "unknown"

RegistryInv ==
  /\ RegistryTypes
  /\ \A c \in Clients : UpToDate(c)
  /\ \A m \in Models : Current(m)

(* What a step may not do to what must be complete.                        *)
Excused == \E c \in Clients : c \in overtaken /\ demand'[c] # demand[c]

StaysComplete ==
  /\ preferred # Nil /\ preferred' = Nil => Excused
  /\ \A a \in Agents : uses'[a] \in Models \ listed' =>
       \/ Excused
       \/ uses'[a] = uses[a] /\ uses[a] \notin listed
       \/ demand' = demand

LEMMA RegistryInit == Registry!RegistrySetting /\ Registry!Init => RegistryInv
<1>. SUFFICES ASSUME Registry!RegistrySetting, Registry!Init PROVE RegistryInv
  OBVIOUS
<1>1. demand = [c \in Clients |-> Registry!Nothing] /\ \A c \in Clients : demand[c].op = "none"
  BY DEF Registry!Init, Registry!Nothing
<1>2. RegistryTypes
  BY <1>1 DEF Registry!Init, Registry!RegistrySetting, RegistryTypes, Healths
<1>3. \A c \in Clients : UpToDate(c)
  BY <1>1 DEF UpToDate
<1>4. \A m \in Models : Current(m)
  BY DEF Registry!Init, Current
<1>. QED BY <1>2, <1>3, <1>4 DEF RegistryInv

(* A transaction answers one client and overtakes those who wait to change *)
(* the same model.                                                         *)
LEMMA Committing ==
  ASSUME RegistryInv, NEW c \in Clients, NEW op \in Operations, Registry!Commit(c, op)
  PROVE  /\ demand[c].op = op /\ demand[c] \in Demands /\ menu' = menu
         /\ demand'[c] = Registry!Nothing /\ demand' \in [Clients -> Demands \cup {Registry!Nothing}]
         /\ \A d \in Clients \ {c} : /\ demand'[d] = demand[d]
                                     /\ d \notin overtaken' =>
                                          /\ d \notin overtaken
                                          /\ demand[d].op \in {"edit", "test", "delete", "bind", "choose"} =>
                                               demand[d].model # demand[c].model
                                          /\ op \in {"create", "choose"} => demand[d].op # "choose"
         /\ c \in overtaken => Excused
<1>1. demand[c].op = op /\ menu' = menu /\ demand' = [demand EXCEPT ![c] = Registry!Nothing]
  BY DEF Registry!Commit
<1>2. demand \in [Clients -> Demands \cup {Registry!Nothing}]
  BY DEF RegistryInv, RegistryTypes
<1>3. demand[c] \in Demands
  <2>1. Registry!Nothing.op = "none" /\ "none" \notin Operations
    BY DEF Registry!Nothing, Operations
  <2>. QED BY <1>1, <1>2, <2>1
<1>4. /\ demand'[c] = Registry!Nothing /\ demand' \in [Clients -> Demands \cup {Registry!Nothing}]
      /\ \A d \in Clients \ {c} : demand'[d] = demand[d]
  BY <1>1, <1>2
<1>5. overtaken' = (overtaken \ {c}) \cup {d \in Clients \ {c} :
         \/ /\ demand[d].model = demand[c].model
            /\ demand[d].op \in {"edit", "test", "delete", "bind", "choose"}
         \/ demand[d].op = "choose" /\ op \in {"create", "choose"}}
  BY DEF Registry!Commit
<1>6. demand'[c].op = "none" /\ demand[c].op # "none"
  BY <1>1, <1>4 DEF Registry!Nothing, Operations
<1>7. c \in overtaken => Excused
  BY <1>6 DEF Excused
<1>. QED BY <1>1, <1>3, <1>4, <1>5, <1>7

LEMMA OthersUpToDate ==
  ASSUME RegistryInv, NEW c \in Clients, NEW op \in Operations, Registry!Commit(c, op),
         \A n \in Models \ {demand[c].model} :
            /\ version'[n] = version[n] /\ health'[n] = health[n]
            /\ n \in listed => n \in listed'
            /\ preferred' = n => preferred = n
            /\ preferred = n /\ op \notin {"create", "choose"} => preferred' = n
            /\ Registry!Referenced(n)' => Registry!Referenced(n)
  PROVE  \A d \in Clients : UpToDate(d)'
<1>. SUFFICES ASSUME NEW d \in Clients PROVE UpToDate(d)'
  OBVIOUS
<1>1. CASE d = c
  <2>1. demand'[c].op = "none"
    BY Committing DEF Registry!Nothing
  <2>. QED BY <1>1, <2>1 DEF UpToDate
<1>2. CASE d # c /\ d \notin overtaken' /\ demand[d].op \in {"edit", "test", "delete", "bind", "choose"}
  <2>1. demand'[d] = demand[d] /\ d \notin overtaken /\ demand[d].model # demand[c].model
    BY <1>2, Committing
  <2>2. demand[d].model \in Models
    <3>1. demand[d] \in Demands \cup {Registry!Nothing} /\ Registry!Nothing.op = "none"
      BY DEF RegistryInv, RegistryTypes, Registry!Nothing
    <3>. QED BY <1>2, <3>1 DEF Demands
  <2>3. PICK n \in Models : n = demand[d].model
    BY <2>2
  <2>4. /\ version'[n] = version[n] /\ health'[n] = health[n]
        /\ n \in listed => n \in listed'
        /\ preferred' = n => preferred = n
        /\ preferred = n /\ demand[d].op = "choose" => preferred' = n
        /\ Registry!Referenced(n)' => Registry!Referenced(n)
    BY <1>2, <2>1, <2>3, Committing
  <2>5. demand'[d].model = n /\ UpToDate(d)
    BY <2>1, <2>3 DEF RegistryInv
  <2>6. d \notin overtaken =>
          /\ demand[d].op = "test" => demand[d].version = version[n]
          /\ demand[d].op = "edit" => demand[d].health = health[n]
          /\ demand[d].op = "bind" => n \in listed
          /\ demand[d].op = "delete" => n # preferred /\ ~Registry!Referenced(n)
          /\ demand[d].op = "choose" /\ demand[d].default => preferred = n
    BY <2>3, <2>5 DEF UpToDate
  <2>7. ~Registry!Referenced(n) => ~Registry!Referenced(demand[d].model)'
    BY <2>1, <2>3, <2>4 DEF Registry!Referenced
  <2>. QED BY <2>1, <2>3, <2>4, <2>6, <2>7 DEF UpToDate
<1>3. CASE d # c /\ demand[d].op \notin {"edit", "test", "delete", "bind", "choose"}
  <2>1. demand'[d] = demand[d]
    BY <1>3, Committing
  <2>. QED BY <1>3, <2>1 DEF UpToDate
<1>4. CASE d \in overtaken'
  BY <1>4 DEF UpToDate
<1>. QED BY <1>1, <1>2, <1>3, <1>4

(* The other models are as current as they were.                           *)
LEMMA OthersCurrent ==
  ASSUME RegistryInv, NEW m,
         \A n \in Models \ {m} : /\ version'[n] = version[n] /\ health'[n] = health[n] /\ checked'[n] = checked[n]
                                 /\ n \notin listed' => n \notin listed
                                 /\ n \notin forgiven' => n \notin forgiven
  PROVE  \A n \in Models \ {m} : Current(n)'
BY DEF RegistryInv, Current

LEMMA CreateKeeps ==
  ASSUME Registry!RegistrySetting, RegistryInv, NEW c \in Clients, NEW default \in BOOLEAN,
         NEW ready \in BOOLEAN,
         Registry!CreateModel(c, default, ready)
  PROVE  RegistryInv' /\ StaysComplete
<1>. SUFFICES ASSUME NEW m, m = demand[c].model PROVE RegistryInv' /\ StaysComplete
  OBVIOUS
<1>1. /\ Registry!Commit(c, "create") /\ m \notin listed /\ (default => ready)
      /\ listed' = listed \cup {m} /\ usable' = IF ready THEN usable \cup {m} ELSE usable
      /\ preferred' = IF default THEN m ELSE preferred
      /\ UNCHANGED <<version, health, checked, uses, forgiven>>
  BY DEF Registry!CreateModel
<1>2. demand[c] \in Demands /\ menu' = menu /\ demand' \in [Clients -> Demands \cup {Registry!Nothing}]
  BY <1>1, Committing DEF Operations
<1>3. m \in Models /\ m # Nil
  BY <1>2 DEF Demands, Registry!RegistrySetting
<1>4. RegistryTypes'
  BY <1>1, <1>2, <1>3 DEF RegistryInv, RegistryTypes
<1>5. \A d \in Clients : UpToDate(d)'
  BY <1>1, OthersUpToDate DEF Operations, Registry!Referenced
<1>6. \A n \in Models : Current(n)'
  BY <1>1 DEF RegistryInv, Current
<1>7. StaysComplete
  BY <1>1, <1>3 DEF StaysComplete
<1>. QED BY <1>4, <1>5, <1>6, <1>7 DEF RegistryInv

LEMMA UpdateKeeps ==
  ASSUME Registry!RegistrySetting, RegistryInv, NEW c \in Clients, Registry!UpdateModel(c)
  PROVE  RegistryInv' /\ StaysComplete
<1>. SUFFICES ASSUME NEW m, m = demand[c].model PROVE RegistryInv' /\ StaysComplete
  OBVIOUS
<1>1. /\ Registry!Commit(c, "edit") /\ m \in listed
      /\ version' = [version EXCEPT ![m] = @ + 1]
      /\ health' = [health EXCEPT ![m] = IF demand[c].health = "unknown" THEN @ ELSE "unknown"]
      /\ forgiven' = IF c \in overtaken THEN forgiven \cup {m} ELSE forgiven
      /\ UNCHANGED <<listed, usable, preferred, checked, uses>>
  BY DEF Registry!UpdateModel, Registry!ResetHealth, Registry!Forgive
<1>2. /\ demand[c].op = "edit" /\ demand[c] \in Demands /\ menu' = menu
      /\ demand' \in [Clients -> Demands \cup {Registry!Nothing}]
  BY <1>1, Committing DEF Operations
<1>3. m \in Models
  BY <1>2 DEF Demands
<1>4. /\ version \in [Models -> Nat] /\ health \in [Models -> Healths]
      /\ \A n \in Models \ {m} : version'[n] = version[n] /\ health'[n] = health[n]
  BY <1>1 DEF RegistryInv, RegistryTypes
<1>5. version' \in [Models -> Nat] /\ health' \in [Models -> Healths]
  BY <1>1, <1>3, <1>4 DEF Healths
<1>6. RegistryTypes'
  BY <1>1, <1>2, <1>5 DEF RegistryInv, RegistryTypes
<1>7. \A d \in Clients : UpToDate(d)'
  BY <1>1, <1>4, OthersUpToDate DEF Operations, Registry!Referenced
<1>8. Current(m)'
  <2>1. c \notin overtaken => demand[c].health = health[m]
    BY <1>2 DEF RegistryInv, UpToDate
  <2>2. c \notin overtaken => health'[m] = "unknown"
    BY <1>1, <1>3, <1>4, <2>1
  <2>. QED BY <1>1, <2>2 DEF Current
<1>9. \A n \in Models \ {m} : Current(n)'
  BY <1>1, <1>4, OthersCurrent
<1>10. StaysComplete
  BY <1>1 DEF StaysComplete
<1>. QED BY <1>6, <1>7, <1>8, <1>9, <1>10 DEF RegistryInv

(* A status that is reset, or not, is as current as it was.                *)
LEMMA ResetIsCurrent ==
  ASSUME RegistryInv, NEW c \in Clients, demand[c] \in Demands, Registry!ResetHealth(c) \/ UNCHANGED health,
         UNCHANGED <<version, checked, forgiven, listed>>
  PROVE  /\ health' \in [Models -> Healths] /\ \A n \in Models : Current(n)'
         /\ \A n \in Models \ {demand[c].model} : health'[n] = health[n]
<1>1. demand[c].model \in Models /\ health \in [Models -> Healths]
  BY DEF Demands, RegistryInv, RegistryTypes
<1>2. /\ health' \in [Models -> Healths] /\ \A n \in Models : health'[n] \in {health[n], "unknown"}
      /\ \A n \in Models \ {demand[c].model} : health'[n] = health[n]
  BY <1>1 DEF Registry!ResetHealth, Healths
<1>. QED BY <1>2 DEF RegistryInv, Current

LEMMA EnableKeeps ==
  ASSUME Registry!RegistrySetting, RegistryInv, NEW c \in Clients, NEW flag \in BOOLEAN,
         Registry!EnableModel(c, flag)
  PROVE  RegistryInv' /\ StaysComplete
<1>. SUFFICES ASSUME NEW m, m = demand[c].model PROVE RegistryInv' /\ StaysComplete
  OBVIOUS
<1>1. PICK op \in {"enable", "disable"} : Registry!Commit(c, op)
  BY DEF Registry!EnableModel
<1>2. demand[c] \in Demands /\ menu' = menu /\ demand' \in [Clients -> Demands \cup {Registry!Nothing}]
  BY <1>1, Committing DEF Operations
<1>3. m \in Models /\ m # Nil
  BY <1>2 DEF Demands, Registry!RegistrySetting
<1>4. /\ m \in listed /\ UNCHANGED <<listed, preferred, version, checked, uses, forgiven>>
      /\ Registry!ResetHealth(c)
      /\ usable' \in {usable, usable \cup {m}, usable \ {m}}
      /\ preferred \in usable' \cup {Nil}
  BY DEF Registry!EnableModel
<1>5. /\ health' \in [Models -> Healths] /\ \A n \in Models : Current(n)'
      /\ \A n \in Models \ {m} : health'[n] = health[n]
  BY <1>2, <1>4, ResetIsCurrent
<1>6. RegistryTypes'
  BY <1>2, <1>3, <1>4, <1>5 DEF RegistryInv, RegistryTypes
<1>7. \A d \in Clients : UpToDate(d)'
  BY <1>1, <1>4, <1>5, OthersUpToDate DEF Operations, Registry!Referenced
<1>8. StaysComplete
  BY <1>4 DEF StaysComplete
<1>. QED BY <1>5, <1>6, <1>7, <1>8 DEF RegistryInv

LEMMA ChooseKeeps ==
  ASSUME Registry!RegistrySetting, RegistryInv, NEW c \in Clients,
         Registry!SetDefault(c) \/ Registry!PatchDefault(c)
  PROVE  RegistryInv' /\ StaysComplete
<1>. SUFFICES ASSUME NEW m, m = demand[c].model PROVE RegistryInv' /\ StaysComplete
  OBVIOUS
<1>1. Registry!Commit(c, "choose")
  BY DEF Registry!SetDefault, Registry!PatchDefault
<1>2. /\ demand[c].op = "choose" /\ demand[c] \in Demands /\ menu' = menu
      /\ demand' \in [Clients -> Demands \cup {Registry!Nothing}]
      /\ c \in overtaken => Excused
  BY <1>1, Committing DEF Operations
<1>3. m \in Models /\ m # Nil
  BY <1>2 DEF Demands, Registry!RegistrySetting
<1>4. /\ UNCHANGED <<listed, version, checked, uses, forgiven>>
      /\ Registry!ResetHealth(c) \/ UNCHANGED health
      /\ \/ m \in listed /\ usable' = usable \cup {m} /\ preferred' = m
         \/ m \in usable /\ usable' = usable /\ preferred' = m
         \/ demand[c].default /\ preferred # m /\ usable' = usable /\ preferred' = Nil
  <2>1. CASE Registry!SetDefault(c)
    BY <2>1 DEF Registry!SetDefault
  <2>2. CASE Registry!PatchDefault(c)
    <3>1. /\ UNCHANGED <<listed, version, checked, uses, forgiven>> /\ Registry!ResetHealth(c)
          /\ m \in listed \/ demand[c].default
          /\ usable' = IF demand[c].default THEN usable ELSE usable \cup {m}
          /\ preferred' = IF demand[c].default /\ preferred # m THEN Nil ELSE m
      BY <2>2 DEF Registry!PatchDefault
    <3>2. preferred = m => m \in usable
      BY <1>3 DEF RegistryInv, RegistryTypes
    <3>. QED BY <3>1, <3>2
  <2>. QED BY <2>1, <2>2
<1>5. /\ health' \in [Models -> Healths] /\ \A n \in Models : Current(n)'
      /\ \A n \in Models \ {m} : health'[n] = health[n]
  BY <1>2, <1>4, ResetIsCurrent
<1>6. usable \subseteq listed
  BY DEF RegistryInv, RegistryTypes
<1>7. RegistryTypes'
  BY <1>2, <1>3, <1>4, <1>5, <1>6 DEF RegistryInv, RegistryTypes
<1>8. \A d \in Clients : UpToDate(d)'
  <2>1. Nil \notin Models
    BY DEF Registry!RegistrySetting
  <2>. QED BY <1>1, <1>4, <1>5, <2>1, OthersUpToDate DEF Operations, Registry!Referenced
<1>9. StaysComplete
  <2>1. c \notin overtaken /\ demand[c].default => preferred = m
    BY <1>2 DEF RegistryInv, UpToDate
  <2>. QED BY <1>2, <1>3, <1>4, <2>1 DEF StaysComplete
<1>. QED BY <1>5, <1>7, <1>8, <1>9 DEF RegistryInv

LEMMA RecordKeeps ==
  ASSUME Registry!RegistrySetting, RegistryInv, NEW c \in Clients, NEW status \in {"online", "offline"},
         Registry!RecordHealth(c, status)
  PROVE  RegistryInv' /\ StaysComplete
<1>. SUFFICES ASSUME NEW m, m = demand[c].model PROVE RegistryInv' /\ StaysComplete
  OBVIOUS
<1>1. /\ Registry!Commit(c, "test") /\ m \in listed
      /\ \/ UNCHANGED <<health, checked>>
         \/ /\ health' = [health EXCEPT ![m] = status]
            /\ checked' = [checked EXCEPT ![m] = demand[c].version]
      /\ forgiven' = IF c \in overtaken THEN forgiven \cup {m} ELSE forgiven
      /\ UNCHANGED <<listed, usable, preferred, version, uses>>
  BY DEF Registry!RecordHealth, Registry!Forgive
<1>2. /\ demand[c].op = "test" /\ demand[c] \in Demands /\ menu' = menu
      /\ demand' \in [Clients -> Demands \cup {Registry!Nothing}]
  BY <1>1, Committing DEF Operations
<1>3. m \in Models /\ demand[c].version \in Nat
  BY <1>2 DEF Demands
<1>4. /\ checked \in [Models -> Nat] /\ health \in [Models -> Healths]
      /\ \A n \in Models \ {m} : checked'[n] = checked[n] /\ health'[n] = health[n]
  BY <1>1 DEF RegistryInv, RegistryTypes
<1>5. checked' \in [Models -> Nat] /\ health' \in [Models -> Healths]
  <2>1. status \in Healths
    BY DEF Healths
  <2>. QED BY <1>1, <1>3, <1>4, <2>1
<1>6. RegistryTypes'
  BY <1>1, <1>2, <1>5 DEF RegistryInv, RegistryTypes
<1>7. \A d \in Clients : UpToDate(d)'
  BY <1>1, <1>4, OthersUpToDate DEF Operations, Registry!Referenced
<1>8. Current(m)'
  <2>1. c \notin overtaken => demand[c].version = version[m]
    BY <1>2 DEF RegistryInv, UpToDate
  <2>2. CASE UNCHANGED <<health, checked>>
    BY <1>1, <1>3, <2>2 DEF RegistryInv, Current
  <2>3. CASE checked' = [checked EXCEPT ![m] = demand[c].version]
    <3>1. checked'[m] = demand[c].version
      BY <1>3, <1>4, <2>3
    <3>. QED BY <1>1, <2>1, <3>1 DEF Current
  <2>. QED BY <1>1, <2>2, <2>3
<1>9. \A n \in Models \ {m} : Current(n)'
  BY <1>1, <1>4, OthersCurrent
<1>10. StaysComplete
  BY <1>1 DEF StaysComplete
<1>. QED BY <1>6, <1>7, <1>8, <1>9, <1>10 DEF RegistryInv

LEMMA DeleteKeeps ==
  ASSUME Registry!RegistrySetting, RegistryInv, NEW c \in Clients, Registry!DeleteModel(c)
  PROVE  RegistryInv' /\ StaysComplete
<1>. SUFFICES ASSUME NEW m, m = demand[c].model PROVE RegistryInv' /\ StaysComplete
  OBVIOUS
<1>1. /\ Registry!Commit(c, "delete") /\ m \in listed
      /\ listed' = listed \ {m} /\ usable' = usable \ {m}
      /\ preferred' = IF preferred = m THEN Nil ELSE preferred
      /\ health' = [health EXCEPT ![m] = "unknown"] /\ checked' = [checked EXCEPT ![m] = 0]
      /\ forgiven' = forgiven \ {m}
      /\ UNCHANGED <<version, uses>>
  BY DEF Registry!DeleteModel
<1>2. /\ demand[c].op = "delete" /\ demand[c] \in Demands /\ menu' = menu
      /\ demand' \in [Clients -> Demands \cup {Registry!Nothing}]
      /\ c \in overtaken => Excused
  BY <1>1, Committing DEF Operations
<1>3. m \in Models /\ m # Nil
  BY <1>2 DEF Demands, Registry!RegistrySetting
<1>4. /\ checked \in [Models -> Nat] /\ health \in [Models -> Healths]
      /\ \A n \in Models \ {m} : checked'[n] = checked[n] /\ health'[n] = health[n]
  BY <1>1 DEF RegistryInv, RegistryTypes
<1>5. checked' \in [Models -> Nat] /\ health' \in [Models -> Healths] /\ health'[m] = "unknown"
  BY <1>1, <1>3, <1>4 DEF Healths
<1>6. RegistryTypes'
  BY <1>1, <1>2, <1>5 DEF RegistryInv, RegistryTypes
<1>7. \A d \in Clients : UpToDate(d)'
  <2>1. Nil \notin Models
    BY DEF Registry!RegistrySetting
  <2>. QED BY <1>1, <1>4, <2>1, OthersUpToDate DEF Operations, Registry!Referenced
<1>8. Current(m)'
  BY <1>5 DEF Current
<1>9. \A n \in Models \ {m} : Current(n)'
  BY <1>1, <1>4, OthersCurrent
<1>10. StaysComplete
  <2>1. c \notin overtaken => m # preferred /\ \A a \in Agents : uses[a] # m
    BY <1>2 DEF RegistryInv, UpToDate, Registry!Referenced
  <2>. QED BY <1>1, <1>2, <2>1 DEF StaysComplete
<1>. QED BY <1>6, <1>7, <1>8, <1>9, <1>10 DEF RegistryInv

LEMMA BindKeeps ==
  ASSUME Registry!RegistrySetting, RegistryInv, NEW c \in Clients, NEW a \in Agents, Registry!BindAgent(c, a)
  PROVE  RegistryInv' /\ StaysComplete
<1>. SUFFICES ASSUME NEW m, m = demand[c].model PROVE RegistryInv' /\ StaysComplete
  OBVIOUS
<1>1. /\ Registry!Commit(c, "bind")
      /\ uses' = [uses EXCEPT ![a] = m]
      /\ UNCHANGED <<listed, usable, preferred, version, health, checked, forgiven>>
  BY DEF Registry!BindAgent
<1>2. /\ demand[c].op = "bind" /\ demand[c] \in Demands /\ menu' = menu
      /\ demand' \in [Clients -> Demands \cup {Registry!Nothing}]
      /\ c \in overtaken => Excused
  BY <1>1, Committing DEF Operations
<1>3. m \in Models
  BY <1>2 DEF Demands
<1>4. uses' \in [Agents -> Models \cup {Nil}] /\ uses'[a] = m /\ \A b \in Agents \ {a} : uses'[b] = uses[b]
  BY <1>1, <1>3 DEF RegistryInv, RegistryTypes
<1>5. RegistryTypes'
  BY <1>1, <1>2, <1>4 DEF RegistryInv, RegistryTypes
<1>6. \A d \in Clients : UpToDate(d)'
  BY <1>1, <1>4, OthersUpToDate DEF Operations, Registry!Referenced
<1>7. \A n \in Models : Current(n)'
  BY <1>1 DEF RegistryInv, Current
<1>8. StaysComplete
  <2>1. c \notin overtaken => m \in listed
    BY <1>2 DEF RegistryInv, UpToDate
  <2>. QED BY <1>1, <1>2, <1>4, <2>1 DEF StaysComplete
<1>. QED BY <1>5, <1>6, <1>7, <1>8 DEF RegistryInv

LEMMA EnsureKeeps ==
  ASSUME Registry!RegistrySetting, RegistryInv, Registry!EnsureLegacyModels
  PROVE  RegistryInv' /\ StaysComplete
<1>. DEFINE missing == ({Configured} \cup {uses[a] : a \in Agents}) \ (listed \cup {Nil})
            default == IF preferred = Nil THEN Configured ELSE preferred
<1>1. /\ \A c \in Clients : demand[c] = Registry!Nothing
      /\ listed' = listed \cup missing /\ usable' = usable \cup missing \cup {default}
      /\ preferred' = default
      /\ UNCHANGED <<menu, version, health, checked, uses, demand, forgiven>>
  BY DEF Registry!EnsureLegacyModels
<1>2. missing \subseteq Models \ listed /\ Configured \in listed \cup missing /\ Configured \in Models
  BY DEF RegistryInv, RegistryTypes, Registry!RegistrySetting
<1>3. default \in listed \cup missing /\ default # Nil
  BY <1>2 DEF RegistryInv, RegistryTypes, Registry!RegistrySetting
<1>4. RegistryTypes'
  BY <1>1, <1>2, <1>3 DEF RegistryInv, RegistryTypes
<1>5. \A c \in Clients : UpToDate(c)'
  BY <1>1 DEF UpToDate, Registry!Nothing
<1>6. \A n \in Models : Current(n)'
  BY <1>1, <1>2 DEF RegistryInv, Current
<1>7. StaysComplete
  BY <1>1, <1>3 DEF StaysComplete
<1>. QED BY <1>4, <1>5, <1>6, <1>7 DEF RegistryInv

LEMMA ReadKeeps ==
  ASSUME Registry!RegistrySetting, RegistryInv, NEW c \in Clients, NEW m \in Models, NEW op \in menu,
         Registry!Read(c, op, m)
  PROVE  RegistryInv' /\ StaysComplete
<1>1. op \in Operations
  BY DEF RegistryInv, RegistryTypes, Registry!RegistrySetting, Operations
<1>2. UNCHANGED <<menu, listed, usable, preferred, version, health, checked, uses, overtaken,
                  forgiven>>
  BY DEF Registry!Read, Registry!modelRows
<1>3. PICK r : /\ demand' = [demand EXCEPT ![c] = r]
               /\ r = [op |-> op, model |-> m, version |-> IF op = "test" THEN version[m] ELSE 0,
                       health  |-> IF op \in {"create", "bind", "delete"} THEN "unknown" ELSE health[m],
                       enabled |-> op \in {"enable", "disable", "choose"} /\ m \in usable,
                       default |-> op = "choose" /\ m = preferred]
  BY DEF Registry!Read
<1>4. version[m] \in Nat /\ health[m] \in Healths
  BY DEF RegistryInv, RegistryTypes
<1>5. /\ r.op = op /\ r.model = m
      /\ op = "test" => r.version = version[m]
      /\ op = "edit" => r.health = health[m]
      /\ r.default => m = preferred
  BY <1>3
<1>6. r \in Demands
  <2>1. /\ (op \in {"enable", "disable", "choose"} /\ m \in usable) \in BOOLEAN
        /\ (op = "choose" /\ m = preferred) \in BOOLEAN
    OBVIOUS
  <2>. QED BY <1>1, <1>3, <1>4, <2>1 DEF Demands, Healths
<1>7. /\ demand' \in [Clients -> Demands \cup {Registry!Nothing}] /\ demand'[c] = r
      /\ \A d \in Clients \ {c} : demand'[d] = demand[d]
  BY <1>3, <1>6 DEF RegistryInv, RegistryTypes
<1>8. RegistryTypes'
  BY <1>2, <1>7 DEF RegistryInv, RegistryTypes
<1>9. \A d \in Clients \ {c} : UpToDate(d)'
  BY <1>2, <1>7 DEF RegistryInv, UpToDate, Registry!Referenced
<1>10. UpToDate(c)'
  <2>1. op = "bind" => m \in usable
    BY DEF Registry!Read, Registry!Ready
  <2>2. op = "delete" => m # preferred /\ ~Registry!Referenced(m)
    BY DEF Registry!Read, Registry!Ready, Registry!Deletable
  <2>3. usable \subseteq listed
    BY DEF RegistryInv, RegistryTypes
  <2>. QED BY <1>2, <1>5, <1>7, <2>1, <2>2, <2>3 DEF UpToDate, Registry!Referenced
<1>11. \A n \in Models : Current(n)'
  BY <1>2 DEF RegistryInv, Current
<1>12. StaysComplete
  BY <1>2 DEF StaysComplete
<1>. QED BY <1>8, <1>9, <1>10, <1>11, <1>12 DEF RegistryInv

LEMMA RejectKeeps ==
  ASSUME RegistryInv, NEW c \in Clients, Registry!Reject(c)
  PROVE  RegistryInv' /\ StaysComplete
<1>1. /\ UNCHANGED <<menu, listed, usable, preferred, version, health, checked, uses, forgiven>>
      /\ demand' = [demand EXCEPT ![c] = Registry!Nothing] /\ overtaken' = overtaken \ {c}
  BY DEF Registry!Reject, Registry!modelRows
<1>2. /\ demand' \in [Clients -> Demands \cup {Registry!Nothing}] /\ demand'[c].op = "none"
      /\ \A d \in Clients \ {c} : demand'[d] = demand[d]
  <2>1. demand \in [Clients -> Demands \cup {Registry!Nothing}]
    BY DEF RegistryInv, RegistryTypes
  <2>2. demand'[c] = Registry!Nothing /\ Registry!Nothing.op = "none"
    BY <1>1, <2>1 DEF Registry!Nothing
  <2>. QED BY <1>1, <2>1, <2>2
<1>3. RegistryTypes'
  BY <1>1, <1>2 DEF RegistryInv, RegistryTypes
<1>4. \A d \in Clients : UpToDate(d)'
  BY <1>1, <1>2 DEF RegistryInv, UpToDate, Registry!Referenced
<1>5. \A n \in Models : Current(n)'
  BY <1>1 DEF RegistryInv, Current
<1>6. StaysComplete
  BY <1>1 DEF StaysComplete
<1>. QED BY <1>3, <1>4, <1>5, <1>6 DEF RegistryInv

LEMMA UnbindKeeps ==
  ASSUME RegistryInv, Registry!RegistrySetting, NEW a \in Agents, Registry!DeleteAgent(a)
  PROVE  RegistryInv' /\ StaysComplete
<1>1. /\ UNCHANGED <<menu, listed, usable, preferred, version, health, checked, demand,
                     overtaken, forgiven>>
      /\ uses' = [uses EXCEPT ![a] = Nil]
  BY DEF Registry!DeleteAgent, Registry!modelRows
<1>2. Nil \notin Models
  BY DEF Registry!RegistrySetting
<1>3. uses' \in [Agents -> Models \cup {Nil}] /\ uses'[a] = Nil /\ \A b \in Agents \ {a} : uses'[b] = uses[b]
  BY <1>1 DEF RegistryInv, RegistryTypes
<1>4. RegistryTypes'
  BY <1>1, <1>3 DEF RegistryInv, RegistryTypes
<1>5. \A d \in Clients : UpToDate(d)'
  <2>. SUFFICES ASSUME NEW d \in Clients PROVE UpToDate(d)'
    OBVIOUS
  <2>1. demand[d].op = "delete" => demand[d].model \in Models
    <3>1. demand[d] \in Demands \cup {Registry!Nothing} /\ Registry!Nothing.op = "none"
      BY DEF RegistryInv, RegistryTypes, Registry!Nothing
    <3>. QED BY <3>1 DEF Demands
  <2>2. demand[d].op = "delete" /\ ~Registry!Referenced(demand[d].model) => ~Registry!Referenced(demand[d].model)'
    BY <1>1, <1>2, <1>3, <2>1 DEF Registry!Referenced
  <2>. QED BY <1>1, <2>2 DEF RegistryInv, UpToDate
<1>6. \A n \in Models : Current(n)'
  BY <1>1 DEF RegistryInv, Current
<1>7. StaysComplete
  BY <1>1, <1>2, <1>3 DEF StaysComplete
<1>. QED BY <1>4, <1>5, <1>6, <1>7 DEF RegistryInv

(* What is written unchecked takes nothing from the requests under way but *)
(* that the model may be deleted.                                          *)
LEMMA WriteKeeps ==
  ASSUME RegistryInv, Registry!RegistrySetting, NEW a \in Agents, NEW m \in Models, Registry!WriteModel(a, m)
  PROVE  RegistryInv' /\ StaysComplete
<1>1. /\ UNCHANGED <<menu, listed, usable, preferred, version, health, checked, demand, forgiven>>
      /\ uses' = [uses EXCEPT ![a] = m]
      /\ overtaken' = overtaken \cup {d \in Clients : demand[d].op = "delete" /\ demand[d].model = m}
  BY DEF Registry!WriteModel, Registry!modelRows
<1>2. uses' \in [Agents -> Models \cup {Nil}] /\ \A b \in Agents : uses'[b] \in {uses[b], m}
  BY <1>1 DEF RegistryInv, RegistryTypes
<1>3. RegistryTypes'
  BY <1>1, <1>2 DEF RegistryInv, RegistryTypes
<1>4. \A d \in Clients : UpToDate(d)'
  <2>. SUFFICES ASSUME NEW d \in Clients, d \notin overtaken' PROVE UpToDate(d)'
    BY DEF UpToDate
  <2>1. demand[d].op = "delete" => demand[d].model # m
    BY <1>1
  <2>2. demand[d].op = "delete" /\ ~Registry!Referenced(demand[d].model) => ~Registry!Referenced(demand[d].model)'
    BY <1>1, <1>2, <2>1 DEF Registry!Referenced
  <2>3. UpToDate(d) /\ d \notin overtaken
    BY <1>1 DEF RegistryInv
  <2>. QED BY <1>1, <2>2, <2>3 DEF UpToDate
<1>5. \A n \in Models : Current(n)'
  BY <1>1 DEF RegistryInv, Current
<1>6. StaysComplete
  BY <1>1 DEF StaysComplete
<1>. QED BY <1>3, <1>4, <1>5, <1>6 DEF RegistryInv

LEMMA RegistryNext ==
  ASSUME Registry!RegistrySetting, RegistryInv, [Registry!Next]_(Registry!registryVars)
  PROVE  RegistryInv' /\ (UNCHANGED Registry!registryVars \/ StaysComplete)
<1>1. CASE UNCHANGED Registry!registryVars
  <2>1. UNCHANGED <<menu, listed, usable, preferred, version, health, checked, uses, demand,
                    overtaken, forgiven>>
    BY <1>1 DEF Registry!registryVars, Registry!modelRows
  <2>. QED BY <1>1, <2>1 DEF RegistryInv, RegistryTypes, UpToDate, Current, Registry!Referenced
<1>2. ASSUME NEW c \in Clients, Registry!Write(c) PROVE RegistryInv' /\ StaysComplete
  BY <1>2, CreateKeeps, UpdateKeeps, EnableKeeps, ChooseKeeps, RecordKeeps, DeleteKeeps, BindKeeps,
    Zenon DEF Registry!Write
<1>. QED
  BY <1>1, <1>2, EnsureKeeps, RejectKeeps, ReadKeeps, UnbindKeeps, WriteKeeps, Zenon DEF Registry!Next

(* The status of a model is about the configuration there is, unless a     *)
(* test and a change overlapped (repositories/model_registrations.py:      *)
(* 176-204, api/model_registrations.py:117-162).                           *)
THEOREM HealthIsCurrent == Registry!Spec => []HealthCurrent
<1>0. Registry!RegistrySetting
  BY RegistryAssumption
<1>1. RegistryInv => HealthCurrent
  BY DEF RegistryInv, Current, Registry!HealthCurrent, HealthCurrent
<1>. QED BY <1>0, <1>1, RegistryInit, RegistryNext, PTL DEF Registry!Spec

(* No request takes the default away or leaves an Agent with a model that  *)
(* is not registered, unless another changed what it had read; only what   *)
(* is written unchecked does (api/model_registrations.py:82-98, 168-184,   *)
(* api/agents.py:697-716, api/console.py:399-401,                          *)
(* repositories/production.py:1057).                                       *)
THEOREM RegistryStaysComplete == Registry!Spec => RegistryComplete
<1>0. Registry!RegistrySetting
  BY RegistryAssumption
<1>1. RegistryInv /\ [Registry!Next]_(Registry!registryVars) =>
        RegistryInv' /\ [StaysComplete]_(Registry!registryVars)
  BY <1>0, RegistryNext
<1>2. RegistryComplete <=> [][StaysComplete]_(Registry!registryVars)
  BY PTL DEF Registry!RegistryComplete, RegistryComplete, StaysComplete,
    Registry!Excused, Excused
<1>. QED BY <1>0, <1>1, <1>2, RegistryInit, PTL DEF Registry!Spec

-----------------------------------------------------------------------------
(* DatabaseConnections: connections, credentials and pools.                *)

Starting    == {"patch", "replace", "discover", "scope"}
Changing    == Starting \cup {"revise"}
Invalidating == [op |-> "invalidate"]
Revising    == [op : {"revise"}, revision : Nat, epoch : Nat, scopes : SUBSET Scopes]
Jobs        == [op : Starting, revision : Nat, epoch : Nat] \cup Revising
                 \cup {Database!Idle, Invalidating}
Phases      == {"new", "authorised", "waiting", "executing", "closed", "done"}

DatabaseTypes ==
  /\ enabled \in BOOLEAN
  /\ current \in Nat \ {0} /\ epoch \in Nat /\ scopes \in [Scopes -> Nat]
  /\ job \in [Admins -> Jobs]
  /\ query \in [Queries -> Phases] /\ runtime \in [Queries -> (Nat \X Nat) \cup {Nil}]

(* What an operation read is still so, unless another one wrote.           *)
Reads(a) ==
  job[a].op \in Changing /\ a \notin crossed =>
    /\ job[a].revision = current /\ job[a].epoch = epoch
    /\ job[a].op = "revise" => Database!Missed(job[a].scopes) = {}

CoherenceInv ==
  /\ \A a \in Admins : Reads(a)
  /\ \A s \in Scopes \ excused : scopes[s] \in {0, current}
  /\ "catalogue" \notin excused => catalogue = current
  /\ "pair" \notin excused => <<current, epoch>> \in tried

(* If one query under way was not disturbed, all of them have the          *)
(* credential in use; and a query whose pool is closed was disturbed.      *)
PoolsInv ==
  /\ \A q \in Database!Under : runtime[q] \in (1..current) \X Nat
  /\ pools \subseteq (1..current) \X Nat
  /\ \A p, q \in Database!Under : p \notin disturbed => runtime[q][2] = epoch
  /\ closing \subseteq disturbed
  /\ \A k, l \in pools : k[1] = l[1] => k = l
  /\ \A q \in Queries : query[q] = "closed" => q \in disturbed
  /\ ~enabled /\ (\A a \in Admins : job[a].op # "invalidate") => pools = {} \/ late

DatabaseInv == DatabaseTypes /\ CoherenceInv /\ PoolsInv

LEMMA JobsDiffer ==
  /\ Database!Idle.op = "none" /\ Invalidating.op = "invalidate"
  /\ \A j \in Jobs : /\ j.op \in Changing \cup {"none", "invalidate"}
                     /\ j.op \in Changing => j.revision \in Nat /\ j.epoch \in Nat
                     /\ j.op = "revise" => j.scopes \in SUBSET Scopes
BY DEF Database!Idle, Invalidating, Jobs, Changing, Starting, Revising

LEMMA DatabaseInit == Database!DatabaseSetting /\ Database!Init => DatabaseInv
<1>. SUFFICES ASSUME Database!DatabaseSetting, Database!Init PROVE DatabaseInv
  OBVIOUS
<1>1. /\ enabled = TRUE /\ current = 1 /\ epoch = 1 /\ catalogue = 1 /\ tried = {<<1, 1>>}
      /\ scopes \in [Scopes -> {0, 1}]
      /\ job = [a \in Admins |-> Database!Idle] /\ pools = {} /\ closing = {}
      /\ query = [q \in Queries |-> "new"] /\ runtime = [q \in Queries |-> Nil]
  BY DEF Database!Init
<1>2. \A a \in Admins : job[a].op = "none"
  BY <1>1, JobsDiffer
<1>3. DatabaseTypes
  BY <1>1 DEF DatabaseTypes, Jobs, Phases
<1>4. CoherenceInv
  BY <1>1, <1>2 DEF CoherenceInv, Reads, Changing, Starting
<1>5. Database!Under = {}
  BY <1>1 DEF Database!Under
<1>6. PoolsInv
  BY <1>1, <1>5 DEF PoolsInv
<1>. QED BY <1>3, <1>4, <1>6 DEF DatabaseInv

(* After a transaction of a, who has not read what is written is crossed.  *)
LEMMA Committed ==
  ASSUME DatabaseInv, NEW a \in Admins, NEW next \in {Database!Idle, Invalidating}, Database!Commit(a, next)
  PROVE  /\ job' \in [Admins -> Jobs] /\ job'[a] = next /\ \A b \in Admins \ {a} : job'[b] = job[b]
         /\ \A b \in Admins : Reads(b)'
<1>1. job' = [job EXCEPT ![a] = next] /\ crossed' = crossed \cup (Database!Running \ {a})
  BY DEF Database!Commit
<1>2. /\ job' \in [Admins -> Jobs] /\ job'[a] = next /\ \A b \in Admins \ {a} : job'[b] = job[b]
  BY <1>1 DEF DatabaseInv, DatabaseTypes, Jobs
<1>3. next.op \notin Changing
  BY JobsDiffer DEF Changing, Starting
<1>4. ASSUME NEW b \in Admins, b # a PROVE job'[b].op \in Changing => b \in crossed'
  BY <1>1, <1>2, <1>4 DEF Database!Running, Changing, Starting
<1>. QED BY <1>2, <1>3, <1>4 DEF Reads

-----------------------------------------------------------------------------
(* The registry.                                                           *)

(* An operation writes what is coherent, or is excused.                    *)
LEMMA CoherenceOfOperations ==
  ASSUME Database!DatabaseSetting, DatabaseInv, NEW a \in Admins, Database!Operate(a)
  PROVE  CoherenceInv' /\ current' \in Nat \ {0} /\ current' >= current /\ epoch' \in Nat
         /\ scopes' \in [Scopes -> Nat] /\ job' \in [Admins -> Jobs] /\ enabled' \in BOOLEAN
         /\ UNCHANGED <<query, runtime>>
<1>. USE DEF Database!registry, Database!service, Database!history
<1>t. /\ current \in Nat \ {0} /\ epoch \in Nat /\ scopes \in [Scopes -> Nat] /\ enabled \in BOOLEAN
      /\ job \in [Admins -> Jobs] /\ job[a] \in Jobs
  BY DEF DatabaseInv, DatabaseTypes
<1>r. job[a].op \in Changing => /\ job[a].revision \in Nat /\ job[a].epoch \in Nat
                                /\ a \notin crossed => job[a].revision = current /\ job[a].epoch = epoch
  BY <1>t, JobsDiffer DEF DatabaseInv, CoherenceInv, Reads
(* Nothing is written.                                                     *)
<1>n. ASSUME UNCHANGED <<current, epoch, scopes, catalogue, tried,
                         excused>>, \A b \in Admins : Reads(b)'
      PROVE  CoherenceInv'
  BY <1>n DEF DatabaseInv, CoherenceInv
<1>1. ASSUME NEW op \in Starting, Database!Begin(a, op)
      PROVE  CoherenceInv' /\ job' \in [Admins -> Jobs]
  <2>1. /\ job' = [job EXCEPT ![a] = [op |-> op, revision |-> current, epoch |-> epoch]]
        /\ crossed' = crossed \ {a}
        /\ UNCHANGED <<current, epoch, scopes, catalogue, tried, excused>>
    BY <1>1 DEF Database!Begin
  <2>2. [op |-> op, revision |-> current, epoch |-> epoch] \in Jobs
    BY <1>1, <1>t DEF Jobs
  <2>3. /\ job' \in [Admins -> Jobs] /\ job'[a] = [op |-> op, revision |-> current, epoch |-> epoch]
        /\ \A b \in Admins \ {a} : job'[b] = job[b]
    BY <1>t, <2>1, <2>2
  <2>4. \A b \in Admins : Reads(b)'
    BY <1>1, <2>1, <2>3 DEF Reads, DatabaseInv, CoherenceInv, Database!Missed, Starting
  <2>. QED BY <1>n, <2>1, <2>3, <2>4
<1>2. ASSUME NEW ops, Database!Refuse(a, ops)
      PROVE  CoherenceInv' /\ job' \in [Admins -> Jobs]
  <2>1. /\ job' = [job EXCEPT ![a] = Database!Idle]
        /\ UNCHANGED <<current, epoch, scopes, catalogue, tried, excused, crossed>>
    BY <1>2 DEF Database!Refuse
  <2>2. job' \in [Admins -> Jobs] /\ job'[a].op = "none" /\ \A b \in Admins \ {a} : job'[b] = job[b]
    BY <1>t, <2>1, JobsDiffer DEF Jobs
  <2>3. \A b \in Admins : Reads(b)'
    BY <2>1, <2>2 DEF Reads, Changing, Starting, DatabaseInv, CoherenceInv, Database!Missed
  <2>. QED BY <1>n, <2>1, <2>2, <2>3
<1>3. ASSUME NEW enable \in BOOLEAN, Database!UpdateEndpoint(a, enable)
      PROVE  CoherenceInv' /\ current' = current + 1 /\ scopes' \in [Scopes -> Nat] /\ job' \in [Admins -> Jobs]
  <2>. DEFINE chosen == job[a].scopes
  <2>1. /\ job[a].op = "revise" /\ current' = current + 1 /\ catalogue' = current + 1 /\ epoch' = epoch
        /\ scopes' = [s \in Scopes |-> IF s \in chosen THEN current + 1 ELSE scopes[s]]
        /\ tried' = tried \cup {<<current + 1, job[a].epoch>>}
        /\ excused' = (excused \ ({"pair", "catalogue"} \cup chosen))
                        \cup IF a \in crossed THEN {"pair"} \cup Database!Missed(chosen) ELSE {}
        /\ Database!Commit(a, Invalidating)
    BY <1>3 DEF Database!UpdateEndpoint, Database!CarryForward, Database!Excuse, Invalidating
  <2>2. job' \in [Admins -> Jobs] /\ \A b \in Admins : Reads(b)'
    BY <2>1, Committed
  <2>3. scopes' \in [Scopes -> Nat]
    BY <1>t, <2>1
  <2>4. /\ job[a].op \in Changing
        /\ a \notin crossed => job[a].epoch = epoch /\ Database!Missed(chosen) = {}
    BY <1>t, <2>1 DEF Changing, DatabaseInv, CoherenceInv, Reads
  <2>. HIDE DEF chosen
  <2>5. "pair" \notin excused' => <<current', epoch'>> \in tried'
    BY <2>1, <2>4
  <2>6. ASSUME NEW s \in Scopes \ excused' PROVE scopes'[s] \in {0, current'}
    <3>1. CASE s \in chosen
      BY <2>1, <3>1
    <3>2. CASE s \notin chosen
      <4>1. s \notin Database!Missed(chosen)
        BY <2>1, <2>4
      <4>. QED BY <2>1, <3>2, <4>1 DEF Database!Missed
    <3>. QED BY <3>1, <3>2
  <2>. QED BY <2>1, <2>2, <2>3, <2>5, <2>6 DEF CoherenceInv
<1>4. ASSUME NEW enable \in BOOLEAN, Database!SetEnabled(a, enable)
      PROVE  CoherenceInv' /\ job' \in [Admins -> Jobs]
  <2>1. UNCHANGED <<current, epoch, scopes, catalogue, tried, excused>>
    BY <1>4 DEF Database!SetEnabled
  <2>2. PICK next \in {Database!Idle, Invalidating} : Database!Commit(a, next)
    BY <1>4 DEF Database!SetEnabled, Database!Switch, Invalidating
  <2>. QED BY <1>n, <2>1, <2>2, Committed
<1>5. ASSUME Database!ReplaceCredential(a) PROVE CoherenceInv' /\ job' \in [Admins -> Jobs]
  <2>1. /\ job[a].op \in Changing /\ epoch' = epoch + 1 /\ UNCHANGED <<current, scopes,
                                                            catalogue>>
        /\ tried' = tried \cup {<<job[a].revision, epoch + 1>>}
        /\ excused' = (excused \ {"pair"}) \cup IF a \in crossed THEN {"pair"} ELSE {}
        /\ Database!Commit(a, Invalidating)
    BY <1>5 DEF Database!ReplaceCredential, Database!Tested, Database!Excuse, Invalidating,
      Changing, Starting
  <2>2. job' \in [Admins -> Jobs] /\ \A b \in Admins : Reads(b)'
    BY <2>1, Committed
  <2>3. "pair" \notin excused' => <<current', epoch'>> \in tried'
    BY <1>r, <2>1
  <2>4. \A s \in Scopes \ excused' : s \notin excused
    BY <2>1 DEF Database!DatabaseSetting
  <2>5. \A s \in Scopes \ excused' : scopes'[s] \in {0, current'}
    BY <2>1, <2>4 DEF DatabaseInv, CoherenceInv
  <2>6. "catalogue" \notin excused' => catalogue' = current'
    BY <2>1 DEF DatabaseInv, CoherenceInv
  <2>. QED BY <2>2, <2>3, <2>5, <2>6 DEF CoherenceInv
<1>6. ASSUME Database!Discover(a) PROVE CoherenceInv' /\ job' \in [Admins -> Jobs]
  <2>1. /\ job[a].op \in Changing /\ UNCHANGED <<current, epoch, scopes, tried>>
        /\ catalogue' = job[a].revision
        /\ excused' = (excused \ {"catalogue"}) \cup IF a \in crossed THEN {"catalogue"} ELSE {}
        /\ Database!Commit(a, Database!Idle)
    BY <1>6 DEF Database!Discover, Database!Excuse, Changing, Starting
  <2>2. job' \in [Admins -> Jobs] /\ \A b \in Admins : Reads(b)'
    BY <2>1, Committed
  <2>3. \A s \in Scopes \ excused' : s \notin excused
    BY <2>1 DEF Database!DatabaseSetting
  <2>4. \A s \in Scopes \ excused' : scopes'[s] \in {0, current'}
    BY <2>1, <2>3 DEF DatabaseInv, CoherenceInv
  <2>5. "pair" \notin excused' => <<current', epoch'>> \in tried'
    BY <2>1 DEF DatabaseInv, CoherenceInv
  <2>6. "catalogue" \notin excused' => catalogue' = current'
    BY <1>r, <2>1
  <2>. QED BY <2>2, <2>4, <2>5, <2>6 DEF CoherenceInv
<1>7. ASSUME NEW s \in Scopes, Database!CreateScope(a, s)
      PROVE  CoherenceInv' /\ scopes' \in [Scopes -> Nat] /\ job' \in [Admins -> Jobs]
  <2>1. /\ job[a].op \in Changing /\ UNCHANGED <<current, epoch, catalogue, tried>>
        /\ scopes' = [scopes EXCEPT ![s] = job[a].revision]
        /\ excused' = excused \cup IF a \in crossed THEN {s} ELSE {}
        /\ Database!Commit(a, Database!Idle)
    BY <1>7 DEF Database!CreateScope, Database!Excuse, Changing, Starting
  <2>2. job' \in [Admins -> Jobs] /\ \A b \in Admins : Reads(b)'
    BY <2>1, Committed
  <2>3. /\ scopes' \in [Scopes -> Nat] /\ scopes'[s] = job[a].revision
        /\ \A t \in Scopes \ {s} : scopes'[t] = scopes[t]
    BY <1>t, <1>r, <1>7, <2>1
  <2>4. \A t \in Scopes \ excused' : scopes'[t] \in {0, current'}
    BY <1>r, <2>1, <2>3 DEF DatabaseInv, CoherenceInv
  <2>. QED BY <2>1, <2>2, <2>3, <2>4 DEF DatabaseInv, CoherenceInv
<1>8. ASSUME NEW reached, Database!Invalidate(a, reached)
      PROVE  CoherenceInv' /\ job' \in [Admins -> Jobs]
  <2>1. /\ job' = [job EXCEPT ![a] = Database!Idle]
        /\ UNCHANGED <<current, epoch, scopes, catalogue, tried, excused, crossed>>
    BY <1>8 DEF Database!Invalidate
  <2>2. job' \in [Admins -> Jobs] /\ job'[a].op = "none" /\ \A b \in Admins \ {a} : job'[b] = job[b]
    BY <1>t, <2>1, JobsDiffer DEF Jobs
  <2>3. \A b \in Admins : Reads(b)'
    BY <2>1, <2>2 DEF Reads, Changing, Starting, DatabaseInv, CoherenceInv, Database!Missed
  <2>. QED BY <1>n, <2>1, <2>2, <2>3
<1>12. ASSUME Database!InsertRevision(a) PROVE CoherenceInv' /\ job' \in [Admins -> Jobs]
  <2>. DEFINE revise == [op |-> "revise", revision |-> job[a].revision, epoch |-> job[a].epoch,
                         scopes |-> {s \in Scopes : scopes[s] # 0}]
  <2>1. /\ job' = [job EXCEPT ![a] = revise] /\ job[a].op = "patch"
        /\ UNCHANGED <<current, epoch, scopes, catalogue, tried, excused, crossed>>
    BY <1>12 DEF Database!InsertRevision
  <2>2. job[a].op \in Changing
    BY <2>1 DEF Changing, Starting
  <2>3. revise \in Jobs
    BY <1>r, <2>2 DEF Jobs, Revising
  <2>4. job' \in [Admins -> Jobs] /\ job'[a] = revise /\ \A b \in Admins \ {a} : job'[b] = job[b]
    BY <1>t, <2>1, <2>3
  <2>5. ASSUME NEW b \in Admins PROVE Reads(b)'
    <3>1. CASE b = a
      <4>1. Database!Missed(revise.scopes)' = {}
        BY <2>1 DEF Database!Missed
      <4>. QED BY <1>r, <2>1, <2>2, <2>4, <3>1, <4>1 DEF Reads, Database!Missed
    <3>2. CASE b # a
      BY <2>1, <2>4, <3>2 DEF Reads, DatabaseInv, CoherenceInv, Database!Missed
    <3>. QED BY <3>1, <3>2
  <2>. QED BY <1>n, <2>1, <2>4, <2>5
<1>9. CoherenceInv' /\ job' \in [Admins -> Jobs]
  BY <1>1, <1>2, <1>3, <1>4, <1>5, <1>6, <1>7, <1>8, <1>12
     DEF Database!Operate, Database!TestFails, Database!ScopeInvalid, Starting
<1>10. /\ current' \in {current, current + 1} /\ epoch' \in {epoch, epoch + 1} /\ enabled' \in BOOLEAN
       /\ UNCHANGED <<query, runtime>>
  BY <1>t DEF Database!Operate, Database!TestFails, Database!ScopeInvalid, Database!Begin,
    Database!Refuse, Database!InsertRevision,
     Database!UpdateEndpoint, Database!SetEnabled, Database!Switch, Database!ReplaceCredential,
       Database!Discover,
     Database!CreateScope, Database!Invalidate
<1>11. scopes' \in [Scopes -> Nat]
  <2>1. CASE scopes' = scopes
    BY <1>t, <2>1
  <2>. QED BY <1>3, <1>7, <2>1 DEF Database!Operate, Database!TestFails, Database!ScopeInvalid,
    Database!Begin,
     Database!Refuse, Database!InsertRevision, Database!SetEnabled, Database!ReplaceCredential,
       Database!Discover, Database!Invalidate
<1>. QED BY <1>t, <1>9, <1>10, <1>11

-----------------------------------------------------------------------------
(* The pools.                                                              *)

LEMMA PairsAreEqual ==
  ASSUME NEW S, NEW T, NEW x \in S \X T, NEW y \in S \X T, x[1] = y[1], x[2] = y[2]
  PROVE  x = y
OBVIOUS

(* No pool is made or closed; nobody invalidates who did not.              *)
LEMMA PoolsStay ==
  ASSUME DatabaseInv, UNCHANGED <<pools, query, runtime, closing, epoch, late>>,
         current' \in Nat, current' >= current, disturbed \subseteq disturbed',
         \/ enabled' = TRUE
         \/ \E a \in Admins : job'[a].op = "invalidate"
         \/ enabled' = enabled /\ \A a \in Admins : job[a].op = "invalidate" => job'[a].op = "invalidate"
  PROVE  PoolsInv'
<1>1. 1..current \subseteq 1..current' /\ Database!Under' = Database!Under
  BY DEF DatabaseInv, DatabaseTypes, Database!Under
<1>2. /\ \A q \in Database!Under : runtime[q] \in (1..current') \X Nat
      /\ pools \subseteq (1..current') \X Nat
  <2>1. (1..current) \X Nat \subseteq (1..current') \X Nat
    BY <1>1
  <2>. QED BY <2>1 DEF DatabaseInv, PoolsInv
<1>3. /\ \A p, q \in Database!Under : p \notin disturbed' => runtime[q][2] = epoch
      /\ closing \subseteq disturbed'
      /\ \A k, l \in pools : k[1] = l[1] => k = l
      /\ \A q \in Queries : query[q] = "closed" => q \in disturbed'
  BY DEF DatabaseInv, PoolsInv
<1>4. ~enabled' /\ (\A a \in Admins : job'[a].op # "invalidate") => pools = {} \/ late
  BY DEF DatabaseInv, PoolsInv
<1>. QED BY <1>1, <1>2, <1>3, <1>4 DEF PoolsInv

LEMMA PoolsOfOperations ==
  ASSUME Database!DatabaseSetting, DatabaseInv, NEW a \in Admins, Database!Operate(a)
  PROVE  PoolsInv'
<1>. USE DEF Database!registry, Database!service, Database!history
<1>t. /\ current \in Nat \ {0} /\ epoch \in Nat /\ job \in [Admins -> Jobs]
      /\ current' \in Nat /\ current' >= current
  BY CoherenceOfOperations DEF DatabaseInv, DatabaseTypes
(* Who neither invalidates before nor after.                               *)
<1>n. ASSUME NEW j, job' = [job EXCEPT ![a] = j], job[a].op # "invalidate", enabled' = enabled,
             UNCHANGED <<pools, query, runtime, closing, epoch, late, disturbed>>
      PROVE  PoolsInv'
  <2>1. \A b \in Admins : job[b].op = "invalidate" => job'[b].op = "invalidate"
    BY <1>n, <1>t
  <2>. QED BY <1>n, <1>t, <2>1, PoolsStay
<1>1. ASSUME NEW op, Database!Begin(a, op) PROVE PoolsInv'
  BY <1>1, <1>n, JobsDiffer DEF Database!Begin
<1>2. ASSUME NEW ops \in SUBSET Changing, Database!Refuse(a, ops) PROVE PoolsInv'
  <2>1. job[a].op # "invalidate"
    BY <1>2 DEF Database!Refuse, Changing, Starting
  <2>. QED BY <1>2, <1>n, <2>1 DEF Database!Refuse
<1>3. ASSUME NEW enable \in BOOLEAN, Database!UpdateEndpoint(a, enable) PROVE PoolsInv'
  <2>1. job'[a].op = "invalidate"
    BY <1>3, Committed, JobsDiffer DEF Database!UpdateEndpoint, Invalidating
  <2>2. UNCHANGED <<pools, query, runtime, closing, epoch, late, disturbed>>
    BY <1>3 DEF Database!UpdateEndpoint
  <2>. QED BY <1>t, <2>1, <2>2, PoolsStay
<1>4. ASSUME NEW enable \in BOOLEAN, Database!SetEnabled(a, enable) PROVE PoolsInv'
  <2>1. UNCHANGED <<pools, query, runtime, closing, epoch, late, disturbed>>
    BY <1>4 DEF Database!SetEnabled, Database!Switch
  <2>2. enabled' = TRUE \/ job'[a].op = "invalidate"
    <3>1. CASE enable = FALSE
      <4>1. Database!Commit(a, Invalidating)
        BY <1>4, <3>1 DEF Database!SetEnabled, Database!Switch, Invalidating
      <4>. QED BY <4>1, Committed, JobsDiffer
    <3>2. CASE enable = TRUE
      BY <1>4, <3>2 DEF Database!SetEnabled, Database!Switch
    <3>. QED BY <1>4, <3>1, <3>2
  <2>. QED BY <1>t, <2>1, <2>2, PoolsStay
<1>5. CASE Database!ReplaceCredential(a)
  <2>1. job'[a].op = "invalidate"
    BY <1>5, Committed, JobsDiffer DEF Database!ReplaceCredential, Invalidating
  <2>2. UNCHANGED <<pools, query, runtime, closing,
                    current>> /\ disturbed' = disturbed \cup Database!Under
    BY <1>5 DEF Database!ReplaceCredential
  <2>3. Database!Under' = Database!Under
    BY <2>2 DEF Database!Under
  <2>. QED BY <2>1, <2>2, <2>3 DEF DatabaseInv, PoolsInv
<1>6. CASE Database!Discover(a)
  BY <1>6, <1>n DEF Database!Discover, Database!Commit
<1>7. ASSUME NEW s \in Scopes, Database!CreateScope(a, s) PROVE PoolsInv'
  BY <1>7, <1>n DEF Database!CreateScope, Database!Commit
<1>8. ASSUME NEW reached, Database!Invalidate(a, reached) PROVE PoolsInv'
  <2>1. /\ reached \subseteq 1..current
        /\ pools' = pools \ {key \in pools : key[1] \in reached}
        /\ closing' = closing \cup {q \in Queries : /\ query[q] \in {"waiting", "executing"}
                                                   /\ runtime[q] \in {key \in pools : key[1] \in reached}}
        /\ disturbed' = disturbed \cup Database!Under
        /\ late' = (late \/ reached # 1..current)
        /\ UNCHANGED <<query, runtime, current, epoch, enabled>>
    BY <1>8 DEF Database!Invalidate, Database!Close
  <2>2. Database!Under' = Database!Under
    BY <2>1 DEF Database!Under
  <2>3. closing' \subseteq disturbed'
    BY <2>1 DEF DatabaseInv, PoolsInv, Database!Under
  <2>4. reached = 1..current => pools' = {}
    <3>1. \A key \in pools : key[1] \in 1..current
      BY DEF DatabaseInv, PoolsInv
    <3>. QED BY <2>1, <3>1
  <2>5. pools' = {} \/ late'
    BY <2>1, <2>4
  <2>. QED BY <2>1, <2>2, <2>3, <2>5 DEF DatabaseInv, PoolsInv
<1>9. CASE Database!InsertRevision(a)
  <2>1. job[a].op # "invalidate"
    BY <1>9 DEF Database!InsertRevision
  <2>. QED BY <1>9, <1>n, <2>1 DEF Database!InsertRevision
<1>10. Database!TestFails(a) \/ Database!ScopeInvalid(a) => \E ops \in SUBSET Changing : Database!Refuse(a, ops)
  BY DEF Database!TestFails, Database!ScopeInvalid, Changing, Starting
<1>. QED BY <1>1, <1>2, <1>3, <1>4, <1>5, <1>6, <1>7, <1>8, <1>9, <1>10
     DEF Database!Operate

(* A query moves and leaves the pools alone.                               *)
LEMMA QueriesMove ==
  ASSUME DatabaseInv, NEW q \in Queries, NEW to \in Phases, query' = [query EXCEPT ![q] = to],
         UNCHANGED <<runtime, pools, disturbed, current, epoch, enabled, late,
                     job>>, closing' \subseteq closing,
         to \in {"authorised", "waiting", "executing"} => q \in Database!Under,
         to = "closed" => q \in disturbed
  PROVE  PoolsInv'
<1>1. query'[q] = to /\ \A p \in Queries \ {q} : query'[p] = query[p]
  BY DEF DatabaseInv, DatabaseTypes
<1>2. Database!Under' \subseteq Database!Under
  BY <1>1 DEF Database!Under
<1>3. \A p \in Queries : query'[p] = "closed" => p \in disturbed
  BY <1>1 DEF DatabaseInv, PoolsInv
<1>. QED BY <1>2, <1>3 DEF DatabaseInv, PoolsInv

LEMMA PoolsOfQueries ==
  ASSUME Database!DatabaseSetting, DatabaseInv, NEW q \in Queries, Database!Run(q)
  PROVE  /\ PoolsInv' /\ query' \in [Queries -> Phases] /\ runtime' \in [Queries -> (Nat \X Nat) \cup {Nil}]
         /\ UNCHANGED <<enabled, current, epoch, scopes, catalogue, job, tried, crossed, excused>>
<1>. USE DEF Database!registry, Database!service, Database!history, Database!Enter
<1>u. UNCHANGED <<enabled, current, epoch, scopes, catalogue, job, tried, crossed, excused>>
  BY DEF Database!Run, Database!Authorize, Database!DenyToken, Database!DenyStatement,
    Database!DenyFunction,
     Database!Deny, Database!TargetPool, Database!AcquireConnection, Database!Connect,
       Database!Again, Database!Execute
<1>t. /\ query \in [Queries -> Phases] /\ runtime \in [Queries -> (Nat \X Nat) \cup {Nil}]
      /\ current \in Nat \ {0} /\ epoch \in Nat
  BY DEF DatabaseInv, DatabaseTypes
<1>p. /\ "authorised" \in Phases /\ "waiting" \in Phases /\ "executing" \in Phases
      /\ "closed" \in Phases /\ "done" \in Phases
  BY DEF Phases
<1>1. ASSUME NEW revision \in 1..current, Database!Authorize(q, revision)
      PROVE  PoolsInv' /\ query' \in [Queries -> Phases] /\ runtime' \in [Queries -> (Nat \X Nat) \cup {Nil}]
  <2>1. /\ query[q] = "new" /\ query' = [query EXCEPT ![q] = "authorised"]
        /\ runtime' = [runtime EXCEPT ![q] = <<revision, epoch>>]
        /\ disturbed' = IF \E p \in Database!Under : runtime[p][2] # epoch THEN disturbed \cup {q} ELSE disturbed
        /\ UNCHANGED <<pools, closing, late>>
    BY <1>1 DEF Database!Authorize
  <2>2. <<revision, epoch>> \in (1..current) \X Nat /\ <<revision, epoch>> \in Nat \X Nat
    BY <1>1, <1>t
  <2>3. /\ query' \in [Queries -> Phases] /\ query'[q] = "authorised" /\ \A p \in Queries \ {q} : query'[p] = query[p]
        /\ runtime' \in [Queries -> (Nat \X Nat) \cup {Nil}] /\ runtime'[q] = <<revision, epoch>>
        /\ \A p \in Queries \ {q} : runtime'[p] = runtime[p]
    BY <1>t, <1>p, <2>1, <2>2
  <2>4. q \notin Database!Under /\ Database!Under' = Database!Under \cup {q}
    BY <2>1, <2>3 DEF Database!Under
  <2>5. \A p \in Database!Under' : runtime'[p] \in (1..current) \X Nat
    BY <2>2, <2>3, <2>4 DEF DatabaseInv, PoolsInv, Database!Under
  <2>6. ASSUME NEW p \in Database!Under', NEW r \in Database!Under', p \notin disturbed'
        PROVE  runtime'[r][2] = epoch
    <3>1. CASE r = q
      BY <2>3, <3>1
    <3>2. CASE r # q
      <4>1. r \in Database!Under /\ runtime'[r] = runtime[r]
        BY <2>3, <2>4, <2>6, <3>2 DEF Database!Under
      <4>2. p \in Database!Under => runtime[r][2] = epoch
        BY <2>1, <2>6, <4>1 DEF DatabaseInv, PoolsInv
      <4>3. p = q => runtime[r][2] = epoch
        BY <2>1, <2>6, <4>1
      <4>. QED BY <2>4, <2>6, <4>1, <4>2, <4>3
    <3>. QED BY <3>1, <3>2
  <2>7. /\ closing' \subseteq disturbed'
        /\ \A p \in Queries : query'[p] = "closed" => p \in disturbed'
    BY <2>1, <2>3 DEF DatabaseInv, PoolsInv
  <2>. QED BY <1>u, <2>1, <2>3, <2>5, <2>6, <2>7 DEF DatabaseInv, PoolsInv
<1>2. ASSUME NEW from, Database!Deny(q, from)
      PROVE  PoolsInv' /\ query' \in [Queries -> Phases] /\ runtime' = runtime
  <2>1. /\ query' = [query EXCEPT ![q] = "done"] /\ closing' \subseteq closing
        /\ UNCHANGED <<runtime, pools, disturbed, late>>
    BY <1>2 DEF Database!Deny
  <2>. QED BY <1>u, <1>t, <1>p, <2>1, QueriesMove
<1>3. CASE Database!AcquireConnection(q)
  <2>1. PICK to \in {"closed", "executing"} :
          /\ query[q] = "waiting" /\ query' = [query EXCEPT ![q] = to] /\ (to = "closed" => q \in closing)
    BY <1>3 DEF Database!AcquireConnection
  <2>2. UNCHANGED <<runtime, pools, disturbed, late, closing>>
    BY <1>3 DEF Database!AcquireConnection
  <2>3. to \in Phases /\ q \in Database!Under /\ (to = "closed" => q \in disturbed)
    BY <1>p, <2>1 DEF Database!Under, DatabaseInv, PoolsInv
  <2>. QED BY <1>u, <1>t, <2>1, <2>2, <2>3, QueriesMove
<1>4. CASE Database!Connect(q) \/ Database!Again(q) \/ Database!Execute(q)
  <2>1. PICK to \in {"executing", "authorised", "done"} :
          /\ query[q] \in {"authorised", "executing"} /\ query' = [query EXCEPT ![q] = to]
    BY <1>4 DEF Database!Connect, Database!Again, Database!Execute
  <2>2. UNCHANGED <<runtime, pools, disturbed, late>> /\ closing' \subseteq closing
    BY <1>4 DEF Database!Connect, Database!Again, Database!Execute
  <2>3. to \in Phases /\ q \in Database!Under /\ to # "closed"
    BY <1>p, <2>1 DEF Database!Under
  <2>. QED BY <1>u, <1>t, <2>1, <2>2, <2>3, QueriesMove
<1>5. CASE Database!TargetPool(q)
  <2>. DEFINE key == runtime[q]
  <2>1. /\ query[q] = "authorised" /\ query' = [query EXCEPT ![q] = "waiting"]
        /\ runtime' = [runtime EXCEPT ![q] = key]
        /\ UNCHANGED disturbed
    BY <1>5 DEF Database!TargetPool, Database!PoolOf
  <2>2. runtime' = runtime /\ query' \in [Queries -> Phases] /\ q \in Database!Under
        /\ query'[q] = "waiting" /\ \A p \in Queries \ {q} : query'[p] = query[p]
    BY <1>t, <1>p, <2>1 DEF Database!Under
  <2>3. Database!Under' = Database!Under
    BY <2>1, <2>2 DEF Database!Under
  <2>4. \A p \in Queries : query'[p] = "closed" => p \in disturbed
    BY <2>2 DEF DatabaseInv, PoolsInv
  <2>5. CASE key \in pools
    <3>1. UNCHANGED <<pools, closing>> /\ (late => late')
      BY <1>5, <2>5 DEF Database!TargetPool, Database!PoolOf
    <3>. QED BY <1>u, <1>t, <2>1, <2>2, <2>3, <2>4, <3>1 DEF DatabaseInv, PoolsInv
  <2>6. CASE key \notin pools
    <3>1. /\ pools' = (pools \ Database!Stale(q)) \cup {key}
          /\ closing' = closing \cup {p \in Queries : /\ query[p] \in {"waiting", "executing"}
                                                   /\ runtime[p] \in Database!Stale(q)}
          /\ ~enabled => late'
      BY <1>5, <2>6 DEF Database!TargetPool, Database!PoolOf
    <3>2. key \in (1..current) \X Nat
      BY <2>2 DEF DatabaseInv, PoolsInv
    <3>3. pools' \subseteq (1..current) \X Nat
      BY <3>1, <3>2 DEF DatabaseInv, PoolsInv
    <3>4. \A k, l \in pools' : k[1] = l[1] => k = l
      BY <2>6, <3>1 DEF Database!Stale, DatabaseInv, PoolsInv
    <3>5. closing' \subseteq disturbed
      <4>. SUFFICES ASSUME NEW p \in Queries, query[p] \in {"waiting", "executing"},
                           runtime[p] \in Database!Stale(q), p \notin disturbed
           PROVE  FALSE
        BY <3>1 DEF DatabaseInv, PoolsInv
      <4>1. p \in Database!Under
        BY DEF Database!Under
      <4>2. runtime[p][2] = epoch /\ key[2] = epoch
        BY <2>2, <4>1 DEF DatabaseInv, PoolsInv
      <4>3. runtime[p][1] = key[1] /\ runtime[p] # key /\ runtime[p] \in (1..current) \X Nat
        BY <4>1 DEF Database!Stale, DatabaseInv, PoolsInv
      <4>. QED BY <3>2, <4>2, <4>3, PairsAreEqual
    <3>. QED BY <1>u, <1>t, <2>1, <2>2, <2>3, <2>4, <3>1, <3>3, <3>4, <3>5 DEF DatabaseInv,
      PoolsInv
  <2>. QED BY <1>t, <2>2, <2>5, <2>6
<1>6. PoolsInv' /\ query' \in [Queries -> Phases] /\ runtime' \in [Queries -> (Nat \X Nat) \cup {Nil}]
  BY <1>t, <1>1, <1>2, <1>3, <1>4, <1>5, Zenon DEF Database!Run, Database!DenyToken,
    Database!DenyStatement, Database!DenyFunction
<1>. QED BY <1>u, <1>6

LEMMA DatabaseNext ==
  ASSUME Database!DatabaseSetting, DatabaseInv, [Database!Next]_(Database!databaseVars)
  PROVE  DatabaseInv'
<1>1. CASE UNCHANGED Database!databaseVars
  <2>1. UNCHANGED <<enabled, current, epoch, scopes, catalogue, job, pools, query, runtime,
                    closing, tried, crossed,
                    excused, disturbed, late>>
    BY <1>1 DEF Database!databaseVars, Database!registry, Database!service, Database!history
  <2>. QED BY <2>1 DEF DatabaseInv, DatabaseTypes, CoherenceInv, Reads, PoolsInv, Database!Under,
    Database!Missed
<1>2. ASSUME NEW a \in Admins, Database!Operate(a) PROVE DatabaseInv'
  <2>1. /\ CoherenceInv' /\ current' \in Nat \ {0} /\ epoch' \in Nat
        /\ scopes' \in [Scopes -> Nat] /\ job' \in [Admins -> Jobs] /\ enabled' \in BOOLEAN
        /\ UNCHANGED <<query, runtime>>
    BY <1>2, CoherenceOfOperations
  <2>2. PoolsInv'
    BY <1>2, PoolsOfOperations
  <2>. QED BY <2>1, <2>2 DEF DatabaseInv, DatabaseTypes
<1>3. ASSUME NEW q \in Queries, Database!Run(q) PROVE DatabaseInv'
  <2>1. /\ PoolsInv' /\ query' \in [Queries -> Phases] /\ runtime' \in [Queries -> (Nat \X Nat) \cup {Nil}]
        /\ UNCHANGED <<enabled, current, epoch, scopes, catalogue, job, tried, crossed, excused>>
    BY <1>3, PoolsOfQueries
  <2>2. DatabaseTypes'
    BY <2>1 DEF DatabaseInv, DatabaseTypes
  <2>3. CoherenceInv'
    BY <2>1 DEF DatabaseInv, CoherenceInv, Reads, Database!Missed
  <2>. QED BY <2>1, <2>2, <2>3 DEF DatabaseInv
<1>. QED BY <1>1, <1>2, <1>3, Zenon DEF Database!Next

(* Scopes, catalogue and credential belong to the endpoint in use, unless  *)
(* what wrote them overlapped another operation                            *)
(* (api/database_connections.py:108-160, 219-290).                         *)
THEOREM RegistryIsCoherent == Database!Spec => []RegistryCoherent
<1>0. Database!DatabaseSetting
  BY DatabaseAssumption
<1>1. DatabaseInv => RegistryCoherent
  BY DEF DatabaseInv, CoherenceInv, Database!RegistryCoherent, RegistryCoherent
<1>. QED BY <1>0, <1>1, DatabaseInit, DatabaseNext, PTL DEF Database!Spec

(* A query runs with the credential that was in use when it was            *)
(* authorised, there is one pool per revision, a query meets a closing     *)
(* pool only when it was disturbed, and a disabled connection keeps no     *)
(* pools (server.py:478-515, api/database_connections.py:160-180).         *)
THEOREM PoolsDoFollow == Database!Spec => []PoolsFollow
<1>0. Database!DatabaseSetting
  BY DatabaseAssumption
<1>1. DatabaseInv => PoolsFollow
  BY DEF DatabaseInv, PoolsInv, Database!Under, Database!PoolsFollow, PoolsFollow
<1>. QED BY <1>0, <1>1, DatabaseInit, DatabaseNext, PTL DEF Database!Spec

-----------------------------------------------------------------------------
(* CapabilityRegistry: what a released Agent may call.                     *)

Items  == Bound \cup UNION Offers
Bindings   == {Drafts!Binding(i, r) : i \in Items, r \in DraftRequests \cup {Nil}}
Least(s) == CHOOSE i \in s : \A j \in s : i <= j
Chosen == [alias : {b.alias : b \in Bindings}, implementation : {Least(s) : s \in SUBSET Implementations}]
Asks   == Contracts \cup {Nil} \cup Drafts!Ops
Places == {"new", "testing", "migrating", "migrated", "loaded", "examined", "resolved", "frozen", "done"}
DraftStatuses == Drafts!Editable \cup {"published"}

Work   == [at : Places, op : Asks, offer : SUBSET Items, seen : SUBSET Bindings,
           tools : SUBSET Chosen, status : DraftStatuses \cup {Nil}, format : {1, 2}]
Works  == [DraftRequests -> Work]

DraftTypes ==
  /\ contract \in [Contracts -> Drafts!InService \cup {"draft", "testing"}]
  /\ built \subseteq Implementations /\ bindings \subseteq Bindings
  /\ draft \in DraftStatuses /\ frozen \subseteq Chosen /\ format \in {1, 2}
  /\ work \in Works

(* What these tools say is what the draft is bound to.                     *)
Faithful(tools) ==
  /\ Drafts!Aliases(tools) = Drafts!Aliases(bindings)
  /\ \A b \in bindings :
       /\ contract[b.contract] \in Drafts!InService
       /\ b.pin # Nil => [alias |-> b.alias, implementation |-> b.pin] \in tools
  /\ Drafts!NeedMet

(* A publication that nothing raced with goes on with the format it has    *)
(* read and the tools it has resolved, and who changes bindings began when *)
(* the draft was in development.                                           *)
Released(r)  == work[r].at \in {"resolved", "frozen"}
Publishes(r) == Released(r) \/ (work[r].at = "loaded" /\ work[r].op \in {"console", "api"})
Shown        == draft = "published" \/ \E r \in DraftRequests : work[r].at = "frozen"
Owes(r) ==
  /\ work[r].at = "loaded" /\ work[r].op \in {"direct", "database"} => work[r].status = "development"
  /\ work[r].at = "examined" => work[r].status = "development"
  /\ work[r].at = "resolved" => work[r].op \in {"console", "api"}

ReleaseInv ==
  /\ ~raced => /\ \A r \in DraftRequests : Publishes(r) => work[r].format = format
               /\ \A r \in DraftRequests : Released(r) /\ work[r].format = 2 => Faithful(work[r].tools)
               /\ Shown /\ format = 2 => Faithful(frozen)
  /\ \A r \in DraftRequests : Owes(r)

DraftInv == DraftTypes /\ ReleaseInv

LEMMA DraftInit == Drafts!DraftSetting /\ Drafts!Init => DraftInv
<1>. SUFFICES ASSUME Drafts!DraftSetting, Drafts!Init PROVE DraftInv
  OBVIOUS
<1>1. /\ contract \in [Contracts -> {"draft"}] \/ contract \in [Contracts -> {"published"}]
      /\ built \subseteq Implementations
      /\ bindings \subseteq Bindings
  BY DEF Drafts!Init, Bindings, Items
<1>2. work \in Works
  BY DEF Drafts!Init, Drafts!Idle, Places, Asks, Works, Work
<1>3. draft = "development" /\ \A r \in DraftRequests : work[r].at = "new"
  BY DEF Drafts!Init, Drafts!Idle
<1>4. frozen = {} /\ format \in {1, 2}
  BY DEF Drafts!Init
<1>5. DraftTypes
  BY <1>1, <1>2, <1>3, <1>4 DEF DraftTypes, Drafts!InService, DraftStatuses, Drafts!Editable
<1>. QED BY <1>3, <1>5 DEF DraftInv, ReleaseInv, Released, Publishes, Shown, Owes

(* As long as the bindings stay and the contracts they name stay in        *)
(* service, what was faithful is.                                          *)
LEMMA StaysFaithful ==
  ASSUME NEW tools, Faithful(tools), bindings' = bindings,
         \A b \in bindings : contract[b.contract] \in Drafts!InService =>
                               contract'[b.contract] \in Drafts!InService
  PROVE  Faithful(tools)'
<1>1. Drafts!NeedMet' <=> Drafts!NeedMet
  BY DEF Drafts!NeedMet, Drafts!ForNeed
<1>2. Drafts!Aliases(tools)' = Drafts!Aliases(tools) /\ Drafts!Aliases(bindings)' = Drafts!Aliases(bindings)
  BY DEF Drafts!Aliases
<1>. QED BY <1>1, <1>2 DEF Faithful

(* What the resolver has resolved is faithful.                             *)
LEMMA ResolvedIsFaithful ==
  ASSUME Drafts!DraftSetting, DraftTypes, NEW n \in {1, 2}, Drafts!Ready(n)
  PROVE  Drafts!Tools(n) \subseteq Chosen /\ (n = 2 => Faithful(Drafts!Tools(2)))
<1>0. CASE n = 1
  BY <1>0 DEF Drafts!Tools
<1>. SUFFICES ASSUME n = 2 PROVE Faithful(Drafts!Tools(2)) /\ Drafts!Tools(2) \subseteq Chosen
  BY <1>0
<1>1. ASSUME NEW b \in bindings PROVE Drafts!Implementation(b) = Least(Drafts!Candidates(b))
  BY DEF Drafts!Implementation, Least
<1>2. ASSUME NEW b \in bindings PROVE Drafts!Candidates(b) \in SUBSET Implementations
  BY DEF Drafts!Candidates, DraftTypes
<1>3. ASSUME NEW b \in bindings, b.pin # Nil PROVE Drafts!Implementation(b) = b.pin
  <2>1. Drafts!Candidates(b) # {} /\ Drafts!Candidates(b) = built \cap {b.pin}
    BY <1>3 DEF Drafts!Ready, Drafts!Candidates
  <2>2. Drafts!Candidates(b) = {b.pin} /\ b.pin \in Nat
    BY <2>1 DEF DraftTypes, Drafts!DraftSetting
  <2>. QED BY <2>2, <1>1 DEF Least
<1>4. Drafts!Tools(2) \subseteq Chosen
  <2>1. ASSUME NEW b \in bindings
        PROVE  [alias |-> b.alias, implementation |-> Drafts!Implementation(b)] \in Chosen
    BY <1>1, <1>2, <2>1 DEF Chosen, DraftTypes
  <2>. QED BY <2>1 DEF Drafts!Tools
<1>5. Drafts!Aliases(Drafts!Tools(2)) = Drafts!Aliases(bindings)
  <2>. DEFINE Tool(b) == [alias |-> b.alias, implementation |-> Drafts!Implementation(b)]
  <2>1. Drafts!Tools(2) = {Tool(b) : b \in bindings} /\ \A b \in bindings : Tool(b).alias = b.alias
    BY DEF Drafts!Tools
  <2>. HIDE DEF Tool
  <2>. QED BY <2>1 DEF Drafts!Aliases
<1>6. \A b \in bindings : b.pin # Nil => [alias |-> b.alias, implementation |-> b.pin] \in Drafts!Tools(2)
  BY <1>3 DEF Drafts!Tools
<1>. QED BY <1>4, <1>5, <1>6 DEF Faithful, Drafts!Ready

(* What a step of a request does that leaves the bindings: it only shows   *)
(* what was shown before or what was resolved.                             *)
Proceeds(r) ==
  /\ bindings' = bindings /\ built' = built /\ (raced => raced')
  /\ contract' \in [Contracts -> Drafts!InService \cup {"draft", "testing"}]
  /\ draft' \in DraftStatuses /\ frozen' \subseteq Chosen /\ format' \in {1, 2}
  /\ work' \in Works /\ \A q \in DraftRequests \ {r} : work'[q] = work[q]
  /\ ~raced' =>
       /\ \A c \in Contracts : contract[c] \in Drafts!InService => contract'[c] \in Drafts!InService
       /\ format' = format \/ \A q \in DraftRequests \ {r} : ~Publishes(q)
       /\ Publishes(r)' => work'[r].format = format'
       /\ Released(r)' /\ work'[r].format = 2 =>
            \/ Released(r) /\ work'[r].format = work[r].format /\ work'[r].tools = work[r].tools
            \/ Drafts!Ready(2) /\ work'[r].tools = Drafts!Tools(2)
       /\ Shown' /\ format' = 2 =>
            \/ Shown /\ format = 2 /\ frozen' = frozen
            \/ Released(r) /\ work[r].format = 2 /\ frozen' = work[r].tools
  /\ Owes(r)'

LEMMA ReleaseKept ==
  ASSUME Drafts!DraftSetting, DraftInv, bindings' = bindings, raced => raced', ~raced',
         \A c \in Contracts : contract[c] \in Drafts!InService => contract'[c] \in Drafts!InService,
         \A r \in DraftRequests : Released(r)' /\ work'[r].format = 2 =>
           \/ Released(r) /\ work'[r].format = work[r].format /\ work'[r].tools = work[r].tools
           \/ Drafts!Ready(2) /\ work'[r].tools = Drafts!Tools(2),
         Shown' /\ format' = 2 =>
           \/ Shown /\ format = 2 /\ frozen' = frozen
           \/ \E r \in DraftRequests : Released(r) /\ work[r].format = 2 /\ frozen' = work[r].tools
  PROVE  /\ \A r \in DraftRequests : Released(r)' /\ work'[r].format = 2 => Faithful(work[r].tools)'
         /\ Shown' /\ format' = 2 => Faithful(frozen)'
<1>1. \A b \in bindings : contract[b.contract] \in Drafts!InService =>
                            contract'[b.contract] \in Drafts!InService
  <2>1. \A b \in bindings : b.contract \in Contracts
    BY DEF DraftInv, DraftTypes, Bindings, Items, Drafts!Binding, Drafts!DraftSetting
  <2>. QED BY <2>1
<1>2. ASSUME NEW tools, Faithful(tools) PROVE Faithful(tools)'
  BY <1>1, <1>2, StaysFaithful
<1>3. ASSUME NEW r \in DraftRequests, Released(r)', work'[r].format = 2 PROVE Faithful(work[r].tools)'
  <2>1. PICK tools : tools = work'[r].tools
    OBVIOUS
  <2>2. Faithful(tools)
    BY <1>3, <2>1, ResolvedIsFaithful DEF DraftInv, ReleaseInv
  <2>3. Faithful(tools)'
    BY <1>2, <2>2
  <2>. QED BY <2>1, <2>3 DEF Faithful
<1>4. ASSUME Shown', format' = 2 PROVE Faithful(frozen)'
  <2>1. PICK tools : tools = frozen'
    OBVIOUS
  <2>2. Faithful(tools)
    BY <1>4, <2>1 DEF DraftInv, ReleaseInv
  <2>3. Faithful(tools)'
    BY <1>2, <2>2
  <2>. QED BY <2>1, <2>3 DEF Faithful
<1>. QED BY <1>3, <1>4

(* A request goes to another place, and nothing else of it changes ...     *)
LEMMA OneStep ==
  ASSUME DraftTypes, NEW r \in DraftRequests, NEW where \in Places, Drafts!Step(r, where)
  PROVE  /\ work' \in Works
         /\ work'[r].at = where /\ work'[r].op = work[r].op /\ work'[r].status = work[r].status
         /\ work'[r].tools = work[r].tools /\ work'[r].format = work[r].format
         /\ \A q \in DraftRequests \ {r} : work'[q] = work[q]
BY DEF Drafts!Step, DraftTypes, Works, Work

(* ... or is over.                                                         *)
LEMMA LastStep ==
  ASSUME DraftTypes, NEW r \in DraftRequests, Drafts!Finish(r)
  PROVE  /\ work' \in Works /\ work'[r].at = "done"
         /\ \A q \in DraftRequests \ {r} : work'[q] = work[q]
<1>1. [Drafts!Idle EXCEPT !.at = "done"] \in Work /\ [Drafts!Idle EXCEPT !.at = "done"].at = "done"
  BY DEF Drafts!Idle, Places, Asks, Work
<1>. QED BY <1>1 DEF Drafts!Finish, DraftTypes, Works

LEMMA Reworked ==
  ASSUME NEW w \in Work, NEW a \in Places
  PROVE  /\ \A o \in Asks : [w EXCEPT !.at = a, !.op = o] \in Work
         /\ \A o \in Asks, s \in DraftStatuses, f \in {1, 2}, t \in SUBSET Chosen :
              [w EXCEPT !.at = a, !.op = o, !.status = s, !.format = f, !.tools = t] \in Work
         /\ \A o \in SUBSET Items, s \in SUBSET Bindings :
              [w EXCEPT !.at = a, !.offer = o, !.seen = s] \in Work
         /\ \A t \in SUBSET Chosen : [w EXCEPT !.at = a, !.tools = t] \in Work
BY DEF Work

(* A step of a request that is not about to publish, and shows nothing.    *)
KeepsDraft(r) ==
  /\ UNCHANGED <<built, draft, bindings, frozen, format, raced>>
  /\ contract' = contract
  /\ work' \in Works /\ \A q \in DraftRequests \ {r} : work'[q] = work[q]
  /\ ~Released(r)' /\ (Publishes(r)' => work'[r].format = format)
  /\ Owes(r)'

LEMMA AsideProceeds ==
  ASSUME DraftInv, NEW r \in DraftRequests, KeepsDraft(r)
  PROVE  Proceeds(r)
<1>1. Shown' => Shown
  BY DEF KeepsDraft, Released, Shown
<1>. QED BY <1>1 DEF KeepsDraft, Proceeds, DraftInv, DraftTypes

(* A snapshot that is replaced when nobody publishes and nothing is        *)
(* published shows nothing.                                                *)
LEMMA ReplacedProceeds ==
  ASSUME DraftInv, NEW r \in DraftRequests,
         UNCHANGED <<contract, built, instance, draft, bindings>>, Drafts!Overwritten,
         frozen' \subseteq Chosen, format' \in {1, 2}, work' \in Works,
         \A q \in DraftRequests \ {r} : work'[q] = work[q], work'[r].at \in {"migrated", "done"}
  PROVE  Proceeds(r)
<1>1. ~Publishes(r)' /\ ~Released(r)' /\ Owes(r)' /\ work'[r].at # "frozen"
  BY DEF Publishes, Released, Owes
<1>2. ASSUME ~raced' PROVE ~Shown' /\ ~raced /\ \A q \in DraftRequests : ~Publishes(q)
  <2>1. ~Drafts!Publishing /\ draft \in Drafts!Editable /\ ~raced
    BY <1>2 DEF Drafts!Overwritten
  <2>2. \A q \in DraftRequests : ~Publishes(q)
    BY <2>1 DEF Drafts!Publishing, Drafts!Releasing, Drafts!At, Publishes, Released
  <2>3. ASSUME NEW q \in DraftRequests PROVE work'[q].at # "frozen"
    <3>1. q # r => work'[q] = work[q] /\ work[q].at # "frozen"
      BY <2>2 DEF Publishes, Released
    <3>. QED BY <1>1, <3>1
  <2>4. draft' # "published"
    BY <2>1 DEF Drafts!Editable
  <2>. QED BY <2>1, <2>2, <2>3, <2>4 DEF Shown
<1>3. raced => raced'
  BY DEF Drafts!Overwritten
<1>4. DraftTypes
  BY DEF DraftInv
<1>. QED BY <1>1, <1>2, <1>3, <1>4 DEF Proceeds, DraftTypes

LEMMA DraftNext ==
  ASSUME Drafts!DraftSetting, DraftInv, [Drafts!Next]_(Drafts!capVars)
  PROVE  DraftInv'
<1>0. DraftTypes /\ \A r \in DraftRequests : Owes(r)
  BY DEF DraftInv, ReleaseInv
<1>1. ASSUME UNCHANGED <<bindings, frozen, format, work, raced>>,
             contract' \in [Contracts -> Drafts!InService \cup {"draft", "testing"}],
             built' \subseteq Implementations, draft' \in DraftStatuses,
             \A c \in Contracts : contract[c] \in Drafts!InService => contract'[c] \in Drafts!InService,
             draft' = "published" => draft = "published"
      PROVE  DraftInv'
  <2>1. /\ \A r \in DraftRequests : Released(r)' = Released(r) /\ Publishes(r)' = Publishes(r) /\ Owes(r)'
        /\ Shown' => Shown
    BY <1>0, <1>1 DEF Released, Publishes, Shown, Owes
  <2>2. DraftTypes'
    BY <1>0, <1>1 DEF DraftTypes
  <2>3. CASE ~raced
    <3>1. /\ \A r \in DraftRequests : Released(r)' /\ work'[r].format = 2 => Faithful(work[r].tools)'
          /\ Shown' /\ format' = 2 => Faithful(frozen)'
      BY <1>1, <2>1, <2>3, ReleaseKept
    <3>2. \A r \in DraftRequests : Publishes(r)' => work'[r].format = format'
      BY <1>1, <2>1, <2>3 DEF DraftInv, ReleaseInv
    <3>. QED BY <2>1, <2>2, <3>1, <3>2 DEF DraftInv, ReleaseInv
  <2>. QED BY <1>1, <2>1, <2>2, <2>3 DEF DraftInv, ReleaseInv
<1>2. CASE UNCHANGED Drafts!capVars
  BY <1>0, <1>1, <1>2 DEF Drafts!capVars, DraftTypes
<1>3. CASE Drafts!Register
  <2>1. ASSUME NEW c \in Contracts, Drafts!PublishCapabilityVersion(c) \/ Drafts!DeprecateCapabilityVersion(c)
        PROVE  DraftInv'
    BY <1>0, <1>1, <2>1 DEF Drafts!PublishCapabilityVersion, Drafts!DeprecateCapabilityVersion,
      Drafts!InService, DraftTypes
  <2>2. ASSUME NEW i \in Implementations, Drafts!CreateImplementation(i) PROVE DraftInv'
    BY <1>0, <1>1, <2>2 DEF Drafts!CreateImplementation, DraftTypes
  <2>3. CASE Drafts!CreateRevision \/ Drafts!TestRevision
    BY <1>0, <1>1, <2>3 DEF Drafts!CreateRevision, Drafts!TestRevision, Drafts!CheckConnector,
      DraftTypes
  <2>. QED BY <1>3, <2>1, <2>2, <2>3 DEF Drafts!Register
<1>4. ASSUME NEW from, NEW to \in DraftStatuses, to # "published", Drafts!Transition(from, to) PROVE DraftInv'
  BY <1>0, <1>1, <1>4 DEF Drafts!Transition, DraftTypes
(* The steps of a request.                                                 *)
<1>5. ASSUME NEW r \in DraftRequests, Proceeds(r) PROVE DraftInv'
  <2>1. ASSUME NEW q \in DraftRequests, q # r
        PROVE  Released(q)' = Released(q) /\ Publishes(q)' = Publishes(q) /\ Owes(q)'
    BY <1>0, <1>5, <2>1 DEF Released, Publishes, Owes, Proceeds
  <2>2. \A q \in DraftRequests : Owes(q)'
    BY <1>5, <2>1 DEF Proceeds
  <2>3. DraftTypes'
    BY <1>0, <1>5 DEF DraftTypes, Proceeds
  <2>4. CASE ~raced'
    <3>1. ASSUME NEW q \in DraftRequests, Released(q)', work'[q].format = 2
          PROVE  \/ Released(q) /\ work'[q].format = work[q].format /\ work'[q].tools = work[q].tools
                 \/ Drafts!Ready(2) /\ work'[q].tools = Drafts!Tools(2)
      BY <1>5, <2>1, <2>4, <3>1 DEF Proceeds
    <3>2. /\ \A q \in DraftRequests : Released(q)' /\ work'[q].format = 2 => Faithful(work[q].tools)'
          /\ Shown' /\ format' = 2 => Faithful(frozen)'
      <4>1. /\ bindings' = bindings /\ (raced => raced')
            /\ \A c \in Contracts : contract[c] \in Drafts!InService => contract'[c] \in Drafts!InService
            /\ Shown' /\ format' = 2 =>
                 \/ Shown /\ format = 2 /\ frozen' = frozen
                 \/ \E q \in DraftRequests : Released(q) /\ work[q].format = 2 /\ frozen' = work[q].tools
        BY <1>5, <2>4 DEF Proceeds
      <4>. QED BY <2>4, <3>1, <4>1, ReleaseKept
    <3>3. ASSUME NEW q \in DraftRequests, Publishes(q)' PROVE work'[q].format = format'
      <4>1. CASE q = r
        BY <1>5, <2>4, <3>3, <4>1 DEF Proceeds
      <4>2. CASE q # r
        <5>1. Publishes(q) /\ work'[q] = work[q] /\ format' = format
          BY <1>5, <2>1, <2>4, <3>3, <4>2 DEF Proceeds
        <5>2. ~raced
          BY <1>5, <2>4 DEF Proceeds
        <5>. QED BY <5>1, <5>2 DEF DraftInv, ReleaseInv
      <4>. QED BY <4>1, <4>2
    <3>. QED BY <2>2, <2>3, <3>2, <3>3 DEF DraftInv, ReleaseInv
  <2>. QED BY <2>2, <2>3, <2>4 DEF DraftInv, ReleaseInv
<1>6. ASSUME NEW r \in DraftRequests, NEW c \in Contracts, Drafts!BeginTest(r, c) PROVE DraftInv'
  <2>1. /\ work' = [work EXCEPT ![r].at = "testing", ![r].op = c]
        /\ UNCHANGED <<contract, built, instance, draft, bindings, frozen, format, raced>>
    BY <1>6 DEF Drafts!BeginTest
  <2>2. work' \in Works
    <3>1. work' = [work EXCEPT ![r] = [work[r] EXCEPT !.at = "testing", !.op = c]]
      BY <1>0, <2>1 DEF DraftTypes, Works, Work
    <3>2. [work[r] EXCEPT !.at = "testing", !.op = c] \in Work
      <4>1. work[r] \in Work /\ "testing" \in Places
        BY <1>0 DEF DraftTypes, Works, Places
      <4>. QED BY <4>1, Reworked DEF Asks
    <3>. QED BY <1>0, <3>1, <3>2 DEF DraftTypes, Works
  <2>3. work'[r].at = "testing" /\ \A q \in DraftRequests \ {r} : work'[q] = work[q]
    BY <1>0, <2>1 DEF DraftTypes, Works
  <2>4. KeepsDraft(r)
    BY <2>1, <2>2, <2>3 DEF KeepsDraft, Released, Publishes, Owes
  <2>. QED BY <1>5, <2>4, AsideProceeds
<1>7. ASSUME NEW r \in DraftRequests, NEW op \in Drafts!Ops, Drafts!FindLegacy(r, op) PROVE DraftInv'
  <2>1. /\ work' = [work EXCEPT ![r].at = "migrating", ![r].op = op]
        /\ UNCHANGED <<contract, built, instance, draft, bindings, frozen, format, raced>>
    BY <1>7 DEF Drafts!FindLegacy
  <2>2. work' \in Works
    <3>1. work' = [work EXCEPT ![r] = [work[r] EXCEPT !.at = "migrating", !.op = op]]
      BY <1>0, <2>1 DEF DraftTypes, Works, Work
    <3>2. [work[r] EXCEPT !.at = "migrating", !.op = op] \in Work
      <4>1. work[r] \in Work /\ "migrating" \in Places
        BY <1>0 DEF DraftTypes, Works, Places
      <4>. QED BY <4>1, Reworked DEF Asks
    <3>. QED BY <1>0, <3>1, <3>2 DEF DraftTypes, Works
  <2>3. work'[r].at = "migrating" /\ \A q \in DraftRequests \ {r} : work'[q] = work[q]
    BY <1>0, <2>1 DEF DraftTypes, Works
  <2>4. KeepsDraft(r)
    BY <2>1, <2>2, <2>3 DEF KeepsDraft, Released, Publishes, Owes
  <2>. QED BY <1>5, <2>4, AsideProceeds
<1>8. ASSUME NEW r \in DraftRequests, NEW op \in Drafts!Ops, Drafts!Load(r, op) PROVE DraftInv'
  <2>. DEFINE kept == IF op = "section" THEN frozen ELSE {}
  <2>1. /\ work' = [work EXCEPT ![r].at = "loaded", ![r].op = op, ![r].status = draft,
                                ![r].format = format, ![r].tools = kept]
        /\ UNCHANGED <<contract, built, instance, draft, bindings, frozen, format, raced>>
        /\ op \in {"direct", "database"} => draft = "development"
    BY <1>8 DEF Drafts!Load, Drafts!Allowed
  <2>2. kept \in SUBSET Chosen /\ draft \in DraftStatuses /\ format \in {1, 2}
    BY <1>0 DEF DraftTypes
  <2>. HIDE DEF kept
  <2>3. work' = [work EXCEPT ![r] = [work[r] EXCEPT !.at = "loaded", !.op = op, !.status = draft,
                                                   !.format = format, !.tools = kept]]
    BY <1>0, <2>1 DEF DraftTypes, Works, Work
  <2>4. [work[r] EXCEPT !.at = "loaded", !.op = op, !.status = draft, !.format = format, !.tools = kept]
          \in Work
    <3>1. work[r] \in Work /\ "loaded" \in Places /\ op \in Asks
      BY <1>0 DEF DraftTypes, Works, Places, Asks
    <3>. QED BY <2>2, <3>1, Reworked
  <2>5. work' \in Works
    BY <1>0, <2>3, <2>4 DEF DraftTypes, Works
  <2>6. /\ work'[r].at = "loaded" /\ work'[r].op = op /\ work'[r].status = draft
        /\ work'[r].format = format /\ \A q \in DraftRequests \ {r} : work'[q] = work[q]
    BY <1>0, <2>1 DEF DraftTypes, Works, Work
  <2>7. KeepsDraft(r)
    BY <2>1, <2>5, <2>6 DEF KeepsDraft, Released, Publishes, Owes
  <2>. QED BY <1>5, <2>7, AsideProceeds
<1>9. ASSUME NEW r \in DraftRequests, NEW offer \in Offers, Drafts!Examine(r, offer) PROVE DraftInv'
  <2>. DEFINE matching == Drafts!Replaced(work[r].op)
  <2>1. /\ work' = [work EXCEPT ![r].at = "examined", ![r].offer = offer, ![r].seen = matching]
        /\ UNCHANGED <<contract, built, instance, draft, bindings, frozen, format, raced>>
        /\ work[r].at = "loaded" /\ work[r].op \in {"direct", "database"}
    BY <1>9 DEF Drafts!Examine, Drafts!At
  <2>2. matching \in SUBSET Bindings /\ offer \in SUBSET Items
    BY <1>0 DEF Drafts!Replaced, Items, DraftTypes
  <2>. HIDE DEF matching
  <2>3. work' \in Works
    <3>1. work' = [work EXCEPT ![r] = [work[r] EXCEPT !.at = "examined", !.offer = offer, !.seen = matching]]
      BY <1>0, <2>1 DEF DraftTypes, Works, Work
    <3>2. [work[r] EXCEPT !.at = "examined", !.offer = offer, !.seen = matching] \in Work
      <4>1. work[r] \in Work /\ "examined" \in Places
        BY <1>0 DEF DraftTypes, Works, Places
      <4>. QED BY <2>2, <4>1, Reworked
    <3>. QED BY <1>0, <3>1, <3>2 DEF DraftTypes, Works
  <2>4. /\ work'[r].at = "examined" /\ work'[r].status = work[r].status
        /\ \A q \in DraftRequests \ {r} : work'[q] = work[q]
    BY <1>0, <2>1 DEF DraftTypes, Works
  <2>5. KeepsDraft(r)
    BY <1>0, <2>1, <2>3, <2>4 DEF KeepsDraft, Released, Publishes, Owes
  <2>. QED BY <1>5, <2>5, AsideProceeds
<1>10. ASSUME NEW r \in DraftRequests, Drafts!TestCapabilityVersion(r) PROVE DraftInv'
  <2>1. /\ contract' = [contract EXCEPT ![work[r].op] = "testing"]
        /\ raced' = (raced \/ contract[work[r].op] \in Drafts!InService)
        /\ Drafts!Finish(r)
        /\ UNCHANGED <<built, instance, draft, bindings, frozen, format>>
    BY <1>10 DEF Drafts!TestCapabilityVersion
  <2>2. work'[r].at = "done" /\ work' \in Works /\ \A q \in DraftRequests \ {r} : work'[q] = work[q]
    BY <1>0, <2>1, LastStep
  <2>3. ~raced' => \A c \in Contracts : contract[c] \in Drafts!InService => contract'[c] \in Drafts!InService
    BY <1>0, <2>1 DEF DraftTypes
  <2>4. contract' \in [Contracts -> Drafts!InService \cup {"draft", "testing"}]
    BY <1>0, <2>1 DEF DraftTypes
  <2>5. ~Released(r)' /\ ~Publishes(r)' /\ Owes(r)' /\ (Shown' => Shown)
    BY <2>1, <2>2 DEF Released, Publishes, Owes, Shown
  <2>6. Proceeds(r)
    BY <1>0, <2>1, <2>2, <2>3, <2>4, <2>5 DEF Proceeds, DraftTypes
  <2>. QED BY <1>5, <2>6
<1>11. ASSUME NEW r \in DraftRequests, Drafts!Migrate(r) PROVE DraftInv'
  <2>1. /\ format' = 2 /\ frozen' = {} /\ Drafts!Overwritten /\ Drafts!Step(r, "migrated")
        /\ UNCHANGED <<contract, built, instance, draft, bindings>>
    BY <1>11 DEF Drafts!Migrate
  <2>2. /\ work' \in Works /\ work'[r].at = "migrated"
        /\ \A q \in DraftRequests \ {r} : work'[q] = work[q]
    BY <1>0, <2>1, OneStep DEF Places
  <2>. QED BY <1>5, <2>1, <2>2, ReplacedProceeds
<1>12. ASSUME NEW r \in DraftRequests, NEW n \in {1, 2}, Drafts!UpdateAgentVersion(r, n)
       PROVE  DraftInv'
  <2>1. /\ format' = n /\ frozen' \in {{}, frozen} /\ Drafts!Overwritten /\ Drafts!Finish(r)
        /\ UNCHANGED <<contract, built, instance, draft, bindings>>
    BY <1>12 DEF Drafts!UpdateAgentVersion
  <2>2. /\ work' \in Works /\ work'[r].at = "done"
        /\ \A q \in DraftRequests \ {r} : work'[q] = work[q]
    BY <1>0, <2>1, LastStep
  <2>3. frozen' \subseteq Chosen
    BY <1>0, <2>1 DEF DraftTypes
  <2>. QED BY <1>5, <2>1, <2>2, <2>3, ReplacedProceeds
<1>13. ASSUME NEW r \in DraftRequests, Drafts!UpdateAgentEditorSection(r) PROVE DraftInv'
  <2>1. /\ format' = 2 /\ frozen' = work[r].tools /\ Drafts!Overwritten /\ Drafts!Finish(r)
        /\ UNCHANGED <<contract, built, instance, draft, bindings>>
    BY <1>13 DEF Drafts!UpdateAgentEditorSection
  <2>2. /\ work' \in Works /\ work'[r].at = "done"
        /\ \A q \in DraftRequests \ {r} : work'[q] = work[q]
    BY <1>0, <2>1, LastStep
  <2>3. frozen' \subseteq Chosen
    BY <1>0, <2>1 DEF DraftTypes, Works, Work
  <2>. QED BY <1>5, <2>1, <2>2, <2>3, ReplacedProceeds
<1>14. ASSUME NEW r \in DraftRequests, Drafts!ConsoleTest(r) PROVE DraftInv'
  <2>1. /\ draft' = IF work[r].status = "development" THEN "testing" ELSE draft
        /\ Drafts!Finish(r)
        /\ UNCHANGED <<contract, built, instance, bindings, frozen, format, raced>>
    BY <1>14 DEF Drafts!ConsoleTest
  <2>2. work'[r].at = "done" /\ work' \in Works /\ \A q \in DraftRequests \ {r} : work'[q] = work[q]
    BY <1>0, <2>1, LastStep
  <2>3. ~Released(r)' /\ ~Publishes(r)' /\ Owes(r)' /\ (Shown' => Shown)
    BY <2>1, <2>2 DEF Released, Publishes, Owes, Shown
  <2>4. draft' \in DraftStatuses
    BY <1>0, <2>1 DEF DraftTypes, DraftStatuses, Drafts!Editable
  <2>5. Proceeds(r)
    BY <1>0, <2>1, <2>2, <2>3, <2>4 DEF Proceeds, DraftTypes
  <2>. QED BY <1>5, <2>5
<1>15. ASSUME NEW r \in DraftRequests, Drafts!Resolve(r) PROVE DraftInv'
  <2>. DEFINE matching == Drafts!Tools(work[r].format)
  <2>1. /\ work' = [work EXCEPT ![r].at = "resolved", ![r].tools = matching]
        /\ UNCHANGED <<contract, built, instance, draft, bindings, frozen, format, raced>>
        /\ Drafts!Ready(work[r].format) /\ work[r].format \in {1, 2}
        /\ work[r].at = "loaded" /\ work[r].op \in {"console", "api"}
    BY <1>0, <1>15 DEF Drafts!Resolve, Drafts!At, DraftTypes, Works, Work
  <2>2. matching \in SUBSET Chosen
    BY <1>0, <2>1, ResolvedIsFaithful
  <2>3. work[r].format = 2 => Drafts!Ready(2) /\ matching = Drafts!Tools(2)
    BY <2>1
  <2>. HIDE DEF matching
  <2>4. work' \in Works
    <3>1. work' = [work EXCEPT ![r] = [work[r] EXCEPT !.at = "resolved", !.tools = matching]]
      BY <1>0, <2>1 DEF DraftTypes, Works, Work
    <3>2. [work[r] EXCEPT !.at = "resolved", !.tools = matching] \in Work
      <4>1. work[r] \in Work /\ "resolved" \in Places
        BY <1>0 DEF DraftTypes, Works, Places
      <4>. QED BY <2>2, <4>1, Reworked
    <3>. QED BY <1>0, <3>1, <3>2 DEF DraftTypes, Works
  <2>5. /\ work'[r].at = "resolved" /\ work'[r].tools = matching /\ work'[r].format = work[r].format
        /\ work'[r].op = work[r].op /\ \A q \in DraftRequests \ {r} : work'[q] = work[q]
    BY <1>0, <2>1 DEF DraftTypes, Works, Work
  <2>6. (Shown' => Shown) /\ Owes(r)'
    BY <2>1, <2>5 DEF Shown, Owes
  <2>7. ~raced => work'[r].format = format
    BY <2>1, <2>5 DEF DraftInv, ReleaseInv, Publishes
  <2>8. Proceeds(r)
    BY <1>0, <2>1, <2>3, <2>4, <2>5, <2>6, <2>7 DEF Proceeds, DraftTypes
  <2>. QED BY <1>5, <2>8
<1>16. ASSUME NEW r \in DraftRequests, Drafts!Freeze(r) PROVE DraftInv'
  <2>1. /\ work[r].at = "resolved"
        /\ draft' = IF work[r].status \in {"development", "testing"} THEN "release_candidate" ELSE draft
        /\ frozen' = work[r].tools /\ format' = work[r].format
        /\ Drafts!Step(r, "frozen")
        /\ UNCHANGED <<contract, built, instance, bindings, raced>>
    BY <1>16 DEF Drafts!Freeze, Drafts!At
  <2>2. /\ work'[r].at = "frozen" /\ work'[r].tools = work[r].tools /\ work'[r].format = work[r].format
        /\ work' \in Works /\ \A q \in DraftRequests \ {r} : work'[q] = work[q]
    BY <1>0, <2>1, OneStep DEF Places
  <2>3. /\ draft' \in DraftStatuses /\ frozen' \subseteq Chosen /\ format' \in {1, 2}
        /\ Released(r) /\ Owes(r)'
    BY <1>0, <2>1, <2>2 DEF DraftTypes, Works, Work, DraftStatuses, Drafts!Editable, Released, Owes
  <2>4. ~raced => format' = format
    <3>1. Publishes(r)
      BY <2>3 DEF Publishes
    <3>. QED BY <2>1, <3>1 DEF DraftInv, ReleaseInv
  <2>5. Proceeds(r)
    BY <1>0, <2>1, <2>2, <2>3, <2>4 DEF Proceeds, DraftTypes
  <2>. QED BY <1>5, <2>5
<1>17. ASSUME NEW r \in DraftRequests, Drafts!Publish(r) PROVE DraftInv'
  <2>1. /\ draft' = "published" /\ Drafts!Finish(r) /\ Released(r)
        /\ UNCHANGED <<contract, built, instance, bindings, raced>>
        /\ \/ frozen' = work[r].tools /\ format' = 2 /\ work[r].format = 2
           \/ UNCHANGED <<frozen, format>> /\ work[r].at = "frozen"
           \/ UNCHANGED <<frozen, format>> /\ work[r].format = 1
    <3>1. CASE work[r].op = "console"
      BY <1>17, <3>1 DEF Drafts!Publish, Drafts!At, Released
    <3>2. CASE work[r].op # "console"
      <4>1. work[r].at = "resolved" /\ work[r].op = "api" /\ work[r].format \in {1, 2}
        BY <1>0, <1>17, <3>2 DEF Drafts!Publish, Drafts!At, Owes, DraftTypes, Works, Work
      <4>. QED BY <1>17, <4>1 DEF Drafts!Publish, Released
    <3>. QED BY <3>1, <3>2
  <2>2. work'[r].at = "done" /\ work' \in Works /\ \A q \in DraftRequests \ {r} : work'[q] = work[q]
    BY <1>0, <2>1, LastStep
  <2>3. /\ draft' \in DraftStatuses /\ frozen' \subseteq Chosen /\ format' \in {1, 2}
        /\ ~Released(r)' /\ ~Publishes(r)' /\ Owes(r)'
    BY <1>0, <2>1, <2>2 DEF DraftTypes, Works, Work, DraftStatuses, Released, Publishes, Owes
  <2>4. ~raced => work[r].format = format
    <3>1. Publishes(r)
      BY <2>1 DEF Publishes
    <3>. QED BY <3>1 DEF DraftInv, ReleaseInv
  <2>5. ~raced' /\ Shown' /\ format' = 2 =>
          \/ Shown /\ format = 2 /\ frozen' = frozen
          \/ Released(r) /\ work[r].format = 2 /\ frozen' = work[r].tools
    BY <2>1, <2>4 DEF Shown
  <2>6. ~raced' => format' = format
    BY <2>1, <2>4
  <2>7. Proceeds(r)
    BY <1>0, <2>1, <2>2, <2>3, <2>5, <2>6 DEF Proceeds, DraftTypes
  <2>. QED BY <1>5, <2>7
<1>18. ASSUME NEW r \in DraftRequests, Drafts!Abandon(r) PROVE DraftInv'
  <2>1. /\ work' = [work EXCEPT ![r] = Drafts!Idle]
        /\ UNCHANGED <<contract, built, instance, draft, bindings, frozen, format, raced>>
    BY <1>18 DEF Drafts!Abandon
  <2>2. Drafts!Idle.at = "new" /\ Drafts!Idle \in Work
    BY DEF Drafts!Idle, Places, Asks, Work
  <2>3. work'[r].at = "new" /\ work' \in Works /\ \A q \in DraftRequests \ {r} : work'[q] = work[q]
    BY <1>0, <2>1, <2>2 DEF DraftTypes, Works
  <2>4. KeepsDraft(r)
    BY <2>1, <2>3 DEF KeepsDraft, Released, Publishes, Owes
  <2>. QED BY <1>5, <2>4, AsideProceeds
(* Bindings only change when nothing is released or published.             *)
<1>19. ASSUME NEW r \in DraftRequests, Drafts!UpdateBindings(r) PROVE DraftInv'
  <2>1. /\ work[r].at = "examined"
        /\ bindings' = (bindings \ work[r].seen) \cup {Drafts!Binding(i, r) : i \in work[r].offer}
        /\ raced' = (raced \/ Drafts!Releasing \/ (work[r].status = "development" /\ draft # "development"))
        /\ Drafts!Finish(r)
        /\ UNCHANGED <<contract, built, instance, draft, frozen, format>>
    BY <1>19 DEF Drafts!UpdateBindings, Drafts!At
  <2>2. work'[r].at = "done" /\ work' \in Works /\ \A q \in DraftRequests \ {r} : work'[q] = work[q]
    BY <1>0, <2>1, LastStep
  <2>3. work[r].offer \subseteq Items
    BY <1>0 DEF DraftTypes, Works, Work
  <2>4. bindings' \subseteq Bindings
    BY <1>0, <2>1, <2>3 DEF Bindings, DraftTypes
  <2>5. ASSUME ~raced'
        PROVE  ~Shown' /\ ~raced /\ \A q \in DraftRequests : ~Released(q)' /\ (Publishes(q)' => Publishes(q))
    <3>1. work[r].status = "development"
      BY <1>0, <2>1 DEF Owes
    <3>2. draft = "development" /\ ~Drafts!Releasing /\ ~raced
      BY <2>1, <2>5, <3>1
    <3>. QED BY <2>1, <2>2, <3>2 DEF Drafts!Releasing, Released, Publishes, Shown
  <2>6. \A q \in DraftRequests : Owes(q)'
    BY <1>0, <2>2 DEF Owes
  <2>7. ASSUME ~raced', NEW q \in DraftRequests, Publishes(q)' PROVE work'[q].format = format'
    <3>1. Publishes(q) /\ q # r /\ ~raced
      BY <2>2, <2>5, <2>7 DEF Publishes, Released
    <3>. QED BY <2>1, <2>2, <3>1 DEF DraftInv, ReleaseInv
  <2>8. DraftTypes'
    BY <1>0, <2>1, <2>2, <2>4 DEF DraftTypes
  <2>. QED BY <2>5, <2>6, <2>7, <2>8 DEF DraftInv, ReleaseInv
<1>20. {"development", "testing", "release_candidate"} \subseteq DraftStatuses
  BY DEF DraftStatuses, Drafts!Editable
<1>. QED
  BY <1>2, <1>3, <1>4, <1>6, <1>7, <1>8, <1>9, <1>10, <1>11, <1>12, <1>13, <1>14, <1>15, <1>16,
     <1>17, <1>18, <1>19, <1>20
  DEF Drafts!Next

(* A version published in format 2 is bound to what its snapshot says: the *)
(* same aliases, the pinned implementations, contracts in service and what *)
(* its skill needs, unless bindings or snapshot were replaced while it was *)
(* released or a contract was tested while it was published                *)
(* (api/capabilities.py, capabilities/resolver.py, api/console.py,         *)
(* api/production.py).                                                     *)
THEOREM ReleasesAreSound == Drafts!Spec => []ReleaseSound
<1>0. Drafts!DraftSetting
  BY DraftsAssumption
<1>1. DraftInv => ReleaseSound
  BY DEF DraftInv, ReleaseInv, Shown, Faithful, Drafts!ReleaseSound, ReleaseSound
<1>. QED BY <1>0, <1>1, DraftInit, DraftNext, PTL DEF Drafts!Spec
===============================================================================

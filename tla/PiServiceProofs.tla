-------------------------- MODULE PiServiceProofs --------------------------
(***************************************************************************)
(* Proofs about PiService, for any requests, executions and stops.         *)
(***************************************************************************)
EXTENDS PiService, FiniteSetTheorems, SequenceTheorems, TLAPS

Distinct(list) ==
  \A i, j \in 1..Len(list) : list[i] = list[j] => i = j

Waiting == {r \in Requests : station[r] = "queued"}
Working == {r \in Requests : station[r] \in Inside}

(* The queue of the gate holds those who wait, once.                       *)
Line ==
  /\ Distinct(line)
  /\ \A r \in Requests : In(r, line) <=> station[r] = "queued"
  /\ Len(line) = Cardinality(Waiting)

Room ==
  /\ inUse = Cardinality(Working) /\ inUse <= Limit
  /\ line # <<>> => inUse = Limit

(* What is recorded for an execution is the run that waits or works, or    *)
(* the one that did.                                                       *)
Records ==
  /\ \A e \in Executions :
       /\ record[e] # None => ExecutionId(record[e]) = e /\ station[record[e]] # "new"
       /\ \A x \in ran[e] : record[e] = x /\ station[x] \in Inside \cup {"done"}
  /\ \A r \in Requests : station[r] \in {"queued"} \cup Inside => record[ExecutionId(r)] = r

(* A stop is remembered for an execution without record, and a record is   *)
(* only marked for a stop or for a client that left.                       *)
Stops ==
  /\ Distinct(pending)
  /\ \A e \in Executions :
       /\ In(e, pending) => record[e] = None /\ e \in asked
       /\ record[e] # None /\ status[e] \in {"cancelling", "cancelled"} =>
            e \in asked \/ record[e] \in gone

(* What a request that is not over yet is going to be answered has a cause.*)
Causes ==
  \A r \in Requests :
    /\ station[r] \in {"new", "queued"} => r \notin aborted
    /\ r \in aborted /\ station[r] \in Inside => ExecutionId(r) \in asked \/ r \in gone
    /\ halted[r] # "no" => r \in aborted
    /\ station[r] \in {"new", "queued", "loading", "prompting"} => verdict[r] = "none"
    /\ station[r] = "closing" =>
         /\ verdict[r] \in {"completed", "cancelled", "failed"}
         /\ verdict[r] = "completed" => halted[r] \notin {"queued", "loading", "prompting"}
         /\ verdict[r] = "cancelled" => r \in aborted \cup gone

Inv == TypeOK /\ Line /\ Room /\ Records /\ Stops /\ Causes

(* What StopExact says of a step.                                          *)
Caused ==
  \A r \in Requests :
    station[r] # "done" /\ station'[r] = "done" =>
      /\ verdict'[r] = "completed" => halted'[r] \notin {"queued", "loading", "prompting"}
      /\ verdict'[r] = "cancelled" =>
           \/ ExecutionId(r) \in asked
           \/ halted'[r] # "no"
           \/ r \in gone
           \/ \E q \in gone : record[ExecutionId(r)] = q

-----------------------------------------------------------------------------
(* Lists.                                                                  *)

(* Drop takes out one element.                                             *)
LEMMA DropSeq ==
  ASSUME NEW S, NEW list \in Seq(S), NEW x
  PROVE  /\ Drop(list, x) \in Seq(S)
         /\ Len(Drop(list, x)) = IF In(x, list) THEN Len(list) - 1 ELSE Len(list)
<1>1. Len(list) \in Nat /\ \A i \in 1..Len(list) : list[i] \in S
  BY LenProperties, ElementOfSeq
<1>2. CASE In(x, list)
  <2> DEFINE k == CHOOSE i \in 1..Len(list) : list[i] = x
             f == [i \in 1..(Len(list) - 1) |-> IF i < k THEN list[i] ELSE list[i + 1]]
  <2>1. Drop(list, x) = f
    BY <1>2 DEF Drop
  <2>2. k \in 1..Len(list)
    BY <1>2 DEF In
  <2>3. Len(list) - 1 \in Nat
    BY <1>1, <2>2
  <2>4. \A i \in 1..(Len(list) - 1) : f[i] \in S
    BY <1>1, <2>2, <2>3
  <2>5. f \in Seq(S)
    BY <2>3, <2>4, IsASeq
  <2>6. Len(f) = Len(list) - 1
    BY <2>3, <2>5, LenProperties
  <2> QED BY <1>2, <2>1, <2>5, <2>6
<1>3. CASE ~In(x, list)
  BY <1>3 DEF Drop
<1> QED BY <1>2, <1>3

(* It stays as short as the list was.                                      *)
LEMMA DropShort ==
  ASSUME NEW S, NEW list \in Seq(S), NEW x, NEW m \in Nat, Len(list) <= m
  PROVE  Drop(list, x) \in Seq(S) /\ Len(Drop(list, x)) <= m
BY DropSeq, LenProperties

(* From a list without repetition nothing else is gone.                    *)
LEMMA DropDistinct ==
  ASSUME NEW S, NEW list \in Seq(S), Distinct(list), NEW x
  PROVE  /\ Distinct(Drop(list, x))
         /\ \A y : In(y, Drop(list, x)) <=> In(y, list) /\ y # x
<1>1. Len(list) \in Nat
  BY LenProperties
<1>2. CASE In(x, list)
  <2> DEFINE k == CHOOSE i \in 1..Len(list) : list[i] = x
             f == [i \in 1..(Len(list) - 1) |-> IF i < k THEN list[i] ELSE list[i + 1]]
  <2>1. Drop(list, x) = f
    BY <1>2 DEF Drop
  <2>2. k \in 1..Len(list) /\ list[k] = x
    BY <1>2 DEF In
  <2>3. Len(f) = Len(list) - 1 /\ Len(list) - 1 \in Nat
    BY <1>1, <1>2, <2>1, <2>2, DropSeq
  <2> HIDE DEF k
  <2>4. \A i \in 1..(Len(list) - 1) : f[i] = IF i < k THEN list[i] ELSE list[i + 1]
    OBVIOUS
  <2> HIDE DEF f
  <2>5. Distinct(f)
    <3> SUFFICES ASSUME NEW i \in 1..(Len(list) - 1), NEW j \in 1..(Len(list) - 1), f[i] = f[j]
                 PROVE  i = j
      BY <2>3 DEF Distinct
    <3> QED BY <1>1, <2>2, <2>4 DEF Distinct
  <2>6. ASSUME NEW y, In(y, f) PROVE In(y, list) /\ y # x
    <3>1. PICK i \in 1..(Len(list) - 1) : f[i] = y
      BY <2>3, <2>6 DEF In
    <3>2. CASE i < k
      BY <1>1, <2>2, <2>4, <3>1, <3>2 DEF Distinct, In
    <3>3. CASE ~(i < k)
      <4>1. y = list[i + 1] /\ i + 1 \in 1..Len(list) /\ i + 1 # k
        BY <1>1, <2>2, <2>4, <3>1, <3>3
      <4> QED BY <2>2, <4>1 DEF Distinct, In
    <3> QED BY <3>2, <3>3
  <2>7. ASSUME NEW y, In(y, list), y # x PROVE In(y, f)
    <3>1. PICK i \in 1..Len(list) : list[i] = y
      BY <2>7 DEF In
    <3>2. CASE i < k
      <4>1. i \in 1..(Len(list) - 1) /\ f[i] = y
        BY <1>1, <2>2, <2>4, <3>1, <3>2
      <4> QED BY <2>3, <4>1 DEF In
    <3>3. CASE ~(i < k)
      <4>1. i - 1 \in 1..(Len(list) - 1) /\ ~(i - 1 < k) /\ (i - 1) + 1 = i
        BY <1>1, <2>2, <2>7, <3>1, <3>3
      <4>2. f[i - 1] = y
        BY <2>4, <3>1, <4>1
      <4> QED BY <2>3, <4>1, <4>2 DEF In
    <3> QED BY <3>2, <3>3
  <2> QED BY <2>1, <2>5, <2>6, <2>7
<1>3. CASE ~In(x, list)
  BY <1>3 DEF Drop
<1> QED BY <1>2, <1>3

(* A new element at the end.                                               *)
LEMMA AppendNew ==
  ASSUME NEW S, NEW list \in Seq(S), Distinct(list), NEW x \in S, ~In(x, list)
  PROVE  /\ Append(list, x) \in Seq(S) /\ Distinct(Append(list, x))
         /\ Len(Append(list, x)) = Len(list) + 1
         /\ \A y : In(y, Append(list, x)) <=> In(y, list) \/ y = x
<1>1. /\ Append(list, x) \in Seq(S) /\ Len(Append(list, x)) = Len(list) + 1
      /\ \A i \in 1..Len(list) : Append(list, x)[i] = list[i]
      /\ Append(list, x)[Len(list) + 1] = x /\ Len(list) \in Nat
  BY AppendProperties, LenProperties
<1>2. Distinct(Append(list, x))
  BY <1>1 DEF Distinct, In
<1>3. \A y : In(y, Append(list, x)) <=> In(y, list) \/ y = x
  BY <1>1 DEF In
<1> QED BY <1>1, <1>2, <1>3

(* The first element leaves.                                               *)
LEMMA TailRest ==
  ASSUME NEW S, NEW list \in Seq(S), Distinct(list), list # <<>>
  PROVE  /\ Head(list) \in S /\ In(Head(list), list)
         /\ Tail(list) \in Seq(S) /\ Distinct(Tail(list))
         /\ Len(Tail(list)) = Len(list) - 1 /\ Len(list) - 1 \in Nat
         /\ \A y : In(y, Tail(list)) <=> In(y, list) /\ y # Head(list)
<1>1. /\ Len(list) \in Nat /\ Len(list) # 0
      /\ Head(list) = list[1] /\ Head(list) \in S
      /\ Tail(list) \in Seq(S) /\ Len(Tail(list)) = Len(list) - 1
      /\ \A i \in 1..Len(Tail(list)) : Tail(list)[i] = list[i + 1]
  BY HeadTailProperties, LenProperties, EmptySeq
<1>2. In(Head(list), list)
  BY <1>1 DEF In
<1>3. Distinct(Tail(list))
  BY <1>1 DEF Distinct
<1>4. ASSUME NEW y, In(y, Tail(list)) PROVE In(y, list) /\ y # Head(list)
  <2>1. PICK i \in 1..Len(Tail(list)) : Tail(list)[i] = y
    BY <1>4 DEF In
  <2>2. i + 1 \in 1..Len(list) /\ list[i + 1] = y /\ i + 1 # 1 /\ 1 \in 1..Len(list)
    BY <1>1, <2>1
  <2> QED BY <1>1, <2>2 DEF In, Distinct
<1>5. ASSUME NEW y, In(y, list), y # Head(list) PROVE In(y, Tail(list))
  <2>1. PICK i \in 1..Len(list) : list[i] = y
    BY <1>5 DEF In
  <2>2. i - 1 \in 1..Len(Tail(list)) /\ (i - 1) + 1 = i
    BY <1>1, <1>5, <2>1
  <2>3. Tail(list)[i - 1] = y
    BY <1>1, <2>1, <2>2
  <2> QED BY <2>2, <2>3 DEF In
<1> QED BY <1>1, <1>2, <1>3, <1>4, <1>5

-----------------------------------------------------------------------------
(* The gate.                                                               *)

(* One request more or less changes a count by one.                        *)
LEMMA Counts ==
  ASSUME NEW A, A \subseteq Requests
  PROVE  /\ Cardinality(A) \in Nat
         /\ \A x \in A : Cardinality(A \ {x}) = Cardinality(A) - 1
         /\ \A x : x \notin A => Cardinality(A \cup {x}) = Cardinality(A) + 1
<1>1. IsFiniteSet(A)
  BY PiAssumption, FS_Subset
<1> QED BY <1>1, FS_CardinalityType, FS_RemoveElement, FS_AddElement

(* Requests that neither wait nor work may come and go.                    *)
LEMMA Unmoved ==
  ASSUME Line, Room, Waiting' = Waiting, Working' = Working, UNCHANGED gateVars
  PROVE  Line' /\ Room'
<1>1. \A r \in Requests : station'[r] = "queued" <=> station[r] = "queued"
  BY DEF Waiting
<1> QED BY <1>1 DEF Line, Room, gateVars, Distinct, In

(* One who waits gives up.                                                 *)
LEMMA LeavesLine ==
  ASSUME TypeOK, Line, Room, NEW r \in Requests, station[r] = "queued",
         station' = [station EXCEPT ![r] = "done"], line' = Drop(line, r), UNCHANGED inUse
  PROVE  Line' /\ Room' /\ line' \in Seq(Requests)
<1>1. line \in Seq(Requests) /\ Distinct(line) /\ In(r, line)
  BY DEF TypeOK, Line
<1>2. /\ line' \in Seq(Requests) /\ Distinct(line')
      /\ Len(line') = Len(line) - 1 /\ Len(line) \in Nat
      /\ \A y : In(y, line') <=> In(y, line) /\ y # r
  BY <1>1, DropSeq, DropDistinct, LenProperties
<1>3. Waiting' = Waiting \ {r} /\ r \in Waiting /\ Working' = Working
  BY DEF TypeOK, Waiting, Working, Inside
<1>4. Cardinality(Waiting') = Cardinality(Waiting) - 1
  BY <1>3, Counts DEF Waiting
<1>5. \A q \in Requests : In(q, line)' <=> station'[q] = "queued"
  <2>1. \A q \in Requests : In(q, line') <=> station'[q] = "queued"
    BY <1>2 DEF TypeOK, Line
  <2> QED BY <2>1 DEF In
<1>6. Line'
  BY <1>2, <1>4, <1>5 DEF Line, Distinct
<1>7. Room'
  <2>1. line # <<>>
    BY <1>1, EmptySeq DEF In
  <2> QED BY <1>3, <2>1 DEF Room
<1> QED BY <1>2, <1>6, <1>7

-----------------------------------------------------------------------------
(* Nothing is under way at first.                                          *)
LEMMA InvInitially == Init => Inv
<1> SUFFICES ASSUME Init PROVE Inv
  OBVIOUS
<1>1. Waiting = {} /\ Working = {}
  BY DEF Init, Waiting, Working, Inside
<1>2. Cardinality({}) = 0
  BY FS_EmptySet
<1>3. \A x : ~In(x, <<>>)
  BY DEF In
<1>4. Len(<<>>) = 0 /\ <<>> \in Seq(Requests) /\ <<>> \in Seq(Executions) /\ <<>> \in Seq(Sessions)
  BY EmptySeq
<1>5. TypeOK
  BY <1>4, PiAssumption DEF Init, TypeOK, Inside
<1>6. Line /\ Room
  BY <1>1, <1>2, <1>3, <1>4, PiAssumption DEF Init, Line, Room, Distinct
<1>7. Records /\ Stops /\ Causes
  BY <1>3, <1>4, PiAssumption DEF Init, Records, Stops, Causes, Distinct, Inside, ExecutionId
<1> QED BY <1>5, <1>6, <1>7 DEF Inv

(* A session comes or is used.                                             *)
LEMMA SessionStep ==
  ASSUME TypeOK, NEW s \in Sessions, OpenSession(s)
  PROVE  table' \in Seq(Sessions) /\ Len(table') <= MaxSessions
<1>1. PICK n \in 0..Len(table) :
        LET room == Len(table) - MaxSessions + 1
            cut  == IF n > room THEN n ELSE room
        IN table' = Append(SubSeq(table, cut + 1, Len(table)), s)
  BY DEF OpenSession
<1> DEFINE room == Len(table) - MaxSessions + 1
           cut  == IF n > room THEN n ELSE room
<1>2. Len(table) \in Nat /\ Len(table) <= MaxSessions /\ MaxSessions \in Nat \ {0}
  BY LenProperties, PiAssumption DEF TypeOK
<1>3. cut \in 0..Len(table) /\ room <= cut
  BY <1>2
<1> HIDE DEF cut
<1>4. /\ SubSeq(table, cut + 1, Len(table)) \in Seq(Sessions)
      /\ Len(SubSeq(table, cut + 1, Len(table))) = Len(table) - cut
  <2>1. CASE cut < Len(table)
    BY <1>2, <1>3, <2>1, SubSeqProperties DEF TypeOK
  <2>2. CASE cut = Len(table)
    <3>1. SubSeq(table, cut + 1, Len(table)) = <<>>
      BY <1>2, <2>2, SubSeqEmpty
    <3> QED BY <1>2, <2>2, <3>1, EmptySeq
  <2> QED BY <1>2, <1>3, <2>1, <2>2
<1>5. table' = Append(SubSeq(table, cut + 1, Len(table)), s)
  BY <1>1 DEF cut
<1> QED BY <1>2, <1>3, <1>4, <1>5, AppendProperties

(* The same for a request in a session.                                    *)
LEMMA TouchStep ==
  ASSUME TypeOK, NEW r \in Requests, Touch(r)
  PROVE  table' \in Seq(Sessions) /\ Len(table') <= MaxSessions
<1>1. CASE SessionOf(r) = None
  BY <1>1 DEF Touch, TypeOK
<1>2. CASE SessionOf(r) # None
  <2>1. SessionOf(r) \in Sessions /\ In(SessionOf(r), table)
    BY <1>2, PiAssumption DEF Touch, SessionOf
  <2>2. /\ Drop(table, SessionOf(r)) \in Seq(Sessions)
        /\ Len(Drop(table, SessionOf(r))) = Len(table) - 1 /\ Len(table) \in Nat
    BY <2>1, DropSeq, LenProperties DEF TypeOK
  <2>3. table' = Append(Drop(table, SessionOf(r)), SessionOf(r))
    BY <1>2 DEF Touch
  <2> QED BY <2>1, <2>2, <2>3, AppendProperties DEF TypeOK
<1> QED BY <1>1, <1>2

(* Requests are of an execution.                                           *)
LEMMA Asks ==
  ASSUME NEW r \in Requests
  PROVE  ExecutionId(r) \in Executions /\ r # None
BY PiAssumption DEF ExecutionId

-----------------------------------------------------------------------------
(* Admission.                                                              *)

(* A request that is answered at once.                                     *)
LEMMA AnswerStep ==
  ASSUME Inv, NEW r \in Requests, NoSession(r) \/ Repeat(r) \/ StoppedBefore(r)
  PROVE  Inv' /\ Caused
<1> DEFINE e == ExecutionId(r)
<1> USE DEF NoSession, Repeat, StoppedBefore, Say, Reach, UseUp
<1>1. /\ station[r] = "new" /\ station' = [station EXCEPT ![r] = "done"]
      /\ verdict' \in [Requests -> {"none", "completed", "cancelled", "failed", "refused", "timeout"}]
      /\ verdict'[r] # "completed" /\ \A q \in Requests \ {r} : verdict'[q] = verdict[q]
      /\ UNCHANGED <<record, status, gateVars, halted, gone, ran, calls>>
  <2>1. PICK v \in {"cancelled", "refused"} : verdict' = [verdict EXCEPT ![r] = v]
    OBVIOUS
  <2> QED BY <2>1 DEF Inv, TypeOK, stopVars, gateVars
<1>2. table' \in Seq(Sessions) /\ Len(table') <= MaxSessions
  <2>1. CASE NoSession(r)
    BY <2>1, DropShort, PiAssumption DEF Inv, TypeOK
  <2>2. CASE Repeat(r) \/ StoppedBefore(r)
    BY <2>2, TouchStep DEF Inv
  <2> QED BY <2>1, <2>2
<1>3. Waiting' = Waiting /\ Working' = Working
  BY <1>1 DEF Inv, TypeOK, Waiting, Working, Inside
<1>4. Line' /\ Room'
  BY <1>1, <1>3, Unmoved DEF Inv
<1>5. Records'
  BY <1>1 DEF Inv, TypeOK, Records, Inside, ExecutionId
<1>6. CASE NoSession(r) \/ Repeat(r)
  <2>1. UNCHANGED <<aborted, pending, asked>>
    BY <1>6 DEF stopVars
  <2>2. TypeOK'
    BY <1>1, <1>2, <2>1 DEF Inv, TypeOK, gateVars
  <2>3. Stops'
    BY <1>1, <2>1 DEF Inv, Stops, Distinct, In
  <2>4. Causes'
    BY <1>1, <2>1 DEF Inv, TypeOK, Causes, Inside, ExecutionId
  <2>5. Caused
    <3>1. verdict'[r] = "cancelled" => e \in asked \/ record[e] \in gone
      BY <1>6, Asks DEF Inv, TypeOK, Stops
    <3> QED BY <1>1, <3>1 DEF Inv, TypeOK, Caused
  <2> QED BY <1>4, <1>5, <2>2, <2>3, <2>4, <2>5 DEF Inv
<1>7. CASE StoppedBefore(r)
  <2>1. /\ record[e] = None /\ In(e, pending) /\ e \in Executions
        /\ pending' = Drop(pending, e) /\ asked' = asked \ {e} /\ aborted' = aborted \cup {r}
    BY <1>7, Asks
  <2>2. /\ pending' \in Seq(Executions) /\ Len(pending') <= MaxSessions /\ Distinct(pending')
        /\ \A y : In(y, pending') <=> In(y, pending) /\ y # e
    BY <2>1, DropShort, DropDistinct, PiAssumption DEF Inv, TypeOK, Stops
  <2>3. TypeOK'
    BY <1>1, <1>2, <2>1, <2>2 DEF Inv, TypeOK, gateVars
  <2>4. Stops'
    <3>1. \A d \in Executions : In(d, pending)' => In(d, pending) /\ d # e
      BY <2>2 DEF In
    <3> QED BY <1>1, <2>1, <2>2, <3>1 DEF Inv, Stops, Distinct
  <2>5. Causes'
    <3>1. \A q \in Requests : station[q] \in Inside => ExecutionId(q) # e
      BY <2>1, Asks DEF Inv, Records
    <3> QED BY <1>1, <2>1, <3>1 DEF Inv, TypeOK, Causes, Inside, ExecutionId
  <2>6. Caused
    <3>1. e \in asked
      BY <2>1 DEF Inv, Stops
    <3> QED BY <1>1, <3>1 DEF Inv, TypeOK, Caused
  <2> QED BY <1>4, <1>5, <2>3, <2>4, <2>5, <2>6 DEF Inv
<1> QED BY <1>6, <1>7

(* A request gets a permit or a place in line.                             *)
LEMMA AdmitStep ==
  ASSUME Inv, NEW r \in Requests, Admit(r)
  PROVE  Inv' /\ Caused
<1> DEFINE e == ExecutionId(r)
<1> USE DEF Admit, Reach, Mark
<1>1. /\ station[r] = "new" /\ e \in Executions /\ r # None
      /\ record[e] = None /\ ~In(e, pending)
      /\ record' = [record EXCEPT ![e] = r]
      /\ UNCHANGED <<verdict, aborted, halted, gone, pending, asked, calls>>
  BY Asks DEF stopVars
<1>2. /\ ran[e] = {}
      /\ \A q \in Requests : station[q] \in {"queued"} \cup Inside => ExecutionId(q) # e
  BY <1>1, Asks DEF Inv, TypeOK, Records
<1>3. table' \in Seq(Sessions) /\ Len(table') <= MaxSessions
  BY TouchStep DEF Inv
<1>4. r \notin aborted /\ halted[r] = "no" /\ verdict[r] = "none"
  BY <1>1 DEF Inv, Causes
<1>5. CASE inUse < Limit
  <2>1. /\ station' = [station EXCEPT ![r] = "loading"] /\ status' = [status EXCEPT ![e] = "running"]
        /\ inUse' = inUse + 1 /\ ran' = [ran EXCEPT ![e] = {r}] /\ line' = line
    BY <1>2, <1>5 DEF Inv, TypeOK
  <2>2. TypeOK'
    BY <1>1, <1>3, <2>1 DEF Inv, TypeOK, Inside
  <2>3. Line' /\ Room'
    <3>1. Waiting' = Waiting /\ Working' = Working \cup {r} /\ r \notin Working
      BY <1>1, <2>1 DEF Inv, TypeOK, Waiting, Working, Inside
    <3>2. Cardinality(Working') = Cardinality(Working) + 1
      BY <3>1, Counts DEF Working
    <3>3. Line'
      <4>1. \A q \in Requests : station'[q] = "queued" <=> station[q] = "queued"
        BY <3>1 DEF Waiting
      <4> QED BY <2>1, <3>1, <4>1 DEF Inv, Line, Distinct, In
    <3> QED BY <1>5, <2>1, <3>2, <3>3, PiAssumption DEF Inv, TypeOK, Room
  <2>4. Records'
    BY <1>1, <1>2, <2>1 DEF Inv, TypeOK, Records, Inside, ExecutionId
  <2>5. Stops'
    BY <1>1, <2>1 DEF Inv, TypeOK, Stops, Distinct, In
  <2>6. Causes'
    BY <1>1, <1>4, <2>1 DEF Inv, TypeOK, Causes, Inside, ExecutionId
  <2>7. Caused
    BY <2>1 DEF Inv, TypeOK, Caused
  <2> QED BY <2>2, <2>3, <2>4, <2>5, <2>6, <2>7 DEF Inv
<1>6. CASE ~(inUse < Limit)
  <2>1. /\ station' = [station EXCEPT ![r] = "queued"] /\ status' = [status EXCEPT ![e] = "queued"]
        /\ line' = Append(line, r) /\ UNCHANGED <<inUse, ran>>
    BY <1>6
  <2>2. /\ line' \in Seq(Requests) /\ Distinct(line') /\ Len(line') = Len(line) + 1
        /\ \A y : In(y, line') <=> In(y, line) \/ y = r
    <3>1. line \in Seq(Requests) /\ Distinct(line) /\ ~In(r, line)
      BY <1>1 DEF Inv, TypeOK, Line
    <3> QED BY <2>1, <3>1, AppendNew
  <2>3. TypeOK'
    BY <1>1, <1>3, <2>1, <2>2 DEF Inv, TypeOK, Inside
  <2>4. Line' /\ Room'
    <3>1. Waiting' = Waiting \cup {r} /\ r \notin Waiting /\ Working' = Working
      BY <1>1, <2>1 DEF Inv, TypeOK, Waiting, Working, Inside
    <3>2. Cardinality(Waiting') = Cardinality(Waiting) + 1
      BY <3>1, Counts DEF Waiting
    <3>3. \A q \in Requests : In(q, line)' <=> station'[q] = "queued"
      <4>1. \A q \in Requests : In(q, line') <=> station'[q] = "queued"
        BY <2>1, <2>2 DEF Inv, TypeOK, Line
      <4> QED BY <4>1 DEF In
    <3>4. Line'
      BY <2>2, <3>2, <3>3 DEF Inv, Line, Distinct
    <3>5. inUse = Limit
      BY <1>6, PiAssumption DEF Inv, TypeOK, Room
    <3> QED BY <2>1, <3>1, <3>4, <3>5 DEF Inv, Room
  <2>5. Records'
    BY <1>1, <1>2, <2>1 DEF Inv, TypeOK, Records, Inside, ExecutionId
  <2>6. Stops'
    BY <1>1, <2>1 DEF Inv, TypeOK, Stops, Distinct, In
  <2>7. Causes'
    BY <1>1, <1>4, <2>1 DEF Inv, TypeOK, Causes, Inside, ExecutionId
  <2>8. Caused
    BY <2>1 DEF Inv, TypeOK, Caused
  <2> QED BY <2>3, <2>4, <2>5, <2>6, <2>7, <2>8 DEF Inv
<1> QED BY <1>5, <1>6

(* A request has waited too long.                                          *)
LEMMA TimeoutStep ==
  ASSUME Inv, NEW r \in Requests, QueueTimeout(r)
  PROVE  Inv' /\ Caused
<1> DEFINE e == ExecutionId(r)
<1>1. /\ station[r] = "queued" /\ e \in Executions /\ record[e] = r /\ r # None
      /\ line' = Drop(line, r) /\ asked' = asked \ {e}
      /\ record' = [record EXCEPT ![e] = None] /\ status' = [status EXCEPT ![e] = "none"]
      /\ station' = [station EXCEPT ![r] = "done"] /\ verdict' = [verdict EXCEPT ![r] = "timeout"]
      /\ UNCHANGED <<aborted, inUse, table, halted, gone, ran, pending, calls>>
  BY Asks DEF Inv, Records, QueueTimeout, Unmark, Mark, Say, Reach
<1>2. Line' /\ Room' /\ line' \in Seq(Requests)
  BY <1>1, LeavesLine DEF Inv
<1>3. TypeOK'
  BY <1>1, <1>2 DEF Inv, TypeOK
<1>4. \A q \in Requests : station[q] \in {"queued"} \cup Inside /\ ExecutionId(q) = e => q = r
  BY <1>1 DEF Inv, Records
<1>5. Records'
  <2>1. ran[e] = {}
    BY <1>1 DEF Inv, TypeOK, Records, Inside
  <2> QED BY <1>1, <1>4, <2>1 DEF Inv, TypeOK, Records, Inside, ExecutionId
<1>6. Stops'
  BY <1>1 DEF Inv, TypeOK, Stops, Distinct, In
<1>7. Causes'
  BY <1>1, <1>4 DEF Inv, TypeOK, Causes, Inside, ExecutionId
<1>8. Caused
  BY <1>1 DEF Inv, TypeOK, Caused
<1> QED BY <1>2, <1>3, <1>5, <1>6, <1>7, <1>8 DEF Inv

-----------------------------------------------------------------------------
(* The engine.                                                             *)

(* A run goes on.                                                          *)
LEMMA EngineStep ==
  ASSUME Inv, NEW r \in Requests, Loaded(r) \/ Prompted(r) \/ AgentAborts(r)
  PROVE  Inv' /\ Caused
<1>1. /\ station[r] \in {"loading", "prompting"}
      /\ \E p \in {"prompting", "closing"} : station' = [station EXCEPT ![r] = p]
      /\ \E v \in {"none", "completed", "cancelled", "failed"} : verdict' = [verdict EXCEPT ![r] = v]
      /\ station'[r] = "prompting" => verdict'[r] = "none"
      /\ station'[r] = "closing" => verdict'[r] \in {"completed", "cancelled", "failed"}
      /\ verdict'[r] = "completed" => r \notin aborted
      /\ verdict'[r] = "cancelled" => r \in aborted \cup gone'
      /\ gone \subseteq gone' /\ gone' \subseteq Requests
      /\ UNCHANGED <<record, status, aborted, gateVars, table, halted, ran, stopVars>>
  <2>1. CASE Loaded(r)
    <3>1. verdict[r] = "none"
      BY <2>1 DEF Inv, Causes, Loaded, Load
    <3>2. CASE r \in aborted
      BY <2>1, <3>1, <3>2 DEF Inv, TypeOK, Loaded, Load, Reach
    <3>3. CASE r \notin aborted
      <4>1. verdict' = [verdict EXCEPT ![r] = "none"]
        BY <2>1, <3>1, <3>3 DEF Inv, TypeOK, Loaded, Load
      <4> QED BY <2>1, <3>1, <3>3, <4>1 DEF Inv, TypeOK, Loaded, Load, Reach
    <3> QED BY <3>2, <3>3
  <2>2. CASE Prompted(r)
    BY <2>2 DEF Inv, TypeOK, Prompted, Results, Reach
  <2>3. CASE AgentAborts(r)
    BY <2>3 DEF Inv, TypeOK, AgentAborts, Reach
  <2> QED BY <2>1, <2>2, <2>3
<1>2. Waiting' = Waiting /\ Working' = Working
  BY <1>1 DEF Inv, TypeOK, Waiting, Working, Inside
<1>3. Line' /\ Room'
  BY <1>1, <1>2, Unmoved DEF Inv
<1>4. TypeOK'
  BY <1>1 DEF Inv, TypeOK, gateVars, stopVars, Inside
<1>5. Records'
  BY <1>1 DEF Inv, TypeOK, Records, Inside, ExecutionId
<1>6. Stops'
  BY <1>1 DEF Inv, Stops, Distinct, In, stopVars
<1>7. Causes'
  <2>1. verdict'[r] = "completed" => halted[r] = "no"
    BY <1>1 DEF Inv, Causes
  <2> QED BY <1>1, <2>1 DEF Inv, TypeOK, Causes, Inside, ExecutionId, stopVars
<1>8. Caused
  BY <1>1 DEF Inv, TypeOK, Caused
<1> QED BY <1>3, <1>4, <1>5, <1>6, <1>7, <1>8 DEF Inv

(* A run ends, and the first in line starts.                               *)
LEMMA FinishStep ==
  ASSUME Inv, NEW r \in Requests, Finish(r)
  PROVE  Inv' /\ Caused
<1> DEFINE e    == ExecutionId(r)
           next == IF line = <<>> THEN None ELSE Head(line)
           end  == IF verdict[r] = "completed" THEN "completed"
                     ELSE IF r \in aborted THEN "cancelled"
                     ELSE IF station[r] = "loading" THEN "failed" ELSE verdict[r]
<1>1. /\ station[r] \in {"loading", "closing"} /\ e \in Executions /\ record[e] = r /\ r # None
      /\ verdict' = [verdict EXCEPT ![r] = end]
      /\ UNCHANGED <<aborted, table, halted, gone, pending, asked, calls>>
  BY Asks DEF Inv, Records, Inside, Finish, stopVars
<1>2. /\ end \in {"completed", "cancelled", "failed"}
      /\ end = "completed" => halted[r] \notin {"queued", "loading", "prompting"}
      /\ end = "cancelled" => e \in asked \/ r \in gone
  <2>1. station[r] \in Inside
    BY <1>1 DEF Inside
  <2>2. station[r] = "loading" => verdict[r] = "none"
    BY DEF Inv, Causes
  <2>3. station[r] = "closing" =>
         /\ verdict[r] \in {"completed", "cancelled", "failed"}
         /\ verdict[r] = "completed" => halted[r] \notin {"queued", "loading", "prompting"}
         /\ verdict[r] = "cancelled" => r \in aborted \cup gone
    BY DEF Inv, Causes
  <2>4. r \in aborted => e \in asked \/ r \in gone
    BY <2>1 DEF Inv, Causes
  <2> QED BY <1>1, <2>2, <2>3, <2>4
<1> HIDE DEF end
<1>3. CASE line = <<>>
  <2>1. /\ record' = [record EXCEPT ![e] = r] /\ status' = [status EXCEPT ![e] = end]
        /\ station' = [station EXCEPT ![r] = "done"]
        /\ line' = line /\ inUse' = inUse - 1 /\ UNCHANGED ran
    BY <1>3 DEF Finish, Release, Keep, Mark, Reach, end
  <2>2. Waiting' = Waiting /\ Working' = Working \ {r} /\ r \in Working
    BY <1>1, <2>1 DEF Inv, TypeOK, Waiting, Working, Inside
  <2>3. Cardinality(Working') = Cardinality(Working) - 1 /\ Cardinality(Working') \in Nat
    BY <2>2, Counts DEF Working
  <2>4. TypeOK'
    <3>1. inUse' \in Nat
      BY <2>1, <2>3 DEF Inv, Room
    <3> QED BY <1>1, <1>2, <2>1, <3>1 DEF Inv, TypeOK
  <2>5. Line'
    <3>1. \A q \in Requests : station'[q] = "queued" <=> station[q] = "queued"
      BY <2>2 DEF Waiting
    <3> QED BY <2>1, <2>2, <3>1 DEF Inv, Line, Distinct, In
  <2>6. Room'
    BY <1>3, <2>1, <2>3, PiAssumption DEF Inv, TypeOK, Room
  <2>7. Records'
    BY <1>1, <2>1 DEF Inv, TypeOK, Records, Inside, ExecutionId
  <2>8. Stops'
    BY <1>1, <1>2, <2>1 DEF Inv, TypeOK, Stops, Distinct, In
  <2>9. Causes'
    BY <1>1, <2>1 DEF Inv, TypeOK, Causes, Inside, ExecutionId
  <2>10. Caused
    BY <1>1, <1>2, <2>1 DEF Inv, TypeOK, Caused
  <2> QED BY <2>4, <2>5, <2>6, <2>7, <2>8, <2>9, <2>10 DEF Inv
<1>4. CASE line # <<>>
  <2> DEFINE n == Head(line)
             d == ExecutionId(n)
  <2>1. /\ n \in Requests /\ station[n] = "queued" /\ n # None /\ n # r
        /\ line' = Tail(line) /\ UNCHANGED inUse
        /\ line' \in Seq(Requests) /\ Distinct(line')
        /\ Len(line') = Len(line) - 1
        /\ \A y : In(y, line') <=> In(y, line) /\ y # n
    <3>1. /\ n \in Requests /\ In(n, line)
          /\ Tail(line) \in Seq(Requests) /\ Distinct(Tail(line)) /\ Len(Tail(line)) = Len(line) - 1
          /\ \A y : In(y, Tail(line)) <=> In(y, line) /\ y # n
      BY <1>4, TailRest DEF Inv, TypeOK, Line
    <3>2. n # None /\ station[n] = "queued"
      BY <3>1, PiAssumption DEF Inv, Line
    <3>3. line' = Tail(line) /\ UNCHANGED inUse
      BY <1>4, <3>2 DEF Finish, Release
    <3> QED BY <1>1, <3>1, <3>2, <3>3
  <2>2. d \in Executions /\ record[d] = n /\ d # e
    BY <1>1, <2>1, Asks DEF Inv, Records
  <2>3. /\ record' = [record EXCEPT ![e] = r]
        /\ status' = [status EXCEPT ![e] = end, ![d] = "running"]
        /\ station' = [station EXCEPT ![r] = "done", ![n] = "loading"]
        /\ ran' = [ran EXCEPT ![d] = @ \cup {n}]
    BY <1>4, <2>1 DEF Finish, end
  <2>4. Waiting' = Waiting \ {n} /\ n \in Waiting /\ Working' = (Working \ {r}) \cup {n}
        /\ r \in Working /\ n \notin Working \ {r}
    BY <1>1, <2>1, <2>3 DEF Inv, TypeOK, Waiting, Working, Inside
  <2>5. /\ Cardinality(Waiting') = Cardinality(Waiting) - 1
        /\ Cardinality(Working') = Cardinality(Working)
    <3>1. Cardinality(Waiting') = Cardinality(Waiting) - 1
      BY <2>4, Counts DEF Waiting
    <3>2. Cardinality(Working \ {r}) = Cardinality(Working) - 1 /\ Cardinality(Working) \in Nat
      BY <2>4, Counts DEF Working
    <3>3. Cardinality((Working \ {r}) \cup {n}) = Cardinality(Working \ {r}) + 1
      <4>1. Working \ {r} \subseteq Requests
        BY DEF Working
      <4> QED BY <2>4, <4>1, Counts
    <3> QED BY <2>4, <3>1, <3>2, <3>3
  <2>6. TypeOK'
    BY <1>1, <1>2, <2>1, <2>2, <2>3 DEF Inv, TypeOK, Inside
  <2>7. Line'
    <3>1. \A q \in Requests : In(q, line)' <=> station'[q] = "queued"
      <4>1. \A q \in Requests : In(q, line') <=> station'[q] = "queued"
        BY <1>1, <2>1, <2>3 DEF Inv, TypeOK, Line
      <4> QED BY <4>1 DEF In
    <3> QED BY <2>1, <2>5, <3>1 DEF Inv, Line, Distinct
  <2>8. Room'
    BY <1>4, <2>1, <2>5 DEF Inv, Room
  <2>9. Records'
    <3>1. record' = record
      BY <1>1, <2>3 DEF Inv, TypeOK
    <3>2. \A q \in Requests : station'[q] =
            IF q = n THEN "loading" ELSE IF q = r THEN "done" ELSE station[q]
      BY <1>1, <2>1, <2>3 DEF Inv, TypeOK
    <3>3. ASSUME NEW q \in Requests, station'[q] \in {"queued"} \cup Inside
          PROVE  record'[ExecutionId(q)] = q
      <4>1. CASE q = n
        BY <2>2, <3>1, <4>1
      <4>2. CASE q # n
        <5>1. station[q] \in {"queued"} \cup Inside
          BY <3>2, <3>3, <4>2 DEF Inside
        <5> QED BY <3>1, <5>1 DEF Inv, Records
      <4> QED BY <4>1, <4>2
    <3>4. ASSUME NEW c \in Executions, record'[c] # None
          PROVE  ExecutionId(record'[c]) = c /\ station'[record'[c]] # "new"
      <4>1. record[c] \in Requests /\ ExecutionId(record[c]) = c /\ station[record[c]] # "new"
        BY <3>1, <3>4 DEF Inv, TypeOK, Records
      <4> QED BY <3>1, <3>2, <4>1
    <3>5. ASSUME NEW c \in Executions, NEW x \in ran'[c]
          PROVE  record'[c] = x /\ station'[x] \in Inside \cup {"done"}
      <4>1. ran'[c] = IF c = d THEN ran[d] \cup {n} ELSE ran[c]
        BY <2>2, <2>3 DEF Inv, TypeOK
      <4>2. CASE x = n /\ c = d
        BY <2>1, <2>2, <3>1, <3>2, <4>2 DEF Inside
      <4>3. CASE x \in ran[c]
        <5>1. x \in Requests /\ record[c] = x /\ station[x] \in Inside \cup {"done"}
          BY <4>3 DEF Inv, TypeOK, Records
        <5> QED BY <3>1, <3>2, <5>1 DEF Inside
      <4> QED BY <3>5, <4>1, <4>2, <4>3
    <3> QED BY <3>3, <3>4, <3>5 DEF Records, ExecutionId
  <2>10. Stops'
    BY <1>1, <1>2, <2>2, <2>3 DEF Inv, TypeOK, Stops, Distinct, In
  <2>11. Causes'
    BY <1>1, <2>1, <2>3 DEF Inv, TypeOK, Causes, Inside, ExecutionId
  <2>12. Caused
    BY <1>1, <1>2, <2>1, <2>3 DEF Inv, TypeOK, Caused
  <2> QED BY <2>6, <2>7, <2>8, <2>9, <2>10, <2>11, <2>12 DEF Inv
<1> QED BY <1>3, <1>4

-----------------------------------------------------------------------------
(* Stops.                                                                  *)

(* The requests stay where they are, and those that wait or work keep the  *)
(* cause they have to be cancelled.                                        *)
LEMMA NobodyMoves ==
  ASSUME Inv, UNCHANGED <<station, gateVars>>
  PROVE  Line' /\ Room' /\ Caused
<1>1. Waiting' = Waiting /\ Working' = Working
  BY DEF Waiting, Working
<1>2. Caused
  BY DEF Caused
<1> QED BY <1>1, <1>2, Unmoved DEF Inv

(* A record is thrown away.                                                *)
LEMMA ForgetStep ==
  ASSUME Inv, NEW e \in Executions, ForgetRun(e)
  PROVE  Inv' /\ Caused
<1>1. /\ record[e] # None /\ station[record[e]] = "done"
      /\ record' = [record EXCEPT ![e] = None] /\ status' = [status EXCEPT ![e] = "none"]
      /\ asked' = asked \ {e} /\ ran' = [ran EXCEPT ![e] = {}]
      /\ UNCHANGED <<station, verdict, aborted, gateVars, table, halted, gone, pending, calls>>
  BY DEF ForgetRun, Unmark, Mark
<1>2. Line' /\ Room' /\ Caused
  BY <1>1, NobodyMoves
<1>3. \A q \in Requests : station[q] \in {"queued"} \cup Inside => ExecutionId(q) # e
  BY <1>1 DEF Inv, Records, Inside
<1>4. TypeOK'
  BY <1>1 DEF Inv, TypeOK, gateVars
<1>5. Records'
  BY <1>1, <1>3 DEF Inv, TypeOK, Records, ExecutionId
<1>6. Stops'
  BY <1>1 DEF Inv, TypeOK, Stops, Distinct, In
<1>7. Causes'
  BY <1>1, <1>3 DEF Inv, Causes, Inside, ExecutionId
<1> QED BY <1>2, <1>4, <1>5, <1>6, <1>7 DEF Inv

(* A stop meets a run.                                                     *)
LEMMA StopStep ==
  ASSUME Inv, NEW e \in Executions, StopRun(e)
  PROVE  Inv' /\ Caused
<1> DEFINE r == record[e]
<1>1. /\ r \in Requests /\ r # None /\ ExecutionId(r) = e /\ station[r] # "new"
      /\ calls' = calls + 1 /\ calls < MaxStops /\ aborted' = aborted \cup {r}
      /\ halted' = [halted EXCEPT ![r] = IF @ = "no" THEN station[r] ELSE @]
      /\ UNCHANGED <<inUse, table, gone, ran, pending>>
  BY DEF Inv, TypeOK, Records, StopRun, Call
<1>2. calls' \in 0..MaxStops
  BY <1>1, PiAssumption DEF Inv, TypeOK
<1>3. halted'[r] # "no" /\ \A q \in Requests : q # r => halted'[q] = halted[q]
  <2>1. halted'[r] = IF halted[r] = "no" THEN station[r] ELSE halted[r]
    BY <1>1 DEF Inv, TypeOK
  <2>2. station[r] # "no"
    BY <1>1 DEF Inv, TypeOK, Inside
  <2> QED BY <1>1, <2>1, <2>2
<1>4. halted' \in [Requests -> {"no", "queued", "done"} \cup Inside]
  <2>1. station[r] \in {"queued", "done"} \cup Inside
    BY <1>1 DEF Inv, TypeOK
  <2> QED BY <1>1, <2>1 DEF Inv, TypeOK
<1>5. ~In(e, pending)
  BY <1>1 DEF Inv, Stops
<1>6. CASE station[r] = "queued"
  <2>1. /\ line' = Drop(line, r)
        /\ record' = [record EXCEPT ![e] = None] /\ status' = [status EXCEPT ![e] = "none"]
        /\ station' = [station EXCEPT ![r] = "done"]
        /\ verdict' = [verdict EXCEPT ![r] = "cancelled"] /\ UNCHANGED asked
    BY <1>6 DEF StopRun, Unmark, Mark, Say, Reach
  <2>2. Line' /\ Room' /\ line' \in Seq(Requests)
    BY <1>1, <1>6, <2>1, LeavesLine DEF Inv
  <2>3. TypeOK'
    BY <1>1, <1>2, <1>4, <2>1, <2>2 DEF Inv, TypeOK
  <2>4. ran[e] = {}
    BY <1>1, <1>6 DEF Inv, TypeOK, Records, Inside
  <2>5. \A q \in Requests : station[q] \in {"queued"} \cup Inside /\ ExecutionId(q) = e => q = r
    BY <1>1 DEF Inv, Records
  <2>6. Records'
    BY <1>1, <2>1, <2>4, <2>5 DEF Inv, TypeOK, Records, Inside, ExecutionId
  <2>7. Stops'
    BY <1>1, <2>1 DEF Inv, TypeOK, Stops, Distinct, In
  <2>8. Causes'
    BY <1>1, <1>3, <2>1 DEF Inv, TypeOK, Causes, Inside, ExecutionId
  <2>9. Caused
    BY <1>1, <1>3, <2>1 DEF Inv, TypeOK, Caused
  <2> QED BY <2>2, <2>3, <2>6, <2>7, <2>8, <2>9 DEF Inv
<1>7. CASE station[r] # "queued"
  <2>1. /\ record' = [record EXCEPT ![e] = r] /\ status' = [status EXCEPT ![e] = "cancelling"]
        /\ asked' = asked \cup {e} /\ UNCHANGED <<line, station, verdict>>
    BY <1>7 DEF StopRun, Mark
  <2>2. Line' /\ Room' /\ Caused
    BY <1>1, <2>1, NobodyMoves DEF gateVars
  <2>3. TypeOK'
    BY <1>1, <1>2, <1>4, <2>1 DEF Inv, TypeOK
  <2>4. record' = record
    BY <1>1, <2>1 DEF Inv, TypeOK
  <2>5. Records'
    BY <1>1, <2>1, <2>4 DEF Inv, Records, Inside, ExecutionId
  <2>6. Stops'
    BY <1>1, <2>1, <2>4 DEF Inv, TypeOK, Stops, Distinct, In
  <2>7. Causes'
    BY <1>1, <1>3, <1>7, <2>1 DEF Inv, TypeOK, Causes, Inside, ExecutionId
  <2> QED BY <2>2, <2>3, <2>5, <2>6, <2>7 DEF Inv
<1> QED BY <1>6, <1>7

(* What is left of the stops that are remembered has room for one more.    *)
LEMMA KeptRoom ==
  ASSUME Inv
  PROVE  /\ Kept \in Seq(Executions) /\ Distinct(Kept) /\ Len(Kept) < MaxSessions
         /\ Len(Kept) \in Nat
         /\ \A y : In(y, Kept) => In(y, pending)
<1>1. /\ pending \in Seq(Executions) /\ Distinct(pending)
      /\ Len(pending) \in Nat /\ Len(pending) <= MaxSessions /\ MaxSessions \in Nat \ {0}
  BY PiAssumption, LenProperties DEF Inv, TypeOK, Stops
<1>2. CASE Len(pending) < MaxSessions
  BY <1>1, <1>2 DEF Kept
<1>3. CASE ~(Len(pending) < MaxSessions)
  <2>1. pending # <<>>
    BY <1>1, <1>3, EmptySeq
  <2>2. Kept = Tail(pending)
    BY <1>3 DEF Kept
  <2>3. /\ Tail(pending) \in Seq(Executions) /\ Distinct(Tail(pending))
        /\ Len(Tail(pending)) = Len(pending) - 1 /\ Len(pending) - 1 \in Nat
        /\ \A y : In(y, Tail(pending)) <=> In(y, pending) /\ y # Head(pending)
    BY <1>1, <2>1, TailRest
  <2> QED BY <1>1, <2>2, <2>3
<1> QED BY <1>2, <1>3

(* A stop meets nobody.                                                    *)
LEMMA UnknownStep ==
  ASSUME Inv, NEW e \in Executions, StopUnknown(e)
  PROVE  Inv' /\ Caused
<1>1. /\ record[e] = None /\ calls' = calls + 1 /\ calls < MaxStops
      /\ pending' = IF In(e, Kept) THEN Kept ELSE Append(Kept, e)
      /\ asked' = {d \in asked : record[d] # None \/ In(d, Kept)} \cup {e}
      /\ UNCHANGED <<station, verdict, record, status, aborted, gateVars, table, halted, gone, ran>>
  BY DEF StopUnknown, Call
<1>2. Line' /\ Room' /\ Caused
  BY <1>1, NobodyMoves
<1>3. /\ pending' \in Seq(Executions) /\ Distinct(pending') /\ Len(pending') <= MaxSessions
      /\ \A y : In(y, pending') => In(y, Kept) \/ y = e
  <2>1. CASE In(e, Kept)
    BY <1>1, <2>1, KeptRoom, PiAssumption
  <2>2. CASE ~In(e, Kept)
    BY <1>1, <2>2, KeptRoom, AppendNew, PiAssumption
  <2> QED BY <2>1, <2>2
<1>4. TypeOK'
  <2>1. calls' \in 0..MaxStops
    BY <1>1, PiAssumption DEF Inv, TypeOK
  <2>2. asked' \subseteq Executions
    BY <1>1 DEF Inv, TypeOK
  <2> QED BY <1>1, <1>3, <2>1, <2>2 DEF Inv, TypeOK, gateVars
<1>5. Records'
  BY <1>1 DEF Inv, Records, ExecutionId
<1>6. Stops'
  <2>1. \A d \in Executions : In(d, pending)' => record[d] = None /\ d \in asked'
    <3>1. \A d \in Executions : In(d, pending') => record[d] = None /\ d \in asked'
      BY <1>1, <1>3, KeptRoom DEF Inv, Stops
    <3> QED BY <3>1 DEF In
  <2>2. \A d \in Executions : record[d] # None /\ d \in asked => d \in asked'
    BY <1>1
  <2> QED BY <1>1, <1>3, <2>1, <2>2 DEF Inv, Stops, Distinct
<1>7. Causes'
  <2>1. \A q \in Requests : station[q] \in Inside /\ ExecutionId(q) \in asked => ExecutionId(q) \in asked'
    BY <1>1, Asks DEF Inv, Records
  <2> QED BY <1>1, <2>1 DEF Inv, Causes, ExecutionId
<1> QED BY <1>2, <1>4, <1>5, <1>6, <1>7 DEF Inv

(* A stop is forgotten.                                                    *)
LEMMA ForgetStopStep ==
  ASSUME Inv, NEW e \in Executions, ForgetStop(e)
  PROVE  Inv' /\ Caused
<1>1. /\ In(e, pending) /\ record[e] = None /\ asked' = asked \ {e}
      /\ pending' = Drop(pending, e)
      /\ UNCHANGED <<station, verdict, record, status, aborted, gateVars, table, halted, gone, ran, calls>>
  BY DEF Inv, Stops, ForgetStop
<1>2. Line' /\ Room' /\ Caused
  BY <1>1, NobodyMoves
<1>3. /\ pending' \in Seq(Executions) /\ Len(pending') <= MaxSessions /\ Distinct(pending')
      /\ \A y : In(y, pending') <=> In(y, pending) /\ y # e
  BY <1>1, DropShort, DropDistinct, PiAssumption DEF Inv, TypeOK, Stops
<1>4. TypeOK'
  BY <1>1, <1>3 DEF Inv, TypeOK, gateVars
<1>5. Records'
  BY <1>1 DEF Inv, Records, ExecutionId
<1>6. Stops'
  <2>1. \A d \in Executions : In(d, pending)' => In(d, pending) /\ d # e
    BY <1>3 DEF In
  <2> QED BY <1>1, <1>3, <2>1 DEF Inv, Stops, Distinct
<1>7. Causes'
  <2>1. \A q \in Requests : station[q] \in Inside => ExecutionId(q) # e
    BY <1>1, Asks DEF Inv, Records
  <2> QED BY <1>1, <2>1 DEF Inv, Causes, ExecutionId
<1> QED BY <1>2, <1>4, <1>5, <1>6, <1>7 DEF Inv

(* The client of a stream leaves.                                          *)
LEMMA LeaveStep ==
  ASSUME Inv, NEW r \in Requests, Leave(r)
  PROVE  Inv' /\ Caused
<1>1. /\ station[r] \in Inside /\ aborted' = aborted \cup {r} /\ gone' = gone \cup {r}
      /\ UNCHANGED <<station, verdict, record, status, gateVars, table, halted, ran, stopVars>>
  BY DEF Leave
<1>2. Line' /\ Room' /\ Caused
  BY <1>1, NobodyMoves
<1>3. TypeOK'
  BY <1>1 DEF Inv, TypeOK, gateVars, stopVars
<1>4. Records'
  BY <1>1 DEF Inv, Records, ExecutionId
<1>5. Stops'
  BY <1>1 DEF Inv, Stops, Distinct, In, stopVars
<1>6. Causes'
  BY <1>1 DEF Inv, Causes, Inside, ExecutionId, stopVars
<1> QED BY <1>2, <1>3, <1>4, <1>5, <1>6 DEF Inv

(* A session is opened, or nothing happens.                                *)
LEMMA QuietStep ==
  ASSUME Inv, (\E s \in Sessions : OpenSession(s)) \/ UNCHANGED piVars
  PROVE  Inv' /\ Caused
<1>1. UNCHANGED <<station, verdict, record, status, aborted, gateVars, halted, gone, ran, stopVars>>
  BY DEF OpenSession, piVars
<1>2. Line' /\ Room' /\ Caused
  BY <1>1, NobodyMoves
<1>3. table' \in Seq(Sessions) /\ Len(table') <= MaxSessions
  <2>1. CASE \E s \in Sessions : OpenSession(s)
    BY <2>1, SessionStep DEF Inv
  <2>2. CASE UNCHANGED piVars
    BY <2>2 DEF Inv, TypeOK, piVars
  <2> QED BY <2>1, <2>2
<1>4. TypeOK'
  BY <1>1, <1>3 DEF Inv, TypeOK, gateVars, stopVars
<1>5. Records'
  BY <1>1 DEF Inv, Records, ExecutionId
<1>6. Stops'
  BY <1>1 DEF Inv, Stops, Distinct, In, stopVars
<1>7. Causes'
  BY <1>1 DEF Inv, Causes, ExecutionId, stopVars
<1> QED BY <1>2, <1>4, <1>5, <1>6, <1>7 DEF Inv

-----------------------------------------------------------------------------
(* The specification.                                                      *)

(* Every step keeps the invariant, and answers with a cause.               *)
LEMMA InvNext == Inv /\ [Next]_piVars => Inv' /\ Caused
<1> SUFFICES ASSUME Inv, [Next]_piVars PROVE Inv' /\ Caused
  OBVIOUS
<1>1. ASSUME NEW r \in Requests, Enter(r) PROVE Inv' /\ Caused
  BY <1>1, AnswerStep, AdmitStep, TimeoutStep DEF Enter
<1>2. ASSUME NEW r \in Requests, Run(r) PROVE Inv' /\ Caused
  BY <1>2, EngineStep, FinishStep DEF Run
<1>3. ASSUME NEW r \in Requests, Leave(r) PROVE Inv' /\ Caused
  BY <1>3, LeaveStep
<1>4. ASSUME NEW e \in Executions, ForgetRun(e) \/ StopRun(e) \/ StopUnknown(e) \/ ForgetStop(e)
      PROVE  Inv' /\ Caused
  BY <1>4, ForgetStep, StopStep, UnknownStep, ForgetStopStep
<1>5. ASSUME (\E s \in Sessions : OpenSession(s)) \/ UNCHANGED piVars PROVE Inv' /\ Caused
  BY <1>5, QuietStep
<1> QED BY <1>1, <1>2, <1>3, <1>4, <1>5 DEF Next

(* The invariant holds.                                                    *)
LEMMA Invariance == Spec => []Inv
<1>1. Inv /\ [Next]_piVars => Inv'
  BY InvNext
<1> QED BY <1>1, InvInitially, PTL DEF Spec

(* The variables keep their domains (server.mjs:60-80).                    *)
THEOREM PiTypeCorrect == Spec => []TypeOK
<1>1. Inv => TypeOK
  BY DEF Inv
<1> QED BY <1>1, Invariance, PTL

(* The gate counts exactly, for any limit and any queue                    *)
(* (server.mjs:14-58).                                                     *)
THEOREM GateIsExact == Spec => []GateExact
<1>1. Inv => GateExact
  BY DEF Inv, Line, Room, GateExact, Waiting, Working
<1> QED BY <1>1, Invariance, PTL

(* No execution is run twice while its record lives, and a run under way   *)
(* is the recorded one (server.mjs:169-187, 287).                          *)
THEOREM RunsStartOnce == Spec => []RunOnce
<1>1. ASSUME Inv PROVE RunOnce
  <2>1. ASSUME NEW e \in Executions PROVE Cardinality(ran[e]) <= 1
    <3>1. ran[e] \subseteq {record[e]}
      BY <1>1 DEF Inv, Records
    <3>2. IsFiniteSet({record[e]}) /\ Cardinality({record[e]}) = 1
      BY FS_Singleton
    <3>3. Cardinality(ran[e]) <= Cardinality({record[e]})
      BY <3>1, <3>2, FS_Subset
    <3> QED BY <3>2, <3>3
  <2> QED BY <1>1, <2>1 DEF Inv, Records, RunOnce
<1> QED BY <1>1, Invariance, PTL

(* A stop ends a run that is not through, and nothing is cancelled without *)
(* a stop or a client that left (server.mjs:162-202, pi-engine.mjs:163).   *)
THEOREM StopsAreExact == Spec => StopExact
<1>1. Inv /\ [Next]_piVars => [Caused]_piVars
  BY InvNext
<1>2. Spec => [][Caused]_piVars
  BY <1>1, Invariance, PTL DEF Spec
<1> QED BY <1>2 DEF StopExact, Caused
=============================================================================

---------------------------- MODULE SheddingProofs -----------------------------
(***************************************************************************)
(* Whatever callers abort and whoever is refused, everybody is answered,   *)
(* the pool stays exact and a drain cuts nobody's stream, for every pool,  *)
(* batch, queue bound and set of requests.                                 *)
(***************************************************************************)
EXTENDS SheddingEngine, PrefixProofs

--------------------------------------------------------------------------------
(* The inductive invariant, besides that of the prefix engine. *)

\* Who finishes has arrived, and who is refused has not.
Known == /\ \A r \in Requests : finished[r] => r \in Range(arrival)
         /\ refused \cap Range(arrival) = {}

Everyone == Range(running) \cup Range(admitted) \cup Range(waiting)

\* Nobody is lost on the way.
Kept == \A r \in Range(arrival) : finished[r] \/ r \in Everyone

\* The requests that prefill has still to hand a token.
Unserved ==
    Range(waiting) \cup {admitted[i] : i \in {j \in 1 .. Len(admitted) : pc \in Admitting => j >= at}}

\* Whoever is served again after its end was preempted after its end.
SecondTime == \A r \in Unserved : finished[r] => r \in outlived

AnswerTypes == /\ owed \in Seq(Requests) /\ outputs \in Seq(Requests)
               /\ told \in [Requests -> Nat]
               /\ late \subseteq aborted /\ aborted \subseteq Requests
               /\ draining \in BOOLEAN /\ refused \subseteq Requests

\* Outputs are of the step under way, and everybody is answered as it should be.
Told == /\ pc = "idle" => outputs = <<>>
        /\ \A r \in Requests : Answers(r) > 0 <=> finished[r] \/ r \in refused
        /\ \A r \in Requests : r \notin outlived \cup late => Answers(r) <= 1

SInv == PInv /\ AnswerTypes /\ Known /\ Kept /\ SecondTime /\ Told

--------------------------------------------------------------------------------
(* abort(). *)

\* A request that is still queued holds nothing: the queue is shorter by it.
LEMMA AbortWaitingStep ==
  ASSUME PInv, NEW r \in Requests, AbortWaiting(r)
  PROVE  PInv'
  <1>1. /\ pc = "idle" /\ pc' = pc /\ r \in Range(waiting)
        /\ waiting' = Without(waiting, r) /\ finished' = [finished EXCEPT ![r] = TRUE]
        /\ UNCHANGED <<free, refcount, entries, kv, block_table, stored, output_token_ids>>
        /\ UNCHANGED <<running, admitted, reserved, states, at, arrival, outlived>>
    BY DEF AbortWaiting, FinishAborted, poolVars, cacheVars, stepVars, history
  <1>2. MemInv BY DEF PInv
  <1>3. MemInv' BY <1>1, <1>2, MemoryKept DEF memoryVars
  <1>4. /\ waiting \in Seq(Requests) /\ Once(waiting) /\ r \notin Range(running)
    BY <1>1, Lists DEF PInv, Roles
  <1>5. waiting' \in Seq(Requests) /\ Once(waiting') /\ Range(waiting') = Range(waiting) \ {r}
    BY <1>1, <1>4, OnceWithout
  <1>6. /\ finished \in [Requests -> BOOLEAN] /\ finished' \in [Requests -> BOOLEAN]
        /\ \A s \in Requests : s # r => finished'[s] = finished[s]
    BY <1>1 DEF PInv, TypeOK
  <1>7. TypeOK' BY <1>1, <1>5, <1>6 DEF PInv, TypeOK
  <1>8. Roles'
    <2>1. /\ Once(running') /\ Once(admitted')
          /\ Range(running') = Range(running) /\ Range(admitted') = Range(admitted)
          /\ Range(arrival') = Range(arrival)
      BY <1>1 DEF PInv, Roles, Once
    <2> QED BY <1>5, <2>1 DEF PInv, Roles
  <1>9. InStep' BY <1>1 DEF PInv, InStep, Admitting
  <1>10. InBatch'
    <2>1. \A s \in Outsiders' : Cold(s)' BY <1>1 DEF PInv, InBatch, Outsiders, Cold
    <2>2. ASSUME NEW s \in Range(running') PROVE Served(s)'
      <3>1. s \in Range(running) /\ s \in Requests /\ s # r BY <1>1, <1>4, Lists
      <3>2. Same(s) BY <1>1, <1>6, <3>1 DEF Same
      <3>3. Served(s) BY <1>1, <3>1 DEF PInv, InBatch, Pending
      <3> QED BY <3>2, <3>3, Frame
    <2> QED BY <1>1, <2>1, <2>2 DEF InBatch, Pending
  <1>11. Slotted' /\ BeingAdmitted' /\ Promise'
    BY <1>1 DEF Slotted, BeingAdmitted, Promise, Admitting
  <1> QED BY <1>3, <1>7, <1>8, <1>9, <1>10, <1>11 DEF PInv

\* A request that is running gives back what it holds, as at its end.
LEMMA AbortRunningStep ==
  ASSUME PInv, NEW r \in Requests, AbortRunning(r)
  PROVE  PInv'
  <1>1. /\ pc = "idle" /\ pc' = pc /\ r \in Range(running) /\ PrefixRelease(r)
        /\ running' = Without(running, r) /\ finished' = [finished EXCEPT ![r] = TRUE]
        /\ output_token_ids' = output_token_ids
        /\ UNCHANGED <<waiting, admitted, reserved, states, at, arrival, outlived>>
    BY DEF AbortRunning, FinishAborted, GiveBack, stepVars, history
  <1>2. MemInv BY DEF PInv
  <1>3. output_token_ids' \in [Requests -> Seq(Vocab)] BY <1>1 DEF PInv, TypeOK
  <1>4. MemInv' BY <1>1, <1>2, <1>3, ReleaseMemory
  <1>5. running \in Seq(Requests) /\ Once(running) BY Lists DEF PInv, Roles
  <1>6. running' \in Seq(Requests) /\ Once(running') /\ Range(running') = Range(running) \ {r}
    BY <1>1, <1>5, OnceWithout
  <1>7. admitted = <<>> /\ reserved = 0 BY <1>1 DEF PInv, InStep, Admitting
  <1>8. Len(running') <= Len(running) /\ Len(running') \in Nat
    <2>1. PICK i \in 1 .. Len(running) : running[i] = r BY <1>1, Lists
    <2> DEFINE k == CHOOSE n \in 1 .. Len(running) : running[n] = r
    <2>2. k \in 1 .. Len(running) BY <2>1
    <2>3. running' = RemoveAt(running, k) BY <1>1, <2>1 DEF Without
    <2> HIDE DEF k
    <2>4. Len(RemoveAt(running, k)) = Len(running) - 1 BY <1>5, <2>2, RemoveAtType
    <2>5. Len(running) \in Nat /\ Len(running') \in Nat BY <1>6, Lists, LenProperties
    <2> QED BY <2>3, <2>4, <2>5
  <1>9. /\ block_table' = [block_table EXCEPT ![r] = <<>>]
        /\ stored' = [stored EXCEPT ![r] = 0]
        /\ block_table \in [Requests -> Seq(Blocks)] /\ stored \in [Requests -> Nat]
        /\ finished \in [Requests -> BOOLEAN] /\ finished' \in [Requests -> BOOLEAN]
    BY <1>1 DEF PrefixRelease, PInv, TypeOK
  <1>10. Cold(r)' BY <1>9 DEF Cold
  <1>11. ASSUME NEW s \in Requests, s # r
         PROVE  (Cold(s)' <=> Cold(s)) /\ (Served(s)' <=> Served(s))
    <2>1. Same(s) BY <1>1, <1>9, <1>11 DEF Same
    <2> QED BY <2>1, Frame
  <1>12. TypeOK'
    <2>1. /\ refcount' \in [Blocks -> Nat] /\ block_table' \in [Requests -> Seq(Blocks)]
          /\ free' \subseteq Blocks /\ stored' \in [Requests -> Nat]
      BY <1>4 DEF MemInv, MemoryTypes
    <2>2. Len(running') + Len(admitted') <= MaxBatchSize
      BY <1>1, <1>7, <1>8, Lists, EngineAssumption DEF PInv, TypeOK
    <2> QED BY <1>1, <1>3, <1>6, <1>9, <2>1, <2>2 DEF PInv, TypeOK
  <1>13. Roles'
    <2>1. /\ Once(waiting') /\ Once(admitted') /\ Range(waiting') = Range(waiting)
          /\ Range(admitted') = Range(admitted) /\ Range(arrival') = Range(arrival)
      BY <1>1 DEF PInv, Roles, Once
    <2> QED BY <1>6, <2>1 DEF PInv, Roles
  <1>14. InStep' BY <1>1 DEF PInv, InStep, Admitting
  <1>15. InBatch'
    <2>1. ASSUME NEW s \in Outsiders' PROVE Cold(s)'
      <3>1. s \in Requests /\ (s = r \/ s \in Outsiders) BY <1>1, <1>6 DEF Outsiders
      <3>2. CASE s # r
        <4>1. Cold(s) BY <3>1, <3>2 DEF PInv, InBatch
        <4> QED BY <1>11, <3>1, <3>2, <4>1
      <3> QED BY <1>10, <3>2
    <2>2. ASSUME NEW s \in Range(running') PROVE Served(s)'
      <3>1. s \in Range(running) /\ s # r /\ s \in Requests BY <1>6, Lists
      <3>2. Served(s) BY <1>1, <3>1 DEF PInv, InBatch, Pending
      <3> QED BY <1>11, <3>1, <3>2
    <2> QED BY <1>1, <2>1, <2>2 DEF InBatch, Pending
  <1>16. Slotted' /\ BeingAdmitted' /\ Promise'
    BY <1>1 DEF Slotted, BeingAdmitted, Promise, Admitting
  <1> QED BY <1>4, <1>12, <1>13, <1>14, <1>15, <1>16 DEF PInv
--------------------------------------------------------------------------------
(* Counting answers. *)

\* How often somebody stands in a list, and what one more entry adds.
LEMMA TimesType ==
  ASSUME NEW s \in Seq(Requests), NEW r
  PROVE  /\ Times(r, s) \in Nat
         /\ Times(r, s) > 0 <=> r \in Range(s)
         /\ Times(r, <<>>) = 0
         /\ \A x \in Requests : Times(r, Append(s, x)) = Times(r, s) + IF x = r THEN 1 ELSE 0
  <1> DEFINE P == {i \in 1 .. Len(s) : s[i] = r}
  <1>1. Len(s) \in Nat BY LenProperties
  <1>2. IsFiniteSet(P)
    <2>1. IsFiniteSet(1 .. Len(s)) BY <1>1, FS_Interval
    <2> QED BY <2>1, FS_Subset
  <1>3. Cardinality(P) \in Nat /\ (Cardinality(P) = 0 <=> P = {})
    BY <1>2, FS_CardinalityType, FS_EmptySet
  <1>4. \A e : e \in Range(s) <=> \E k \in 1 .. Len(s) : s[k] = e BY RangeMembers
  <1>5. P = {} <=> r \notin Range(s) BY <1>4
  <1>6. Times(r, s) = Cardinality(P) BY DEF Times
  <1>7. Times(r, <<>>) = 0
    <2>1. {i \in 1 .. Len(<<>>) : <<>>[i] = r} = {} OBVIOUS
    <2> QED BY <2>1, FS_EmptySet DEF Times
  <1>8. ASSUME NEW x \in Requests
        PROVE  Times(r, Append(s, x)) = Times(r, s) + IF x = r THEN 1 ELSE 0
    <2>1. PICK t : t = Append(s, x) OBVIOUS
    <2>2. /\ Len(t) = Len(s) + 1 /\ \A i \in 1 .. Len(s) : t[i] = s[i]
          /\ t[Len(s) + 1] = x
      BY <2>1, OnceAppend
    <2>3. CASE x = r
      <3>1. {i \in 1 .. Len(t) : t[i] = r} = P \cup {Len(s) + 1} BY <1>1, <2>2, <2>3
      <3>2. Len(s) + 1 \notin P BY <1>1
      <3>3. Cardinality(P \cup {Len(s) + 1}) = Cardinality(P) + 1 BY <1>2, <3>2, FS_AddElement
      <3> QED BY <1>6, <2>1, <2>3, <3>1, <3>3 DEF Times
    <2>4. CASE x # r
      <3>1. {i \in 1 .. Len(t) : t[i] = r} = P BY <1>1, <2>2, <2>4
      <3>2. Times(r, Append(s, x)) = Times(r, s) BY <2>1, <3>1 DEF Times
      <3> QED BY <1>3, <1>6, <2>4, <3>2
    <2> QED BY <2>3, <2>4
  <1> QED BY <1>3, <1>5, <1>6, <1>7, <1>8

\* The number of answers is a number.
LEMMA AnswersType ==
  ASSUME AnswerTypes, NEW r \in Requests
  PROVE  /\ Answers(r) \in Nat
         /\ told[r] \in Nat /\ Times(r, outputs) \in Nat /\ Times(r, owed) \in Nat
         /\ Answers(r) = told[r] + Times(r, outputs) + Times(r, owed)
  <1>1. told[r] \in Nat BY DEF AnswerTypes
  <1>2. Times(r, outputs) \in Nat /\ Times(r, owed) \in Nat BY TimesType DEF AnswerTypes
  <1> QED BY <1>1, <1>2 DEF Answers

\* A step that leaves the answers and those answered alone keeps what is said of
\* them.
LEMMA ToldKept ==
  ASSUME Told, finished' = finished, refused' = refused, late' = late, outlived \subseteq outlived',
         \A r \in Requests : Answers(r)' = Answers(r), pc' = "idle" => outputs' = <<>>
  PROVE  Told'
  BY DEF Told

--------------------------------------------------------------------------------
(* A step of the engine keeps everybody. *)

\* Whatever a step does besides admission and emission.
LEMMA WorkKeeps ==
  ASSUME PInv, PrefixWork, Kept, SecondTime
  PROVE  /\ Kept' /\ SecondTime' /\ finished' = finished /\ arrival' = arrival
         /\ outlived \subseteq outlived'
  <1>1. finished' = finished /\ arrival' = arrival /\ (Stays \/ Leaves \/ TakenBack \/ Joins)
    BY WorkMoves
  <1>2. CASE Stays
    <2>1. UNCHANGED <<waiting, running, admitted, outlived>> BY <1>2 DEF Stays
    <2>2. Everyone' = Everyone BY <2>1 DEF Everyone
    <2>3. Unserved' = Unserved
      <3>1. CASE admitted = <<>> BY <2>1, <3>1 DEF Unserved
      <3>2. CASE pc \in Admitting /\ pc' \in Admitting /\ at' = at BY <2>1, <3>2 DEF Unserved, Admitting
      <3> QED BY <1>2, <3>1, <3>2 DEF Stays
    <2> QED BY <1>1, <2>1, <2>2, <2>3 DEF Kept, SecondTime
  <1>3. CASE Leaves
    <2>1. PICK i \in 1 .. Len(running) : /\ finished[running[i]] /\ running' = RemoveAt(running, i)
                                         /\ admitted = <<>>
                                         /\ UNCHANGED <<waiting, admitted, outlived>>
      BY <1>3 DEF Leaves
    <2>2. running \in Seq(Requests) /\ Once(running) BY Lists DEF PInv, Roles
    <2>3. Range(running') = Range(running) \ {running[i]} BY <2>1, <2>2, OnceRemove DEF Once
    <2>4. Kept' BY <1>1, <2>1, <2>3 DEF Kept, Everyone
    <2>5. SecondTime' BY <1>1, <2>1 DEF SecondTime, Unserved
    <2> QED BY <1>1, <2>1, <2>4, <2>5
  <1>4. CASE TakenBack
    <2>1. running \in Seq(Requests) /\ Once(running) /\ waiting \in Seq(Requests) /\ Once(waiting)
          /\ Range(running) \cap Range(waiting) = {}
      BY Lists DEF PInv, Roles
    <2>2. PICK r \in Requests : r = Last(running) /\ r \in Range(running)
      BY <1>4, <2>1, OnceLast DEF TakenBack
    <2>3. Range(running') = Range(running) \ {r} BY <1>4, <2>1, <2>2, OnceLast DEF TakenBack
    <2>4. Range(waiting') = Range(waiting) \cup {r}
      <3>1. r \notin Range(waiting) BY <2>1, <2>2
      <3>2. waiting' = <<r>> \o waiting BY <1>4, <2>2 DEF TakenBack
      <3> QED BY <2>1, <3>1, <3>2, OnceInFront
    <2>5. admitted' = admitted /\ admitted = <<>> /\ outlived \subseteq outlived'
          /\ (~finished[r] \/ r \in outlived')
      BY <1>4, <2>2 DEF TakenBack
    <2>6. Kept' BY <1>1, <2>3, <2>4, <2>5 DEF Kept, Everyone
    <2>7. SecondTime' BY <1>1, <2>4, <2>5 DEF SecondTime, Unserved
    <2> QED BY <1>1, <2>5, <2>6, <2>7
  <1>5. CASE Joins
    <2>1. /\ running' = running \o admitted /\ admitted' = <<>> /\ waiting' = waiting
          /\ outlived' = outlived
      BY <1>5 DEF Joins
    <2>2. /\ running \in Seq(Requests) /\ Once(running) /\ admitted \in Seq(Requests) /\ Once(admitted)
          /\ Range(running) \cap Range(admitted) = {}
      BY Lists DEF PInv, Roles
    <2>3. Range(running') = Range(running) \cup Range(admitted) BY <2>1, <2>2, OnceJoin
    <2>4. Kept' BY <1>1, <2>1, <2>3 DEF Kept, Everyone
    <2>5. SecondTime' BY <1>1, <2>1 DEF SecondTime, Unserved
    <2> QED BY <1>1, <2>1, <2>4, <2>5
  <1> QED BY <1>1, <1>2, <1>3, <1>4, <1>5

\* Admission.
LEMMA AdmissionKeeps ==
  ASSUME PInv, PrefixAdmission, Kept, SecondTime
  PROVE  /\ Kept' /\ SecondTime' /\ finished' = finished /\ arrival' = arrival
         /\ outlived' = outlived
  <1>0. pc = "admit" BY DEF PrefixAdmission, Admit, AdmitAt, EvictToAdmit, EvictFor, PrefixAdmitDone,
                            StopAdmitting
  <1>1. CASE Admit
    <2>1. /\ waiting # <<>> /\ waiting' = RemoveAt(waiting, 1) /\ pc' = pc
          /\ admitted' = Append(admitted, waiting[1])
          /\ UNCHANGED <<running, finished, arrival, outlived>>
      BY <1>1 DEF Admit, AdmitAt, RoomInBatch, NextWaiting, requestVars, history
    <2>2. 1 \in 1 .. Len(waiting) BY <2>1, HeadWaits DEF NextWaiting
    <2>3. /\ waiting \in Seq(Requests) /\ Once(waiting) /\ admitted \in Seq(Requests)
          /\ waiting[1] \in Requests /\ waiting[1] \in Range(waiting)
      BY <2>2, Lists DEF PInv, Roles
    <2>4. Range(waiting') = Range(waiting) \ {waiting[1]} BY <2>1, <2>2, <2>3, OnceRemove DEF Once
    <2>5. Range(admitted') = Range(admitted) \cup {waiting[1]} BY <2>1, <2>3, OnceAppend
    <2>6. Everyone' = Everyone BY <2>1, <2>3, <2>4, <2>5 DEF Everyone
    <2>7. \A s \in Seq(Requests) : {s[i] : i \in 1 .. Len(s)} = Range(s)
      <3>1. ASSUME NEW s \in Seq(Requests) PROVE {s[i] : i \in 1 .. Len(s)} = Range(s)
        <4>1. \A e : e \in Range(s) <=> \E k \in 1 .. Len(s) : s[k] = e BY RangeMembers
        <4> QED BY <4>1
      <3> QED BY <3>1
    <2>8. Unserved = Range(waiting) \cup Range(admitted) BY <1>0, <2>3, <2>7 DEF Unserved, Admitting
    <2>9. Unserved' = Range(waiting') \cup Range(admitted')
      <3>1. admitted' \in Seq(Requests) BY <2>1, <2>3, OnceAppend
      <3> QED BY <1>0, <2>1, <2>7, <3>1 DEF Unserved, Admitting
    <2>10. Unserved' = Unserved BY <2>3, <2>4, <2>5, <2>8, <2>9
    <2> QED BY <2>1, <2>6, <2>10 DEF Kept, SecondTime
  <1>2. CASE EvictToAdmit
    <2>1. UNCHANGED <<waiting, running, admitted, at, pc, finished, arrival, outlived>>
      BY <1>2 DEF EvictToAdmit, EvictFor, requestVars, stepVars, history
    <2>2. Everyone' = Everyone /\ Unserved' = Unserved BY <2>1 DEF Everyone, Unserved
    <2> QED BY <2>1, <2>2 DEF Kept, SecondTime
  <1>3. CASE PrefixAdmitDone
    <2>1. /\ UNCHANGED <<waiting, running, admitted, finished, arrival, outlived>>
          /\ at' = 1 /\ (admitted = <<>> \/ pc' = "prefill")
      BY <1>3 DEF PrefixAdmitDone, StopAdmitting, StartWork, requestVars, history
    <2>2. Everyone' = Everyone BY <2>1 DEF Everyone
    <2>3. Unserved' = Unserved
      <3>1. CASE admitted = <<>> BY <2>1, <3>1 DEF Unserved
      <3>2. CASE pc' = "prefill"
        <4>1. Len(admitted) \in Nat BY Lists
        <4>2. {j \in 1 .. Len(admitted) : pc' \in Admitting => j >= at'}
               = {j \in 1 .. Len(admitted) : pc \in Admitting => j >= at}
          BY <1>0, <2>1, <3>2, <4>1 DEF Admitting
        <4> QED BY <2>1, <4>2 DEF Unserved
      <3> QED BY <2>1, <3>1, <3>2
    <2> QED BY <2>1, <2>2, <2>3 DEF Kept, SecondTime
  <1> QED BY <1>1, <1>2, <1>3 DEF PrefixAdmission

--------------------------------------------------------------------------------
(* One lemma per action. *)

\* A request is accepted.
LEMMA AcceptStep ==
  ASSUME SInv, NEW r \in Requests, Accept(r)
  PROVE  SInv'
  <1>1. /\ AddRequest(r) /\ UNCHANGED cacheVars /\ r \notin refused
        /\ pc' = pc /\ r \notin Range(arrival)
        /\ waiting' = Append(waiting, r) /\ arrival' = Append(arrival, r)
        /\ UNCHANGED <<running, finished, admitted, at, outlived>>
        /\ UNCHANGED <<owed, outputs, told, aborted, late, draining, refused>>
    BY DEF Accept, NewRequest, AddRequest, requestVars, stepVars, answerVars
  <1>2. PInv' BY <1>1, ArriveStep DEF SInv
  <1>3. AnswerTypes' BY <1>1 DEF SInv, AnswerTypes
  <1>4. Range(waiting') = Range(waiting) \cup {r} /\ Range(arrival') = Range(arrival) \cup {r}
    BY <1>1, Lists, OnceAppend DEF SInv
  <1>5. Known' BY <1>1, <1>4 DEF SInv, Known
  <1>6. Kept' BY <1>1, <1>4 DEF SInv, Kept, Everyone
  <1>7. ~finished[r] BY <1>1 DEF SInv, Known
  <1>8. SecondTime' BY <1>1, <1>4, <1>7 DEF SInv, SecondTime, Unserved
  <1>9. Told'
    <2>1. \A s : Answers(s)' = Answers(s) BY <1>1 DEF Answers, Times
    <2> QED BY <1>1, <2>1 DEF SInv, Told
  <1> QED BY <1>2, <1>3, <1>5, <1>6, <1>8, <1>9 DEF SInv

\* A request is refused, and its caller is owed the notice.
LEMMA RefuseStep ==
  ASSUME SInv, NEW r \in Requests, Refuse(r)
  PROVE  SInv'
  <1>1. /\ r \notin Range(arrival) \cup refused
        /\ owed' = Append(owed, r) /\ refused' = refused \cup {r}
        /\ UNCHANGED prefixVars
        /\ UNCHANGED <<outputs, told, aborted, late, draining>>
    BY DEF Refuse, NewRequest
  <1>2. UNCHANGED <<waiting, running, admitted, at, pc, finished, arrival, outlived>>
    BY <1>1 DEF prefixVars, vars, requestVars, stepVars, history
  <1>3. PInv' BY <1>1, PrefixStutters DEF SInv
  <1>4. owed \in Seq(Requests) /\ owed' \in Seq(Requests) BY <1>1, OnceAppend DEF SInv, AnswerTypes
  <1>5. AnswerTypes' BY <1>1, <1>4 DEF SInv, AnswerTypes
  <1>6. Known' BY <1>1, <1>2 DEF SInv, Known
  <1>7. Kept' BY <1>2 DEF SInv, Kept, Everyone
  <1>8. SecondTime' BY <1>2 DEF SInv, SecondTime, Unserved
  <1>9. Told'
    <2>1. ~finished[r] /\ r \notin refused BY <1>1 DEF SInv, Known
    <2>2. ASSUME NEW s \in Requests
          PROVE  Answers(s)' = Answers(s) + IF r = s THEN 1 ELSE 0
      <3>1. Answers(s)' = told[s] + Times(s, outputs) + Times(s, owed') BY <1>1 DEF Answers, Times
      <3>2. Times(s, owed') = Times(s, owed) + IF r = s THEN 1 ELSE 0 BY <1>1, <1>4, TimesType
      <3> QED BY <3>1, <3>2, AnswersType DEF SInv
    <2>3. \A s \in Requests : Answers(s) \in Nat BY AnswersType DEF SInv
    <2>4. Answers(r) = 0 BY <2>1, <2>3 DEF SInv, Told
    <2>5. ASSUME NEW s \in Requests
          PROVE  /\ Answers(s)' > 0 <=> finished'[s] \/ s \in refused'
                 /\ s \notin outlived' \cup late' => Answers(s)' <= 1
      <3>1. CASE s = r BY <1>1, <1>2, <2>1, <2>2, <2>4, <3>1
      <3>2. CASE s # r
        <4>1. Answers(s)' = Answers(s) BY <2>2, <2>3, <3>2
        <4> QED BY <1>1, <1>2, <3>2, <4>1 DEF SInv, Told
      <3> QED BY <3>1, <3>2
    <2> QED BY <1>1, <1>2, <2>5 DEF SInv, Told
  <1> QED BY <1>3, <1>5, <1>6, <1>7, <1>8, <1>9 DEF SInv

\* A caller gives up: it is answered, for the first time unless its request had
\* finished.
LEMMA AbortAnswers ==
  ASSUME SInv, pc = "idle", NEW r \in Requests, r \in Range(arrival), FinishAborted(r),
         UNCHANGED <<pc, outputs, told, refused, draining, outlived>>
  PROVE  AnswerTypes' /\ Told'
  <1>1. /\ finished' = [finished EXCEPT ![r] = TRUE] /\ owed' = Append(owed, r)
        /\ aborted' = aborted \cup {r}
        /\ late' = IF finished[r] THEN late \cup {r} ELSE late
    BY DEF FinishAborted
  <1>2. owed \in Seq(Requests) /\ owed' \in Seq(Requests) BY <1>1, OnceAppend DEF SInv, AnswerTypes
  <1>3. AnswerTypes' BY <1>1, <1>2 DEF SInv, AnswerTypes
  <1>4. finished \in [Requests -> BOOLEAN] BY DEF SInv, PInv, TypeOK
  <1>5. r \notin refused BY DEF SInv, Known
  <1>6. ASSUME NEW s \in Requests
        PROVE  Answers(s)' = Answers(s) + IF r = s THEN 1 ELSE 0
    <2>1. Answers(s)' = told[s] + Times(s, outputs) + Times(s, owed') BY DEF Answers, Times
    <2>2. Times(s, owed') = Times(s, owed) + IF r = s THEN 1 ELSE 0 BY <1>1, <1>2, TimesType
    <2> QED BY <2>1, <2>2, AnswersType DEF SInv
  <1>7. \A s \in Requests : Answers(s) \in Nat BY AnswersType DEF SInv
  <1>8. ASSUME NEW s \in Requests
        PROVE  /\ Answers(s)' > 0 <=> finished'[s] \/ s \in refused'
               /\ s \notin outlived' \cup late' => Answers(s)' <= 1
    <2>1. CASE s = r
      <3>1. Answers(s)' = Answers(s) + 1 BY <1>6, <2>1
      <3>2. finished'[s] BY <1>1, <1>4, <2>1
      <3>3. ~finished[s] => Answers(s) = 0 BY <1>5, <1>7, <2>1 DEF SInv, Told
      <3>4. finished[s] => s \in late' BY <1>1, <2>1
      <3> QED BY <1>7, <3>1, <3>2, <3>3, <3>4
    <2>2. CASE s # r
      <3>1. Answers(s)' = Answers(s) BY <1>6, <1>7, <2>2
      <3>2. finished'[s] = finished[s] BY <1>1, <1>4, <2>2
      <3>3. s \in late' <=> s \in late BY <1>1, <2>2
      <3> QED BY <3>1, <3>2, <3>3 DEF SInv, Told
    <2> QED BY <2>1, <2>2
  <1>9. Told' BY <1>8 DEF SInv, Told
  <1> QED BY <1>3, <1>9

\* abort(), of a request that is queued or one that is running.
LEMMA AbortStep ==
  ASSUME SInv, Abort, UNCHANGED <<draining, refused>>
  PROVE  SInv'
  <1>1. PICK r \in Requests : AbortWaiting(r) \/ AbortRunning(r) BY DEF Abort
  <1>2. /\ pc = "idle" /\ FinishAborted(r) /\ r \in Range(running) \cup Range(waiting)
        /\ UNCHANGED <<pc, outputs, told, admitted, at, arrival, outlived>>
    BY <1>1 DEF AbortWaiting, AbortRunning, stepVars, history
  <1>3. PInv' BY <1>1, AbortWaitingStep, AbortRunningStep DEF SInv
  <1>4. r \in Range(arrival) BY <1>2 DEF SInv, PInv, Roles
  <1>5. AnswerTypes' /\ Told' BY <1>2, <1>4, AbortAnswers
  <1>6. finished' = [finished EXCEPT ![r] = TRUE] /\ finished \in [Requests -> BOOLEAN]
    BY <1>2 DEF FinishAborted, SInv, PInv, TypeOK
  <1>7. Known' BY <1>2, <1>4, <1>6 DEF SInv, Known
  <1>8. /\ waiting \in Seq(Requests) /\ Once(waiting) /\ running \in Seq(Requests) /\ Once(running)
        /\ Range(running) \cap Range(waiting) = {}
    BY Lists DEF SInv, PInv, Roles
  <1>9. /\ Range(waiting') = Range(waiting) \ {r}
        /\ Range(running') = Range(running) \ {r}
    <2>1. CASE AbortWaiting(r)
      <3>1. waiting' = Without(waiting, r) /\ running' = running /\ r \in Range(waiting)
        BY <2>1 DEF AbortWaiting
      <3> QED BY <1>8, <3>1, OnceWithout
    <2>2. CASE AbortRunning(r)
      <3>1. running' = Without(running, r) /\ waiting' = waiting /\ r \notin Range(waiting)
        BY <2>2 DEF AbortRunning
      <3> QED BY <1>8, <3>1, OnceWithout
    <2> QED BY <1>1, <2>1, <2>2
  <1>10. Range(arrival) \subseteq Requests
    <2>0. arrival \in Seq(Requests) BY Lists DEF SInv
    <2>1. \A e : e \in Range(arrival) <=> \E k \in 1 .. Len(arrival) : arrival[k] = e
      BY <2>0, RangeMembers
    <2>2. \A k \in 1 .. Len(arrival) : arrival[k] \in Requests BY <2>0, ElementOfSeq
    <2> QED BY <2>1, <2>2
  <1>11. Kept'
    <2>1. ASSUME NEW s \in Range(arrival'), ~finished'[s] PROVE s \in Everyone'
      <3>1. s \in Range(arrival) /\ s \in Requests /\ s # r BY <1>2, <1>6, <1>10, <2>1
      <3>2. ~finished[s] BY <1>6, <2>1, <3>1
      <3>3. s \in Everyone BY <3>1, <3>2 DEF SInv, Kept
      <3> QED BY <1>2, <1>9, <3>1, <3>3 DEF Everyone
    <2> QED BY <2>1 DEF Kept
  <1>12. SecondTime'
    <2>1. admitted = <<>> /\ admitted' = <<>> BY <1>2 DEF SInv, PInv, InStep, Admitting
    <2>2. ASSUME NEW s \in Unserved', finished'[s] PROVE s \in outlived'
      <3>1. s \in Range(waiting) /\ s # r BY <1>9, <2>1, <2>2 DEF Unserved
      <3>2. s \in Requests BY <3>1, Lists DEF SInv
      <3>3. finished[s] BY <1>6, <2>2, <3>1, <3>2
      <3> QED BY <1>2, <3>1, <3>3 DEF SInv, SecondTime, Unserved
    <2> QED BY <2>2 DEF SecondTime
  <1> QED BY <1>3, <1>5, <1>7, <1>11, <1>12 DEF SInv

\* step() takes the notices over.
LEMMA BeginCancelling ==
  ASSUME SInv, BeginCancelStep, UNCHANGED <<draining, refused>>
  PROVE  SInv'
  <1>1. /\ pc = "idle" /\ pc' = "retire" /\ outputs' = owed /\ owed' = <<>>
        /\ UNCHANGED <<poolVars, cacheVars, requestVars, waiting, running, stepVars, history>>
        /\ UNCHANGED <<told, aborted, late, draining, refused>>
    BY DEF BeginCancelStep, NoticesLeft
  <1>2. PInv' BY <1>1, BeginPrefixStep DEF SInv
  <1>3. UNCHANGED <<waiting, running, admitted, at, finished, arrival, outlived>>
    BY <1>1 DEF requestVars, stepVars, history
  <1>4. AnswerTypes' BY <1>1 DEF SInv, AnswerTypes
  <1>5. Known' BY <1>1, <1>3 DEF SInv, Known
  <1>6. Kept' BY <1>3 DEF SInv, Kept, Everyone
  <1>7. SecondTime' BY <1>1, <1>3 DEF SInv, SecondTime, Unserved, Admitting
  <1>8. Told'
    <2>1. outputs = <<>> BY <1>1 DEF SInv, Told
    <2>2. ASSUME NEW r \in Requests PROVE Answers(r)' = Answers(r)
      <3>1. Answers(r)' = told[r] + Times(r, owed) + Times(r, <<>>) BY <1>1 DEF Answers, Times
      <3>2. <<>> \in Seq(Requests) OBVIOUS
      <3>3. Times(r, <<>>) = 0 BY <3>2, TimesType
      <3>4. Answers(r) = told[r] + Times(r, <<>>) + Times(r, owed) BY <2>1, AnswersType DEF SInv
      <3> QED BY <3>1, <3>3, <3>4, AnswersType DEF SInv
    <2> QED BY <1>1, <1>3, <2>2, ToldKept DEF SInv
  <1> QED BY <1>2, <1>4, <1>5, <1>6, <1>7, <1>8 DEF SInv

\* The engine works, and when the step returns its outputs are read.
LEMMA CancelWorkStep ==
  ASSUME SInv, CancelWork, UNCHANGED <<draining, refused>>
  PROVE  SInv'
  <1>1. /\ PrefixAdmission \/ PrefixWork
        /\ IF pc' = "idle"
           THEN told' = [r \in Requests |-> told[r] + Times(r, outputs)] /\ outputs' = <<>>
           ELSE UNCHANGED <<told, outputs>>
        /\ UNCHANGED <<owed, aborted, late, draining, refused>>
    BY DEF CancelWork
  <1>2. PInv'
    <2>1. CASE PrefixWork BY <2>1, WorkSteps DEF SInv
    <2>2. CASE PrefixAdmission
      <3>1. \/ AdmitAt(NextWaiting) /\ UNCHANGED cacheVars
            \/ EvictFor(NextWaiting) \/ StopAdmitting(NextWaiting)
        BY <2>2 DEF PrefixAdmission, Admit, EvictToAdmit, PrefixAdmitDone
      <3> QED BY <3>1, HeadWaits, AdmissionSteps DEF SInv
    <2> QED BY <1>1, <2>1, <2>2
  <1>3. Kept' /\ SecondTime' /\ finished' = finished /\ arrival' = arrival /\ outlived \subseteq outlived'
    BY <1>1, WorkKeeps, AdmissionKeeps DEF SInv
  <1>4. Known' BY <1>1, <1>3 DEF SInv, Known
  <1>5. told \in [Requests -> Nat] /\ \A r \in Requests : Times(r, outputs) \in Nat
    BY AnswersType DEF SInv, AnswerTypes
  <1>6. AnswerTypes'
    <2>1. told' \in [Requests -> Nat]
      <3>1. CASE pc' # "idle" BY <1>1, <1>5, <3>1
      <3>2. CASE pc' = "idle"
        <4>1. told' = [r \in Requests |-> told[r] + Times(r, outputs)] BY <1>1, <3>2
        <4>2. \A r \in Requests : told[r] + Times(r, outputs) \in Nat BY <1>5
        <4> QED BY <4>1, <4>2
      <3> QED BY <3>1, <3>2
    <2>2. outputs' \in Seq(Requests)
      <3>1. <<>> \in Seq(Requests) /\ outputs \in Seq(Requests) BY DEF SInv, AnswerTypes
      <3>2. outputs' = <<>> \/ outputs' = outputs BY <1>1
      <3> QED BY <3>1, <3>2
    <2> QED BY <1>1, <2>1, <2>2 DEF SInv, AnswerTypes
  <1>7. ASSUME NEW r \in Requests PROVE Answers(r)' = Answers(r)
    <2>1. CASE pc' # "idle" BY <1>1, <2>1 DEF Answers, Times
    <2>2. CASE pc' = "idle"
      <3>1. told'[r] = told[r] + Times(r, outputs) BY <1>1, <1>5, <2>2
      <3>2. Answers(r)' = told'[r] + Times(r, <<>>) + Times(r, owed) BY <1>1, <2>2 DEF Answers, Times
      <3>3. <<>> \in Seq(Requests) OBVIOUS
      <3>4. Times(r, <<>>) = 0 BY <3>3, TimesType
      <3> QED BY <3>1, <3>2, <3>4, AnswersType DEF SInv
    <2> QED BY <2>1, <2>2
  <1>8. pc' = "idle" => outputs' = <<>> BY <1>1
  <1>9. Told' BY <1>1, <1>3, <1>7, <1>8, ToldKept DEF SInv
  <1> QED BY <1>2, <1>3, <1>4, <1>6, <1>9 DEF SInv

\* Who is handed a token, and what that does to its stream.
LEMMA HandedTo ==
  ASSUME PInv, PrefixEmit
  PROVE  /\ states[at] \in Requests /\ states[at] \in Range(running) \cup Range(admitted)
         /\ finished[states[at]] => pc = "emit_prefill" /\ states[at] \in Unserved
         /\ finished' \in [Requests -> BOOLEAN]
         /\ finished[states[at]] => finished'[states[at]]
         /\ \A s \in Requests : s # states[at] => finished'[s] = finished[s]
         /\ Unserved' \subseteq Unserved
         /\ states[at] \notin Unserved'
         /\ pc' # "idle"
         /\ UNCHANGED <<waiting, running, admitted, arrival, outlived>>
  <1>1. /\ pc \in {"emit_prefill", "emit_decode"} /\ at <= Len(states) /\ at' = at + 1
        /\ pc' = IF pc = "emit_prefill" THEN "prefill" ELSE pc
        /\ UNCHANGED <<waiting, running, admitted, arrival, outlived, states>>
    BY DEF PrefixEmit, history
  <1>2. at \in 1 .. Len(states) /\ at \in Nat BY <1>1, Lists
  <1>3. PICK r \in Requests : r = states[at] BY <1>2, Lists
  <1>4. PICK token \in Vocab : Deliver(r, token) BY <1>3 DEF PrefixEmit
  <1>5. /\ finished \in [Requests -> BOOLEAN] /\ EndsWith(r, token) \in BOOLEAN
        /\ finished' = [finished EXCEPT ![r] = @ \/ EndsWith(r, token)]
    BY <1>4 DEF PInv, TypeOK, Deliver, EndsWith
  <1>6. /\ finished' \in [Requests -> BOOLEAN] /\ (finished[r] => finished'[r])
        /\ \A s \in Requests : s # r => finished'[s] = finished[s]
    BY <1>5
  <1>7. CASE pc = "emit_prefill"
    <2>1. /\ states = admitted /\ at \in 1 .. Len(admitted) /\ r \in Range(admitted)
          /\ \A i \in 1 .. Len(admitted) : i # at => admitted[i] # r
      BY <1>1, <1>3, <1>7, AtHand DEF Admitting
    <2>2. r \in Unserved BY <1>2, <1>3, <1>7, <2>1 DEF Unserved
    <2>3. Range(admitted) \cap Range(waiting) = {} BY DEF PInv, Roles
    <2>4. Unserved' = Range(waiting) \cup {admitted[i] : i \in {j \in 1 .. Len(admitted) : j >= at + 1}}
      BY <1>1, <1>7 DEF Unserved, Admitting
    <2>5. Unserved = Range(waiting) \cup {admitted[i] : i \in {j \in 1 .. Len(admitted) : j >= at}}
      BY <1>7 DEF Unserved, Admitting
    <2>6. Len(admitted) \in Nat BY Lists
    <2>7. {j \in 1 .. Len(admitted) : j >= at + 1} \subseteq {j \in 1 .. Len(admitted) : j >= at}
      BY <1>2, <2>6
    <2>8. \A i \in {j \in 1 .. Len(admitted) : j >= at + 1} : admitted[i] # r BY <1>2, <2>1, <2>6
    <2> QED BY <1>1, <1>3, <1>6, <1>7, <2>1, <2>2, <2>3, <2>4, <2>5, <2>7, <2>8
  <1>8. CASE pc = "emit_decode"
    <2>1. Range(states) \subseteq Range(running) BY <1>8 DEF PInv, InStep
    <2>2. r \in Range(states) BY <1>2, <1>3, Lists
    <2>3. r \in Pending BY <1>2, <1>3, <1>8 DEF Pending
    <2>4. ~finished[r] BY <2>1, <2>2, <2>3 DEF PInv, InBatch, Decoded
    <2>5. admitted = <<>> BY <1>8 DEF PInv, InStep, Admitting
    <2>6. Unserved' = Range(waiting) /\ Unserved = Range(waiting) BY <1>1, <2>5 DEF Unserved
    <2>7. r \notin Range(waiting) BY <2>1, <2>2 DEF PInv, Roles
    <2> QED BY <1>1, <1>3, <1>6, <1>8, <2>1, <2>2, <2>4, <2>6, <2>7
  <1> QED BY <1>1, <1>7, <1>8

\* A token is handed out; the last one of a stream is the answer.
LEMMA CancelEmitStep ==
  ASSUME SInv, CancelEmit, UNCHANGED <<draining, refused>>
  PROVE  SInv'
  <1>1. /\ PrefixEmit
        /\ outputs' = IF finished'[states[at]] THEN Append(outputs, states[at]) ELSE outputs
        /\ UNCHANGED <<owed, told, aborted, late, draining, refused>>
    BY DEF CancelEmit
  <1>2. PInv' BY <1>1, EmitSteps DEF SInv
  <1>3. PICK r \in Requests :
            /\ r = states[at] /\ r \in Range(running) \cup Range(admitted)
            /\ finished[r] => r \in Unserved
            /\ finished' \in [Requests -> BOOLEAN]
            /\ finished[r] => finished'[r]
            /\ \A s \in Requests : s # r => finished'[s] = finished[s]
            /\ Unserved' \subseteq Unserved /\ r \notin Unserved'
            /\ pc' # "idle"
            /\ UNCHANGED <<waiting, running, admitted, arrival, outlived>>
    BY <1>1, HandedTo DEF SInv
  <1>4. outputs \in Seq(Requests) /\ outputs' = IF finished'[r] THEN Append(outputs, r) ELSE outputs
    BY <1>1, <1>3 DEF SInv, AnswerTypes
  <1>5. AnswerTypes'
    <2>1. outputs' \in Seq(Requests) BY <1>4, OnceAppend
    <2> QED BY <1>1, <2>1 DEF SInv, AnswerTypes
  <1>6. r \in Range(arrival) /\ r \notin refused
    BY <1>3 DEF SInv, PInv, Roles, Known
  <1>7. Known'
    <2>1. ASSUME NEW s \in Requests, finished'[s] PROVE s \in Range(arrival)
      BY <1>3, <1>6, <2>1 DEF SInv, Known
    <2> QED BY <1>1, <1>3, <2>1 DEF SInv, Known
  <1>8. Range(arrival) \subseteq Requests
    <2>0. arrival \in Seq(Requests) BY Lists DEF SInv
    <2>1. \A e : e \in Range(arrival) <=> \E k \in 1 .. Len(arrival) : arrival[k] = e
      BY <2>0, RangeMembers
    <2>2. \A k \in 1 .. Len(arrival) : arrival[k] \in Requests BY <2>0, ElementOfSeq
    <2> QED BY <2>1, <2>2
  <1>9. Kept'
    <2>1. Everyone' = Everyone BY <1>3 DEF Everyone
    <2>2. ASSUME NEW s \in Range(arrival), ~finished'[s] PROVE s \in Everyone
      <3>1. s \in Requests BY <1>8
      <3>2. ~finished[s] BY <1>3, <2>2, <3>1
      <3> QED BY <3>2 DEF SInv, Kept
    <2> QED BY <1>3, <2>1, <2>2 DEF Kept
  <1>10. SecondTime'
    <2>1. ASSUME NEW s \in Unserved', finished'[s] PROVE s \in outlived'
      <3>1. s \in Unserved /\ s # r BY <1>3
      <3>2. s \in Requests BY <3>1, Lists DEF SInv, Unserved
      <3>3. finished[s] BY <1>3, <2>1, <3>1, <3>2
      <3> QED BY <1>3, <3>1, <3>3 DEF SInv, SecondTime
    <2> QED BY <2>1 DEF SecondTime
  <1>11. finished[r] => r \in outlived BY <1>3 DEF SInv, SecondTime
  <1>12. \A s \in Requests : Answers(s) \in Nat BY AnswersType DEF SInv
  <1>13. ASSUME NEW s \in Requests
         PROVE  Answers(s)' = Answers(s) + IF s = r /\ finished'[r] THEN 1 ELSE 0
    <2>1. Answers(s)' = told[s] + Times(s, outputs') + Times(s, owed) BY <1>1 DEF Answers, Times
    <2>2. Times(s, outputs') = Times(s, outputs) + IF s = r /\ finished'[r] THEN 1 ELSE 0
      <3>1. CASE finished'[r] BY <1>4, <3>1, TimesType
      <3>2. CASE ~finished'[r]
        <4>1. Times(s, outputs') = Times(s, outputs) BY <1>4, <3>2
        <4> QED BY <3>2, <4>1, AnswersType DEF SInv
      <3> QED BY <3>1, <3>2
    <2> QED BY <2>1, <2>2, AnswersType DEF SInv
  <1>14. ASSUME NEW s \in Requests
         PROVE  /\ Answers(s)' > 0 <=> finished'[s] \/ s \in refused'
                /\ s \notin outlived' \cup late' => Answers(s)' <= 1
    <2>1. CASE s = r /\ finished'[r]
      <3>1. Answers(s)' = Answers(s) + 1 BY <1>13, <2>1
      <3>2. ~finished[s] => Answers(s) = 0 BY <1>6, <1>12, <2>1 DEF SInv, Told
      <3> QED BY <1>3, <1>11, <1>12, <2>1, <3>1, <3>2
    <2>2. CASE ~(s = r /\ finished'[r])
      <3>1. Answers(s)' = Answers(s) BY <1>12, <1>13, <2>2
      <3>2. finished'[s] <=> finished[s] BY <1>3, <2>2
      <3> QED BY <1>1, <1>3, <3>1, <3>2 DEF SInv, Told
    <2> QED BY <2>1, <2>2
  <1>15. Told' BY <1>3, <1>14 DEF Told
  <1> QED BY <1>2, <1>5, <1>7, <1>9, <1>10, <1>15 DEF SInv

\* What touches neither the engine nor anybody's answers.
LEMMA ShedStutters ==
  ASSUME SInv, UNCHANGED <<cancelVars, refused>>, draining' \in BOOLEAN
  PROVE  SInv'
  <1>1. UNCHANGED prefixVars /\ UNCHANGED <<owed, outputs, told, aborted, late, refused>>
    BY DEF cancelVars, answerVars
  <1>2. UNCHANGED <<waiting, running, admitted, at, pc, finished, arrival, outlived>>
    BY <1>1 DEF prefixVars, vars, requestVars, stepVars, history
  <1>3. PInv' BY <1>1, PrefixStutters DEF SInv
  <1>4. AnswerTypes' BY <1>1 DEF SInv, AnswerTypes
  <1>5. Known' /\ Kept' /\ SecondTime'
    BY <1>1, <1>2 DEF SInv, Known, Kept, Everyone, SecondTime, Unserved
  <1>6. Told'
    <2>1. \A s : Answers(s)' = Answers(s) BY <1>1 DEF Answers, Times
    <2> QED BY <1>1, <1>2, <2>1 DEF SInv, Told
  <1> QED BY <1>3, <1>4, <1>5, <1>6 DEF SInv

--------------------------------------------------------------------------------
(* The invariant, and what follows from it. *)

\* An engine that has just been built.
LEMMA InitShed == ShedInit => SInv
  <1> SUFFICES ASSUME ShedInit PROVE SInv
    OBVIOUS
  <1>1. /\ PrefixInit /\ owed = <<>> /\ outputs = <<>> /\ told = [r \in Requests |-> 0]
        /\ aborted = {} /\ late = {} /\ draining = FALSE /\ refused = {}
    BY DEF ShedInit, CancelInit
  <1>2. PInv BY <1>1, InitPrefix
  <1>3. /\ arrival = <<>> /\ waiting = <<>> /\ admitted = <<>> /\ finished = [r \in Requests |-> FALSE]
    BY <1>1 DEF PrefixInit, Init
  <1>4. AnswerTypes
    <2>1. owed \in Seq(Requests) /\ outputs \in Seq(Requests) BY <1>1
    <2> QED BY <1>1, <2>1 DEF AnswerTypes
  <1>5. Range(<<>>) = {} /\ Len(<<>>) = 0 BY DEF Range
  <1>6. Known /\ Kept /\ SecondTime BY <1>1, <1>3, <1>5 DEF Known, Kept, SecondTime, Unserved
  <1>7. Told
    <2>1. ASSUME NEW r \in Requests PROVE Answers(r) = 0
      <3>1. <<>> \in Seq(Requests) OBVIOUS
      <3>2. Times(r, <<>>) = 0 BY <3>1, TimesType
      <3> QED BY <1>1, <3>2 DEF Answers
    <2> QED BY <1>1, <1>3, <2>1 DEF Told
  <1> QED BY <1>2, <1>4, <1>6, <1>7 DEF SInv

\* No step, and nothing a caller does, breaks the invariant.
LEMMA ShedSteps == SInv /\ [ShedNext]_shedVars => SInv'
  <1> SUFFICES ASSUME SInv, [ShedNext]_shedVars PROVE SInv'
    OBVIOUS
  <1>1. CASE ShedStep
    <2>1. UNCHANGED <<draining, refused>> BY <1>1 DEF ShedStep
    <2> QED BY <1>1, <2>1, BeginCancelling, CancelWorkStep, CancelEmitStep DEF ShedStep, CancelStep
  <1>2. ASSUME NEW r \in Requests, Accept(r) PROVE SInv' BY <1>2, AcceptStep
  <1>3. ASSUME NEW r \in Requests, Refuse(r) PROVE SInv' BY <1>3, RefuseStep
  <1>4. CASE Abort /\ UNCHANGED <<draining, refused>> BY <1>4, AbortStep
  <1>5. CASE Drain BY <1>5, ShedStutters DEF Drain
  <1>6. CASE UNCHANGED shedVars
    <2>1. UNCHANGED <<cancelVars, refused>> /\ draining' \in BOOLEAN
      BY <1>6 DEF shedVars, SInv, AnswerTypes
    <2> QED BY <2>1, ShedStutters
  <1> QED BY <1>1, <1>2, <1>3, <1>4, <1>5, <1>6 DEF ShedNext

\* It always holds.
LEMMA ShedInvariant == ShedSpec => []SInv
  BY InitShed, ShedSteps, PTL DEF ShedSpec

\* It says that everybody is answered, and as often as should be.
LEMMA ShedFollows == SInv => ShedExact
  <1> SUFFICES ASSUME SInv PROVE ShedExact
    OBVIOUS
  <1>1. PrefixTypeOK /\ CountsExact BY PoolFollows DEF SInv
  <1>2. ShedTypeOK BY <1>1 DEF ShedTypeOK, CancelTypeOK, SInv, AnswerTypes
  <1>3. ASSUME NEW r \in Requests, r \in Range(arrival), Answers(r) = 0
        PROVE  r \in Range(Line)
    <2>1. ~finished[r] BY <1>3 DEF SInv, Told
    <2>2. r \in Everyone BY <1>3, <2>1 DEF SInv, Kept
    <2>3. /\ running \in Seq(Requests) /\ Once(running) /\ admitted \in Seq(Requests) /\ Once(admitted)
          /\ waiting \in Seq(Requests) /\ Once(waiting)
          /\ Range(running) \cap Range(admitted) = {}
          /\ (Range(running) \cup Range(admitted)) \cap Range(waiting) = {}
      BY Lists DEF SInv, PInv, Roles
    <2>4. PICK s : s = running \o admitted OBVIOUS
    <2>5. s \in Seq(Requests) /\ Once(s) /\ Range(s) = Range(running) \cup Range(admitted)
      BY <2>3, <2>4, OnceJoin
    <2>6. Range(s \o waiting) = Range(s) \cup Range(waiting) BY <2>3, <2>5, OnceJoin
    <2> QED BY <2>2, <2>4, <2>5, <2>6 DEF Line, Everyone
  <1>4. AnsweredOnce BY <1>3 DEF AnsweredOnce, SInv, Told
  <1> QED BY <1>1, <1>2, <1>4 DEF ShedExact

\* It says that a drained engine owes nobody anything it will not say.
LEMMA DrainFollows == SInv => DrainedCutsNobody
  <1> SUFFICES ASSUME SInv, pc = "idle", drained, NEW r \in Range(arrival)
               PROVE  told[r] > 0 \/ r \in Range(owed)
    BY DEF DrainedCutsNobody
  <1>1. waiting = <<>> /\ running = <<>> /\ admitted = <<>>
    BY DEF drained, SInv, PInv, InStep, Admitting
  <1>2. Everyone = {} BY <1>1 DEF Everyone, Range
  <1>3. finished[r] BY <1>2 DEF SInv, Kept
  <1>4. r \in Requests
    <2>0. arrival \in Seq(Requests) BY Lists DEF SInv
    <2>1. PICK k \in 1 .. Len(arrival) : arrival[k] = r BY <2>0, RangeMembers
    <2> QED BY <2>0, <2>1, ElementOfSeq
  <1>5. Answers(r) > 0 /\ outputs = <<>> BY <1>3, <1>4 DEF SInv, Told
  <1>6. Times(r, outputs) = 0
    <2>1. <<>> \in Seq(Requests) OBVIOUS
    <2> QED BY <1>5, <2>1, TimesType
  <1>7. told[r] > 0 \/ Times(r, owed) > 0 BY <1>4, <1>5, <1>6, AnswersType DEF SInv
  <1>8. owed \in Seq(Requests) BY DEF SInv, AnswerTypes
  <1> QED BY <1>7, <1>8, TimesType

\* Whatever callers abort, at whatever moment, and whoever is refused: the pool
\* stays exact, everybody is answered exactly when its request has ended or been
\* refused, and once unless its request was preempted or aborted after its end.
THEOREM AnswersAsDue == ShedSpec => []ShedExact
  BY ShedFollows, ShedInvariant, PTL

\* A driver that stops as soon as drained says so has told everybody it accepted
\* how its stream ended, or still owes it the notice of an abort.
THEOREM DrainIsClean == ShedSpec => []DrainedCutsNobody
  BY DrainFollows, ShedInvariant, PTL

\* Aborts between steps, of requests that share blocks with others, leave the
\* cache honest and everybody else's context its own.
THEOREM AbortSpoilsNobody == ShedSpec => [](CacheIsHonest /\ ReadsOwnContext)
  <1>1. SInv => CacheIsHonest /\ ReadsOwnContext
    <2>1. SInv => CacheIsHonest BY DEF SInv, PInv, MemInv, Honest, CacheIsHonest
    <2>2. SInv => ReadsOwnContext BY ContextFollows DEF SInv
    <2> QED BY <2>1, <2>2
  <1> QED BY <1>1, ShedInvariant, PTL

================================================================================

------------------------------ MODULE PagedProofs ------------------------------
(***************************************************************************)
(* Theorems about PagedEngine, for every pool, batch and set of requests:  *)
(* types and the order of service; that no block leaks, is owned twice or  *)
(* is returned twice; that memory follows service and admission's promises *)
(* are kept; that streams end where they should.                           *)
(***************************************************************************)
EXTENDS PagedEngine, SequenceFacts, FiniteSetTheorems

--------------------------------------------------------------------------------
(* The inductive invariant. *)

\* A request arrives once.
ArrivedOnce == \A k, l \in 1 .. Len(arrival) : arrival[k] = arrival[l] => k = l

\* Whoever is in the engine has arrived.
LineArrived == \A i \in 1 .. Len(Line) : \E k \in 1 .. Len(arrival) : arrival[k] = Line[i]

\* step() lets requests in only between admission and the join of the batch,
\* and grows the tables of the oldest running requests.
StepLocals ==
    /\ pc \notin {"admit", "prefill", "emit_prefill", "raised"} => admitted = <<>>
    /\ pc = "grow" => /\ Len(states) <= Len(running)
                      /\ \A i \in 1 .. Len(states) : states[i] = running[i]
    /\ pc # "fill"

IInv == TypeOK /\ StepLocals /\ ArrivedOnce /\ LineArrived /\ ArrivalOrder /\ NoneLost

RunningOnce == \A i, j \in 1 .. Len(running) : running[i] = running[j] => i = j

--------------------------------------------------------------------------------
(* The operators the actions are built from. *)

\* How many blocks a number of tokens needs is a natural number.
LEMMA BlocksNeededType == \A n \in Nat : BlocksNeeded(n) \in Nat
  <1> SUFFICES ASSUME NEW n \in Nat PROVE BlocksNeeded(n) \in Nat
    OBVIOUS
  <1>1. BlockSize \in Nat /\ BlockSize > 0 BY PoolAssumption
  <1>2. n + BlockSize - 1 \in Nat BY <1>1
  <1>3. (n + BlockSize - 1) \div BlockSize \in Nat BY <1>1, <1>2
  <1> QED BY <1>3 DEF BlocksNeeded

\* Prompt and output together have a length.
LEMMA TotalLenType == TypeOK => \A r \in Requests : TotalLen(r) \in Nat
  <1> SUFFICES ASSUME TypeOK, NEW r \in Requests PROVE TotalLen(r) \in Nat
    OBVIOUS
  <1>1. Prompt[r] \in Seq(Vocab) BY EngineAssumption
  <1>2. output_token_ids[r] \in Seq(Vocab) BY DEF TypeOK
  <1>3. \A m, n \in Nat : m + n \in Nat OBVIOUS
  <1>4. Len(Prompt[r]) \in Nat BY <1>1, LenProperties
  <1>5. Len(output_token_ids[r]) \in Nat BY <1>2, LenProperties
  <1>6. Len(Prompt[r]) + Len(output_token_ids[r]) \in Nat BY <1>3, <1>4, <1>5, Zenon
  <1> QED BY <1>6 DEF TotalLen

\* _grow() never asks for a negative number of blocks.
LEMMA MissingType ==
  TypeOK => \A r \in Requests : \A n \in Nat : Missing(r, n) \in Nat
  <1> SUFFICES ASSUME TypeOK, NEW r \in Requests, NEW n \in Nat PROVE Missing(r, n) \in Nat
    OBVIOUS
  <1>1. stored[r] + n \in Nat BY DEF TypeOK
  <1>2. BlocksNeeded(stored[r] + n) \in Nat BY <1>1, BlocksNeededType
  <1>3. block_table[r] \in Seq(Blocks) BY DEF TypeOK
  <1>4. Len(block_table[r]) \in Nat BY <1>3, LenProperties
  <1> QED BY <1>2, <1>4 DEF Missing

\* Taking a member out of a list leaves a list of the same things.
LEMMA WithoutType ==
  ASSUME NEW S, NEW s \in Seq(S), NEW e
  PROVE  Without(s, e) \in Seq(S)
  <1>1. CASE \E i \in 1 .. Len(s) : s[i] = e
    <2> DEFINE i == CHOOSE i \in 1 .. Len(s) : s[i] = e
    <2>1. i \in 1 .. Len(s) BY <1>1
    <2> HIDE DEF i
    <2>2. RemoveAt(s, i) \in Seq(S) BY <2>1, RemoveAtType
    <2> QED BY <1>1, <2>2 DEF Without, i
  <1>2. CASE ~ \E i \in 1 .. Len(s) : s[i] = e BY <1>2 DEF Without
  <1> QED BY <1>1, <1>2

\* Taking the last member out of a prefix of a list without repetition leaves
\* a prefix of the list less its last member.
LEMMA WithoutPrefix ==
  ASSUME NEW S, NEW t \in Seq(S), NEW s \in Seq(S), t # <<>>,
         \A i, j \in 1 .. Len(t) : t[i] = t[j] => i = j,
         Len(s) <= Len(t),
         \A i \in 1 .. Len(s) : s[i] = t[i]
  PROVE  LET w == Without(s, Last(t))
         IN /\ Len(w) <= Len(Front(t))
            /\ \A i \in 1 .. Len(w) : w[i] = Front(t)[i]
  <1> DEFINE e == Last(t)
             f == Front(t)
             w == Without(s, e)
  <1>1. /\ Len(t) \in Nat \ {0} /\ Len(f) = Len(t) - 1 /\ e = t[Len(t)]
        /\ \A i \in 1 .. Len(t) - 1 : f[i] = t[i]
    BY FrontLast
  <1>2. Len(s) \in Nat BY LenProperties
  <1> HIDE DEF e, f
  <1>3. CASE Len(s) = Len(t)
    <2> DEFINE k == CHOOSE i \in 1 .. Len(s) : s[i] = e
    <2>1. Len(s) \in 1 .. Len(s) /\ s[Len(s)] = e BY <1>1, <1>2, <1>3
    <2>2. k \in 1 .. Len(s) /\ s[k] = e BY <2>1
    <2>3. w = RemoveAt(s, k) BY <2>1 DEF Without
    <2> HIDE DEF k, w
    <2>4. k = Len(s) BY <1>1, <1>3, <2>1, <2>2
    <2>5. /\ Len(w) = Len(s) - 1
          /\ \A j \in 1 .. Len(s) - 1 : w[j] = IF j < k THEN s[j] ELSE s[j + 1]
      BY <2>2, <2>3, RemoveAtType
    <2>6. ASSUME NEW j \in 1 .. Len(w) PROVE w[j] = f[j]
      <3>1. j \in 1 .. Len(s) - 1 /\ j < k /\ j \in 1 .. Len(s) /\ j \in 1 .. Len(t) - 1
        BY <1>2, <1>3, <2>4, <2>5
      <3> QED BY <3>1, <2>5, <1>1
    <2>7. Len(w) <= Len(f) BY <1>1, <1>3, <2>5
    <2> QED BY <2>6, <2>7 DEF w, e, f
  <1>4. CASE Len(s) # Len(t)
    <2>1. Len(s) <= Len(t) - 1 BY <1>1, <1>2, <1>4
    <2>2. ASSUME NEW i \in 1 .. Len(s), s[i] = e PROVE FALSE
      <3>1. i \in 1 .. Len(t) /\ Len(t) \in 1 .. Len(t) /\ i # Len(t) BY <1>1, <1>2, <2>1
      <3> QED BY <3>1, <2>2, <1>1
    <2>3. w = s BY <2>2 DEF Without
    <2> HIDE DEF w
    <2>4. ASSUME NEW i \in 1 .. Len(s) PROVE s[i] = f[i]
      <3>1. i \in 1 .. Len(t) - 1 BY <1>1, <1>2, <2>1
      <3> QED BY <3>1, <1>1
    <2>5. Len(s) <= Len(f) BY <1>1, <2>1
    <2> QED BY <2>3, <2>4, <2>5 DEF w, e, f
  <1> QED BY <1>3, <1>4

\* What allocate(n) returns: n distinct free blocks.
LEMMA TakingsType ==
  ASSUME TypeOK, NEW n \in Nat, NEW taken \in Takings(n)
  PROVE  /\ taken \in Seq(Blocks)
         /\ Len(taken) = n
         /\ Range(taken) \subseteq free
         /\ \A i, j \in 1 .. n : taken[i] = taken[j] => i = j
         /\ \A i \in 1 .. n : taken[i] \in free
  <1>1. taken \in [1 .. n -> free] BY DEF Takings
  <1>2. free \subseteq Blocks BY DEF TypeOK
  <1>3. taken \in [1 .. n -> Blocks] BY <1>1, <1>2
  <1>4. taken \in Seq(Blocks) BY <1>3
  <1>5. Len(taken) = n BY <1>3, <1>4, LenProperties
  <1> QED BY <1>1, <1>4, <1>5 DEF Takings, Range

\* Growing a table keeps the pool and the tables well formed.
LEMMA ExtendType ==
  ASSUME TypeOK, NEW n \in Nat, NEW r \in Requests, NEW taken \in Takings(n), Extend(r, taken)
  PROVE  /\ free' \subseteq Blocks /\ refcount' \in [Blocks -> Nat]
         /\ block_table' \in [Requests -> Seq(Blocks)]
  <1>1. taken \in Seq(Blocks) BY TakingsType
  <1>2. block_table[r] \o taken \in Seq(Blocks) BY <1>1, ConcatProperties DEF TypeOK
  <1>3. block_table' \in [Requests -> Seq(Blocks)] BY <1>2 DEF Extend, TypeOK
  <1>4. free' \subseteq Blocks BY DEF Extend, Allocate, TypeOK
  <1>5. refcount' \in [Blocks -> Nat] BY DEF Extend, Allocate, CountsTaken, TypeOK
  <1> QED BY <1>3, <1>4, <1>5

\* Releasing a table keeps the pool and the tables well formed.
LEMMA ReleaseType ==
  ASSUME TypeOK, NEW r \in Requests, Release(r)
  PROVE  /\ free' \subseteq Blocks /\ refcount' \in [Blocks -> Nat]
         /\ block_table' \in [Requests -> Seq(Blocks)]
         /\ stored' \in [Requests -> Nat]
  <1>1. Range(block_table[r]) \subseteq Blocks BY RangeOfSeq DEF TypeOK
  <1>2. free' \subseteq Blocks BY <1>1 DEF Release, Free, Returned, TypeOK
  <1>3. refcount' \in [Blocks -> Nat] BY DEF Release, Free, Dropped, TypeOK
  <1>4. <<>> \in Seq(Blocks) BY EmptySeq
  <1>5. block_table' \in [Requests -> Seq(Blocks)] BY <1>4 DEF Release, TypeOK
  <1>6. stored' \in [Requests -> Nat] BY DEF Release, TypeOK
  <1> QED BY <1>2, <1>3, <1>5, <1>6

--------------------------------------------------------------------------------
(* Types, step by step. *)

\* The inductive invariant holds of a new engine.
LEMMA InitInvariant == Init => IInv
  <1> SUFFICES ASSUME Init PROVE IInv
    OBVIOUS
  <1>1. /\ \A S : <<>> \in Seq(S)
        /\ Len(<<>>) = 0
    BY EmptySeq
  <1>2. MaxBatchSize \in Nat BY EngineAssumption
  <1>3. TypeOK BY <1>1, <1>2 DEF Init, PoolInit, TypeOK
  <1>4. Line = <<>> BY ConcatEmptySeq, <1>1 DEF Init, Line
  <1>5. StepLocals BY DEF Init, StepLocals
  <1>6. ArrivedOnce BY <1>1 DEF Init, ArrivedOnce
  <1>7. LineArrived BY <1>1, <1>4 DEF LineArrived
  <1>8. ArrivalOrder BY <1>1, <1>4 DEF ArrivalOrder
  <1>9. NoneLost BY DEF Init, NoneLost, Range
  <1> QED BY <1>3, <1>5, <1>6, <1>7, <1>8, <1>9 DEF IInv

\* Every step preserves the types and what step() keeps in its locals.
LEMMA TypeStep ==
  ASSUME TypeOK, StepLocals, RunningOnce, [Next]_vars
  PROVE  TypeOK' /\ StepLocals'
  <1> USE DEF poolVars, requestVars, stepVars, history
  <1>0. /\ \A S : <<>> \in Seq(S)
        /\ Len(<<>>) = 0
        /\ MaxBatchSize \in Nat
    BY EmptySeq, EngineAssumption
  <1>l. Len(running) \in Nat /\ Len(admitted) \in Nat BY LenProperties DEF TypeOK
  <1>1. ASSUME NEW r \in Requests, AddRequest(r) PROVE TypeOK' /\ StepLocals'
    <2>1. waiting' \in Seq(Requests) /\ arrival' \in Seq(Requests)
      BY <1>1, AppendProperties DEF AddRequest, TypeOK
    <2>2. TypeOK' BY <1>1, <2>1 DEF AddRequest, TypeOK
    <2>3. StepLocals' BY <1>1 DEF AddRequest, StepLocals
    <2> QED BY <2>2, <2>3
  <1>2. CASE BeginStep
    <2>1. TypeOK' BY <1>2 DEF BeginStep, TypeOK
    <2>2. StepLocals' BY <1>2 DEF BeginStep, StepLocals
    <2> QED BY <2>1, <2>2
  <1>3. CASE RetireOne
    <2>1. PICK i \in 1 .. Len(running) : running' = RemoveAt(running, i)
      BY <1>3 DEF RetireOne
    <2>2. running \in Seq(Requests) BY DEF TypeOK
    <2>3. running' \in Seq(Requests) /\ Len(running') = Len(running) - 1
      BY <2>1, <2>2, RemoveAtType
    <2>4. Len(running') + Len(admitted) <= MaxBatchSize BY <1>0, <1>l, <2>3 DEF TypeOK
    <2>5. TypeOK' BY <1>3, <2>3, <2>4 DEF RetireOne, TypeOK
    <2>6. StepLocals' BY <1>3 DEF RetireOne, StepLocals
    <2> QED BY <2>5, <2>6
  <1>4. CASE Retired
    <2>1. TypeOK' BY <1>4 DEF Retired, TypeOK
    <2>2. StepLocals' BY <1>4 DEF Retired, StepLocals
    <2> QED BY <2>1, <2>2
  <1>5. CASE Admit
    <2> DEFINE candidate == waiting[1]
    <2>1. /\ waiting # <<>> /\ Len(running) + Len(admitted) < MaxBatchSize
          /\ reserved' = reserved + Need(candidate)
          /\ admitted' = Append(admitted, candidate)
          /\ waiting' = RemoveAt(waiting, 1)
      BY <1>5 DEF Admit, AdmitAt, RoomInBatch, NextWaiting
    <2>2. waiting \in Seq(Requests) /\ admitted \in Seq(Requests) BY DEF TypeOK
    <2>3. candidate \in Requests /\ waiting' \in Seq(Requests) BY <2>1, <2>2, TakeHead
    <2> HIDE DEF candidate
    <2>4. admitted' \in Seq(Requests) /\ Len(admitted') = Len(admitted) + 1
      BY <2>1, <2>2, <2>3, AppendProperties
    <2>5. reserved' \in Nat
      <3>1. TotalLen(candidate) + 1 \in Nat BY <2>3, TotalLenType
      <3>2. Need(candidate) \in Nat BY <3>1, BlocksNeededType DEF Need
      <3>3. reserved \in Nat BY DEF TypeOK
      <3> QED BY <2>1, <3>2, <3>3
    <2>6. Len(running) + Len(admitted') <= MaxBatchSize BY <1>0, <1>l, <2>1, <2>4
    <2>7. TypeOK' BY <1>5, <2>3, <2>4, <2>5, <2>6 DEF Admit, AdmitAt, TypeOK
    <2>8. StepLocals' BY <1>5 DEF Admit, AdmitAt, StepLocals
    <2> QED BY <2>7, <2>8
  <1>6. CASE AdmitDone
    <2>1. StartWork BY <1>6 DEF AdmitDone
    <2>2. TypeOK' BY <2>1 DEF StartWork, TypeOK
    <2>3. StepLocals' BY <1>l, <2>1 DEF StartWork, StepLocals
    <2> QED BY <2>2, <2>3
  <1>7. CASE PrefillOne
    <2> DEFINE r == states[at]
               n == Missing(r, TotalLen(r))
    <2>1. r \in Requests BY <1>7, ElementOfSeq DEF PrefillOne, TypeOK
    <2>2. TotalLen(r) \in Nat /\ n \in Nat BY <2>1, TotalLenType, MissingType
    <2>3. CASE ~Available(n)
      <3>1. /\ pc' = "raised"
            /\ UNCHANGED <<poolVars, block_table, stored, at>>
        BY <1>7, <2>3 DEF PrefillOne
      <3>2. TypeOK' BY <1>7, <3>1 DEF PrefillOne, TypeOK
      <3>3. StepLocals' BY <1>7, <3>1 DEF PrefillOne, StepLocals
      <3> QED BY <3>2, <3>3
    <2>4. CASE Available(n)
      <3>1. /\ \E taken \in Takings(n) : Extend(r, taken)
            /\ stored' = [stored EXCEPT ![r] = TotalLen(r)]
            /\ at' = at + 1 /\ UNCHANGED pc
        BY <1>7, <2>4 DEF PrefillOne
      <3> HIDE DEF n, r
      <3>2. PICK taken \in Takings(n) : Extend(r, taken) BY <3>1
      <3>3. /\ free' \subseteq Blocks /\ refcount' \in [Blocks -> Nat]
            /\ block_table' \in [Requests -> Seq(Blocks)]
        BY <2>1, <2>2, <3>2, ExtendType
      <3>4. stored' \in [Requests -> Nat] BY <2>1, <2>2, <3>1 DEF TypeOK
      <3>5. at' \in Nat \ {0} BY <3>1 DEF TypeOK
      <3>6. UNCHANGED <<waiting, running, output_token_ids, finished, admitted, reserved,
                        states, history>>
        BY <1>7 DEF PrefillOne
      <3>7. TypeOK' BY <3>1, <3>3, <3>4, <3>5, <3>6 DEF TypeOK
      <3>8. StepLocals' BY <1>7, <3>1, <3>6 DEF PrefillOne, StepLocals
      <3> QED BY <3>7, <3>8
    <2> QED BY <2>3, <2>4
  <1>8. CASE PrefillDone
    <2>1. TypeOK' BY <1>8 DEF PrefillDone, TypeOK
    <2>2. StepLocals' BY <1>8 DEF PrefillDone, StepLocals
    <2> QED BY <2>1, <2>2
  <1>9. CASE Emit
    <2> DEFINE r == states[at]
    <2>1. r \in Requests BY <1>9, ElementOfSeq DEF Emit, TypeOK
    <2>2. PICK token \in Vocab : Deliver(r, token) BY <1>9 DEF Emit
    <2> HIDE DEF r
    <2>3. output_token_ids' \in [Requests -> Seq(Vocab)]
      <3>1. Append(output_token_ids[r], token) \in Seq(Vocab)
        BY <2>1, AppendProperties DEF TypeOK
      <3> QED BY <2>1, <2>2, <3>1 DEF Deliver, TypeOK
    <2>4. finished' \in [Requests -> BOOLEAN]
      <3>1. (finished[r] \/ EndsWith(r, token)) \in BOOLEAN OBVIOUS
      <3> QED BY <2>1, <2>2, <3>1 DEF Deliver, TypeOK
    <2>5. /\ free' \subseteq Blocks /\ refcount' \in [Blocks -> Nat]
          /\ block_table' \in [Requests -> Seq(Blocks)]
          /\ stored' \in [Requests -> Nat]
      <3>1. CASE Release(r) BY <2>1, <3>1, ReleaseType
      <3>2. CASE UNCHANGED <<poolVars, block_table, stored>> BY <3>2 DEF TypeOK
      <3> QED BY <1>9, <3>1, <3>2 DEF Emit, r
    <2>6. /\ at' \in Nat \ {0}
          /\ UNCHANGED <<waiting, running, pc, admitted, reserved, states, history>>
      BY <1>9 DEF Emit, TypeOK
    <2>7. TypeOK' BY <2>3, <2>4, <2>5, <2>6 DEF TypeOK
    <2>8. StepLocals' BY <1>9 DEF Emit, StepLocals
    <2> QED BY <2>7, <2>8
  <1>10. CASE Join
    <2>1. /\ running' = running \o admitted /\ admitted' = <<>>
          /\ states' = running /\ at' = 1
          /\ pc' \in {"grow", "idle"}
      BY <1>10 DEF Join, JoinRunning
    <2>2. running \in Seq(Requests) /\ admitted \in Seq(Requests) BY DEF TypeOK
    <2>3. /\ running' \in Seq(Requests) /\ Len(running') = Len(running) + Len(admitted)
          /\ \A i \in 1 .. Len(running) + Len(admitted) : running'[i] =
                 IF i <= Len(running) THEN running[i] ELSE admitted[i - Len(running)]
      BY <2>1, <2>2, ConcatProperties
    <2>4. Len(running') + Len(admitted') <= MaxBatchSize BY <1>0, <1>l, <2>1, <2>3 DEF TypeOK
    <2>5. TypeOK' BY <1>0, <1>10, <2>1, <2>3, <2>4 DEF Join, JoinRunning, TypeOK
    <2>6. Len(states') <= Len(running') BY <1>l, <2>1, <2>3
    <2>7. ASSUME NEW i \in 1 .. Len(states') PROVE states'[i] = running'[i]
      <3>1. i \in 1 .. Len(running) + Len(admitted) /\ i <= Len(running) BY <1>l, <2>1
      <3> QED BY <2>1, <2>3, <3>1
    <2>8. StepLocals' BY <2>1, <2>6, <2>7 DEF StepLocals
    <2> QED BY <2>5, <2>8
  <1>11. CASE GrowOne
    <2> DEFINE r == states[at]
               n == Missing(r, 1)
    <2>1. r \in Requests BY <1>11, ElementOfSeq DEF GrowOne, TypeOK
    <2>2. n \in Nat BY <2>1, MissingType
    <2>3. PICK taken \in Takings(n) : Extend(r, taken) BY <1>11 DEF GrowOne
    <2> HIDE DEF n, r
    <2>4. /\ free' \subseteq Blocks /\ refcount' \in [Blocks -> Nat]
          /\ block_table' \in [Requests -> Seq(Blocks)]
      BY <2>1, <2>2, <2>3, ExtendType
    <2>5. /\ at' \in Nat \ {0}
          /\ UNCHANGED <<waiting, running, stored, output_token_ids, finished, pc, admitted,
                         reserved, states, history>>
      BY <1>11 DEF GrowOne, TypeOK
    <2>6. TypeOK' BY <2>4, <2>5 DEF TypeOK
    <2>7. StepLocals' BY <1>11 DEF GrowOne, StepLocals
    <2> QED BY <2>6, <2>7
  <1>12. CASE GrowShort
    <2> DEFINE victim == Last(running)
    <2>1. running \in Seq(Requests) /\ waiting \in Seq(Requests) /\ states \in Seq(Requests)
      BY DEF TypeOK
    <2>2. running # <<>>
      <3>1. 1 <= Len(states) BY <1>12, <2>1, LenProperties DEF GrowShort, TypeOK
      <3>2. Len(states) <= Len(running) BY <1>12 DEF GrowShort, StepLocals
      <3> QED BY <1>0, <2>1, <3>1, <3>2, LenProperties
    <2>3. /\ victim \in Requests /\ Front(running) \in Seq(Requests)
          /\ Len(Front(running)) = Len(running) - 1
      BY <2>1, <2>2, FrontLast
    <2>4. Release(victim) /\ Requeue(victim) BY <1>12 DEF GrowShort
    <2>5. waiting' \in Seq(Requests)
      <3>1. <<victim>> \in Seq(Requests) BY <2>3
      <3> QED BY <2>1, <2>4, <3>1, ConcatProperties DEF Requeue
    <2>6. states' \in Seq(Requests) BY <2>1, <2>4, WithoutType DEF Requeue
    <2>7. /\ running' = Front(running)
          /\ Len(states') <= Len(running')
          /\ \A i \in 1 .. Len(states') : states'[i] = running'[i]
      <3>1. /\ Len(states) <= Len(running)
            /\ \A i \in 1 .. Len(states) : states[i] = running[i]
        BY <1>12 DEF GrowShort, StepLocals
      <3>2. \A i, j \in 1 .. Len(running) : running[i] = running[j] => i = j
        BY DEF RunningOnce
      <3>3. LET w == Without(states, victim)
            IN /\ Len(w) <= Len(Front(running))
               /\ \A i \in 1 .. Len(w) : w[i] = Front(running)[i]
        BY <2>1, <2>2, <3>1, <3>2, WithoutPrefix
      <3> QED BY <2>4, <3>3 DEF Requeue
    <2>8. outlived' \in SUBSET Requests BY <2>3, <2>4 DEF Requeue, TypeOK
    <2>9. Len(running') + Len(admitted) <= MaxBatchSize
      BY <1>0, <1>l, <2>3, <2>7 DEF TypeOK
    <2> HIDE DEF victim
    <2>10. /\ free' \subseteq Blocks /\ refcount' \in [Blocks -> Nat]
           /\ block_table' \in [Requests -> Seq(Blocks)]
           /\ stored' \in [Requests -> Nat]
      BY <2>3, <2>4, ReleaseType
    <2>11. /\ at' = 1 /\ pc' \in {"idle", "grow"}
           /\ UNCHANGED <<output_token_ids, finished, admitted, reserved, arrival>>
      BY <1>12 DEF GrowShort
    <2>12. TypeOK'
      <3>1. running' \in Seq(Requests) BY <2>3, <2>7
      <3>2. /\ at' \in Nat \ {0}
            /\ pc' \in {"idle", "retire", "admit", "prefill", "emit_prefill", "grow",
                        "emit_decode", "raised", "fill", "settle"}
        BY <2>11
      <3>3. Len(running') + Len(admitted') <= MaxBatchSize BY <2>9, <2>11
      <3> QED BY <2>5, <2>6, <2>8, <2>10, <2>11, <3>1, <3>2, <3>3 DEF TypeOK
    <2>13. StepLocals' BY <1>12, <2>7, <2>11 DEF GrowShort, StepLocals
    <2> QED BY <2>12, <2>13
  <1>13. CASE Decode
    <2>1. stored' \in [Requests -> Nat] BY <1>13 DEF Decode, TypeOK
    <2>2. TypeOK' BY <1>13, <2>1 DEF Decode, TypeOK
    <2>3. StepLocals' BY <1>13 DEF Decode, StepLocals
    <2> QED BY <2>2, <2>3
  <1>14. CASE EndStep
    <2>1. TypeOK' BY <1>0, <1>14 DEF EndStep, TypeOK
    <2>2. StepLocals' BY <1>14 DEF EndStep, StepLocals
    <2> QED BY <2>1, <2>2
  <1>15. CASE UNCHANGED vars
    <2>1. TypeOK' BY <1>15 DEF vars, TypeOK
    <2>2. StepLocals' BY <1>15 DEF vars, StepLocals
    <2> QED BY <2>1, <2>2
  <1> QED BY <1>1, <1>2, <1>3, <1>4, <1>5, <1>6, <1>7, <1>8, <1>9, <1>10, <1>11, <1>12,
             <1>13, <1>14, <1>15 DEF Next, Step

--------------------------------------------------------------------------------
(* What a step does to the line. *)

InService == Len(running) + Len(admitted)

\* The line is a list of requests: those in service, then those waiting.
LEMMA LineType ==
  TypeOK => /\ Line \in Seq(Requests)
            /\ Len(Line) = InService + Len(waiting)
            /\ Line = running \o (admitted \o waiting)
            /\ Len(running) \in Nat /\ Len(admitted) \in Nat /\ Len(waiting) \in Nat
  <1> SUFFICES ASSUME TypeOK
               PROVE  /\ Line \in Seq(Requests)
                      /\ Len(Line) = InService + Len(waiting)
                      /\ Line = running \o (admitted \o waiting)
                      /\ Len(running) \in Nat /\ Len(admitted) \in Nat /\ Len(waiting) \in Nat
    OBVIOUS
  <1>1. running \in Seq(Requests) /\ admitted \in Seq(Requests) /\ waiting \in Seq(Requests)
    BY DEF TypeOK
  <1>2. Len(running) \in Nat /\ Len(admitted) \in Nat /\ Len(waiting) \in Nat
    BY <1>1, LenProperties
  <1>3. /\ running \o admitted \in Seq(Requests)
        /\ Len(running \o admitted) = InService
    BY <1>1, ConcatProperties DEF InService
  <1>4. /\ (running \o admitted) \o waiting \in Seq(Requests)
        /\ Len((running \o admitted) \o waiting) = InService + Len(waiting)
    BY <1>1, <1>3, ConcatProperties
  <1>5. (running \o admitted) \o waiting = running \o (admitted \o waiting)
    BY <1>1, ConcatAssociative
  <1> QED BY <1>2, <1>4, <1>5 DEF Line

\* The steps that reorder nothing, by what they do to the requests in service.
LineKept == Line' = Line /\ arrival' = arrival

Started == LineKept /\ InService' = InService + 1 /\ InService < Len(Line)

Yielded == LineKept /\ InService' = InService - 1 /\ InService > 0

Arrived(r) == /\ r \notin Range(arrival)
              /\ Line' = Append(Line, r) /\ arrival' = Append(arrival, r)
              /\ InService' = InService

Left(i) == /\ finished[Line[i]]
           /\ i \in 1 .. Len(Line) /\ i <= InService
           /\ Line' = RemoveAt(Line, i) /\ arrival' = arrival
           /\ InService' = InService - 1

\* Every step starts, takes back or ends service, lets a request in, or leaves
\* the line as it is.
LEMMA LineMoves ==
  ASSUME TypeOK, StepLocals, [Next]_vars
  PROVE  \/ Started \/ Yielded
         \/ \E r \in Requests : Arrived(r)
         \/ \E i \in Nat : Left(i)
         \/ LineKept /\ InService' = InService
  <1> DEFINE Idles == LineKept /\ InService' = InService
  <1> USE DEF poolVars, requestVars, stepVars, history
  <1>0. /\ running \in Seq(Requests) /\ admitted \in Seq(Requests) /\ waiting \in Seq(Requests)
        /\ Len(running) \in Nat /\ Len(admitted) \in Nat /\ Len(waiting) \in Nat
        /\ Len(<<>>) = 0
    BY LineType, EmptySeq DEF TypeOK
  <1>a. \A a, b, c \in Seq(Requests) : (a \o b) \o c = a \o (b \o c) BY ConcatAssociative
  <1>1. ASSUME NEW r \in Requests, AddRequest(r) PROVE Arrived(r)
    <2>1. /\ r \notin Range(arrival) /\ arrival' = Append(arrival, r)
          /\ waiting' = Append(waiting, r) /\ running' = running /\ admitted' = admitted
      BY <1>1 DEF AddRequest
    <2>2. waiting' = waiting \o <<r>> BY <1>0, <2>1, AppendIsConcat
    <2>3. <<r>> \in Seq(Requests) /\ running \o admitted \in Seq(Requests)
      BY <1>0, ConcatProperties
    <2>4. ((running \o admitted) \o waiting) \o <<r>> = (running \o admitted) \o (waiting \o <<r>>)
      BY <1>0, <2>3, ConcatAssociative
    <2>5. Append(Line, r) = Line \o <<r>> BY LineType, AppendIsConcat
    <2> QED BY <2>1, <2>2, <2>4, <2>5 DEF Arrived, Line, InService
  <1>2. CASE RetireOne
    <2>1. PICK i \in 1 .. Len(running) : finished[running[i]] /\ running' = RemoveAt(running, i)
      BY <1>2 DEF RetireOne
    <2>2. admitted' = admitted /\ waiting' = waiting /\ arrival' = arrival
      BY <1>2 DEF RetireOne
    <2>3. Len(running') = Len(running) - 1 /\ running' \in Seq(Requests)
      BY <1>0, <2>1, RemoveAtType
    <2> DEFINE rest == admitted \o waiting
    <2>4. rest \in Seq(Requests) BY <1>0, ConcatProperties
    <2> HIDE DEF rest
    <2>9. /\ i \in 1 .. Len(running \o rest) /\ (running \o rest)[i] = running[i]
          /\ RemoveAt(running, i) \o rest = RemoveAt(running \o rest, i)
      BY <1>0, <2>4, RemoveConcat
    <2>10. Line = running \o rest BY LineType DEF rest
    <2>5. /\ i \in 1 .. Len(Line) /\ Line[i] = running[i]
          /\ running' \o (admitted \o waiting) = RemoveAt(Line, i)
      BY <2>1, <2>9, <2>10 DEF rest
    <2>6. (running' \o admitted) \o waiting = running' \o (admitted \o waiting)
      BY <1>0, <1>a, <2>3, Zenon
    <2>7. Line' = RemoveAt(Line, i) BY <2>2, <2>5, <2>6 DEF Line
    <2>8. i <= InService /\ InService' = InService - 1
      BY <1>0, <2>1, <2>2, <2>3 DEF InService
    <2> QED BY <2>1, <2>2, <2>5, <2>7, <2>8 DEF Left
  <1>3. CASE Admit
    <2>1. /\ waiting # <<>> /\ admitted' = Append(admitted, waiting[1])
          /\ waiting' = RemoveAt(waiting, 1) /\ running' = running /\ arrival' = arrival
      BY <1>3 DEF Admit, AdmitAt, RoomInBatch, NextWaiting
    <2>2. /\ waiting[1] \in Requests /\ waiting' \in Seq(Requests)
          /\ admitted' \o waiting' = admitted \o waiting
      BY <1>0, <2>1, TakeHead
    <2>3. admitted' \in Seq(Requests) /\ Len(admitted') = Len(admitted) + 1
      BY <1>0, <2>1, <2>2, AppendProperties
    <2>4. (running \o admitted') \o waiting' = running \o (admitted' \o waiting')
      BY <1>0, <1>a, <2>2, <2>3, Zenon
    <2>5. Line' = Line BY <2>1, <2>2, <2>4, LineType DEF Line
    <2>6. InService' = InService + 1 BY <1>0, <2>1, <2>3 DEF InService
    <2>7. Len(waiting) > 0 BY <1>0, <2>1, EmptySeq
    <2>8. InService < Len(Line) BY <1>0, <2>7, LineType DEF InService
    <2> QED BY <2>1, <2>5, <2>6, <2>8 DEF Started, LineKept
  <1>4. CASE Join
    <2>1. /\ running' = running \o admitted /\ admitted' = <<>>
          /\ waiting' = waiting /\ arrival' = arrival
      BY <1>4 DEF Join, JoinRunning
    <2>2. running' \in Seq(Requests) /\ Len(running') = Len(running) + Len(admitted)
      BY <1>0, <2>1, ConcatProperties
    <2>3. running' \o <<>> = running' BY <2>2, ConcatEmptySeq
    <2>4. Line' = Line BY <2>1, <2>3 DEF Line
    <2>5. InService' = InService BY <1>0, <2>1, <2>2 DEF InService
    <2> QED BY <2>1, <2>4, <2>5 DEF LineKept
  <1>5. CASE GrowShort
    <2> DEFINE victim == Last(running)
    <2>1. running # <<>>
      <3>1. /\ at <= Len(states) /\ at \in Nat \ {0} /\ Len(states) \in Nat
        BY <1>5, LenProperties DEF GrowShort, TypeOK
      <3>2. Len(states) <= Len(running) BY <1>5 DEF GrowShort, StepLocals
      <3> QED BY <1>0, <3>1, <3>2
    <2>2. /\ running' = Front(running) /\ waiting' = <<victim>> \o waiting
          /\ admitted' = admitted /\ arrival' = arrival
      BY <1>5 DEF GrowShort, Requeue
    <2>3. admitted = <<>> BY <1>5 DEF GrowShort, StepLocals
    <2>4. /\ victim \in Requests /\ running' \in Seq(Requests)
          /\ Len(running') = Len(running) - 1 /\ Len(running) > 0
      BY <1>0, <2>1, <2>2, FrontLast
    <2>5. running' \o waiting' = running \o waiting BY <1>0, <2>1, <2>2, FrontBack
    <2>6. running' \o <<>> = running' /\ running \o <<>> = running
      BY <1>0, <2>4, ConcatEmptySeq
    <2>7. Line' = Line BY <2>2, <2>3, <2>5, <2>6 DEF Line
    <2>8. InService' = InService - 1 /\ InService > 0
      BY <1>0, <2>2, <2>3, <2>4 DEF InService
    <2> QED BY <2>2, <2>7, <2>8 DEF Yielded, LineKept
  <1>6. ASSUME UNCHANGED <<running, admitted, waiting, arrival>> PROVE Idles
    BY <1>6 DEF LineKept, Line, InService
  <1>7. CASE BeginStep BY <1>6, <1>7 DEF BeginStep
  <1>8. CASE Retired BY <1>6, <1>8 DEF Retired
  <1>9. CASE AdmitDone BY <1>6, <1>9 DEF AdmitDone, StartWork
  <1>10. CASE PrefillOne BY <1>6, <1>10 DEF PrefillOne
  <1>11. CASE PrefillDone BY <1>6, <1>11 DEF PrefillDone
  <1>12. CASE Emit BY <1>6, <1>12 DEF Emit
  <1>13. CASE GrowOne BY <1>6, <1>13 DEF GrowOne
  <1>14. CASE Decode BY <1>6, <1>14 DEF Decode
  <1>15. CASE EndStep BY <1>6, <1>15 DEF EndStep
  <1>16. CASE UNCHANGED vars BY <1>6, <1>16 DEF vars
  <1> QED BY <1>1, <1>2, <1>3, <1>4, <1>5, <1>7, <1>8, <1>9, <1>10, <1>11, <1>12, <1>13,
             <1>14, <1>15, <1>16 DEF Next, Step

--------------------------------------------------------------------------------
(* Order of service. *)

Ordered(line, seen) ==
    \A i, j \in 1 .. Len(line) : i < j =>
        \E k, l \in 1 .. Len(seen) : k < l /\ seen[k] = line[i] /\ seen[l] = line[j]

\* A line in order of arrival stays so when somebody leaves it.
LEMMA OrderedRemove ==
  ASSUME NEW S, NEW line \in Seq(S), NEW seen, Ordered(line, seen), NEW n \in 1 .. Len(line)
  PROVE  Ordered(RemoveAt(line, n), seen)
  <1> DEFINE rest == RemoveAt(line, n)
  <1>1. /\ Len(rest) = Len(line) - 1
        /\ \A j \in 1 .. Len(line) - 1 : rest[j] = IF j < n THEN line[j] ELSE line[j + 1]
    BY RemoveAtType
  <1>2. Len(line) \in Nat BY LenProperties
  <1> HIDE DEF rest
  <1>3. SUFFICES ASSUME NEW i \in 1 .. Len(rest), NEW j \in 1 .. Len(rest), i < j
                 PROVE  \E k, l \in 1 .. Len(seen) :
                            k < l /\ seen[k] = rest[i] /\ seen[l] = rest[j]
    BY DEF Ordered, rest
  <1> DEFINE p == IF i < n THEN i ELSE i + 1
             q == IF j < n THEN j ELSE j + 1
  <1>4. p \in 1 .. Len(line) /\ q \in 1 .. Len(line) /\ p < q BY <1>1, <1>2, <1>3
  <1>5. rest[i] = line[p] /\ rest[j] = line[q] BY <1>1, <1>3
  <1> HIDE DEF p, q, rest
  <1>6. \E k, l \in 1 .. Len(seen) : k < l /\ seen[k] = line[p] /\ seen[l] = line[q]
    BY <1>4 DEF Ordered
  <1> QED BY <1>5, <1>6

\* A line in order of arrival stays so when somebody new joins its end.
LEMMA OrderedAppend ==
  ASSUME NEW S, NEW line \in Seq(S), NEW seen \in Seq(S), NEW e \in S, Ordered(line, seen),
         \A i \in 1 .. Len(line) : \E k \in 1 .. Len(seen) : seen[k] = line[i]
  PROVE  Ordered(Append(line, e), Append(seen, e))
  <1> DEFINE longer == Append(line, e)
             more == Append(seen, e)
  <1>1. /\ Len(longer) = Len(line) + 1 /\ longer[Len(line) + 1] = e
        /\ \A i \in 1 .. Len(line) : longer[i] = line[i]
    BY AppendProperties
  <1>2. /\ Len(more) = Len(seen) + 1 /\ more[Len(seen) + 1] = e
        /\ \A i \in 1 .. Len(seen) : more[i] = seen[i]
    BY AppendProperties
  <1>3. Len(line) \in Nat /\ Len(seen) \in Nat BY LenProperties
  <1> HIDE DEF longer, more
  <1>4. SUFFICES ASSUME NEW i \in 1 .. Len(longer), NEW j \in 1 .. Len(longer), i < j
                 PROVE  \E k, l \in 1 .. Len(more) :
                            k < l /\ more[k] = longer[i] /\ more[l] = longer[j]
    BY DEF Ordered, longer, more
  <1>5. i \in 1 .. Len(line) BY <1>1, <1>3, <1>4
  <1>6. CASE j \in 1 .. Len(line)
    <2>1. PICK k, l \in 1 .. Len(seen) : k < l /\ seen[k] = line[i] /\ seen[l] = line[j]
      BY <1>4, <1>5, <1>6 DEF Ordered
    <2>2. k \in 1 .. Len(more) /\ l \in 1 .. Len(more) BY <1>2, <1>3
    <2> QED BY <2>1, <2>2, <1>1, <1>2, <1>5, <1>6
  <1>7. CASE j = Len(line) + 1
    <2>1. PICK k \in 1 .. Len(seen) : seen[k] = line[i] BY <1>5
    <2>2. k \in 1 .. Len(more) /\ Len(seen) + 1 \in 1 .. Len(more) /\ k < Len(seen) + 1
      BY <1>2, <1>3
    <2> QED BY <2>1, <2>2, <1>1, <1>2, <1>5, <1>7
  <1> QED BY <1>1, <1>3, <1>6, <1>7

\* Arrival order and single arrival leave no room for one request twice in
\* the batch.
LEMMA NobodyTwice ==
  ASSUME TypeOK, ArrivedOnce, ArrivalOrder
  PROVE  RunningOnce
  <1>1. /\ running \in Seq(Requests) /\ admitted \o waiting \in Seq(Requests)
        /\ Len(running) \in Nat
    BY ConcatProperties, LineType DEF TypeOK
  <1>2. \A i \in 1 .. Len(running) : i \in 1 .. Len(Line) /\ Line[i] = running[i]
    BY <1>1, RemoveConcat, LineType
  <1>3. ASSUME NEW i \in 1 .. Len(running), NEW j \in 1 .. Len(running),
               i < j, running[i] = running[j]
        PROVE  FALSE
    <2>1. PICK k, l \in 1 .. Len(arrival) : k < l /\ arrival[k] = Line[i] /\ arrival[l] = Line[j]
      BY <1>2, <1>3 DEF ArrivalOrder
    <2> QED BY <1>2, <1>3, <2>1 DEF ArrivedOnce
  <1> QED BY <1>1, <1>3 DEF RunningOnce

--------------------------------------------------------------------------------
(* The invariant is inductive. *)

\* A finished request never becomes unfinished.
LEMMA FinishedStays ==
  ASSUME TypeOK, [Next]_vars, NEW r \in Requests, finished[r]
  PROVE  finished'[r]
  <1>1. CASE Emit
    <2>1. PICK token \in Vocab : Deliver(states[at], token) BY <1>1 DEF Emit
    <2>2. finished' = [finished EXCEPT ![states[at]] = @ \/ EndsWith(states[at], token)]
      BY <2>1 DEF Deliver
    <2>3. states[at] = r \/ finished'[r] = finished[r] BY <2>2 DEF TypeOK
    <2>4. CASE states[at] = r BY <2>2, <2>4 DEF TypeOK
    <2> QED BY <2>3, <2>4
  <1>2. ASSUME UNCHANGED finished PROVE finished'[r] BY <1>2
  <1>3. CASE ~Emit
    BY <1>2, <1>3 DEF Next, Step, AddRequest, BeginStep, RetireOne, Retired, Admit, AdmitAt, AdmitDone,
       StartWork, PrefillOne, PrefillDone, Join, JoinRunning, GrowOne, GrowShort, Decode,
       EndStep, requestVars, vars
  <1> QED BY <1>1, <1>3

\* Membership, by position.
LEMMA RangeMembers ==
  ASSUME NEW S, NEW s \in Seq(S)
  PROVE  \A e : e \in Range(s) <=> \E k \in 1 .. Len(s) : s[k] = e
  BY LenProperties DEF Range

\* Membership of the arrivals and of the line, by position.
LEMMA ArrivedRange ==
  TypeOK => /\ \A e : e \in Range(arrival) <=> \E k \in 1 .. Len(arrival) : arrival[k] = e
            /\ \A e : e \in Range(Line) <=> \E k \in 1 .. Len(Line) : Line[k] = e
  <1>1. TypeOK => Line \in Seq(Requests) BY LineType
  <1>2. TypeOK => arrival \in Seq(Requests) BY DEF TypeOK
  <1> QED BY <1>1, <1>2, RangeMembers

\* Every step preserves the inductive invariant.
LEMMA InvariantStep == IInv /\ [Next]_vars => IInv'
  <1> SUFFICES ASSUME IInv, [Next]_vars PROVE IInv'
    OBVIOUS
  <1> USE DEF IInv
  <1>1. RunningOnce BY NobodyTwice
  <1>2. TypeOK' /\ StepLocals' BY <1>1, TypeStep
  <1>3. /\ Line \in Seq(Requests) /\ Len(Line) \in Nat
        /\ arrival \in Seq(Requests) /\ Len(arrival) \in Nat
    BY LineType, LenProperties DEF TypeOK
  <1>o. Ordered(Line, arrival) BY DEF Ordered, ArrivalOrder
  <1>f. \A r \in Requests : finished[r] => finished'[r] BY FinishedStays
  <1>r. \A r \in Range(arrival) : r \in Requests BY <1>3, RangeOfSeq
  <1>3p. Line' \in Seq(Requests) /\ arrival' \in Seq(Requests)
    <2>1. /\ running' \in Seq(Requests) /\ admitted' \in Seq(Requests)
          /\ waiting' \in Seq(Requests)
      BY <1>2 DEF TypeOK
    <2>2. Line' \in Seq(Requests) BY <2>1, ConcatProperties DEF Line
    <2>3. arrival' \in Seq(Requests) BY <1>2 DEF TypeOK
    <2> QED BY <2>2, <2>3
  <1>m. /\ \A e : e \in Range(arrival') <=> \E k \in 1 .. Len(arrival') : arrival'[k] = e
        /\ \A e : e \in Range(Line') <=> \E k \in 1 .. Len(Line') : Line'[k] = e
    BY <1>3p, RangeMembers
  <1>4. CASE LineKept
    <2>1. ArrivedOnce' BY <1>4 DEF LineKept, ArrivedOnce
    <2>2. LineArrived' BY <1>4 DEF LineKept, LineArrived
    <2>3. ArrivalOrder' BY <1>4 DEF LineKept, ArrivalOrder
    <2>4. NoneLost' BY <1>4, <1>f, <1>r DEF LineKept, NoneLost
    <2> QED BY <1>2, <2>1, <2>2, <2>3, <2>4
  <1>5. ASSUME NEW r \in Requests, Arrived(r) PROVE IInv'
    <2>1. /\ Line' = Append(Line, r) /\ arrival' = Append(arrival, r)
          /\ \A k \in 1 .. Len(arrival) : arrival[k] # r
      BY <1>5, ArrivedRange DEF Arrived
    <2>2. /\ Len(Line') = Len(Line) + 1 /\ Line'[Len(Line) + 1] = r
          /\ \A k \in 1 .. Len(Line) : Line'[k] = Line[k]
      BY <1>3, <2>1, AppendProperties
    <2>3. /\ Len(arrival') = Len(arrival) + 1 /\ arrival'[Len(arrival) + 1] = r
          /\ \A k \in 1 .. Len(arrival) : arrival'[k] = arrival[k]
      BY <1>3, <2>1, AppendProperties
    <2>4. ArrivedOnce'
      <3>1. ASSUME NEW k \in 1 .. Len(arrival'), NEW l \in 1 .. Len(arrival'),
                   arrival'[k] = arrival'[l]
            PROVE  k = l
        <4>1. /\ k \in 1 .. Len(arrival) \/ k = Len(arrival) + 1
              /\ l \in 1 .. Len(arrival) \/ l = Len(arrival) + 1
          BY <1>3, <2>3
        <4> QED BY <4>1, <3>1, <2>1, <2>3 DEF ArrivedOnce
      <3> QED BY <3>1 DEF ArrivedOnce
    <2>5. LineArrived'
      <3>1. ASSUME NEW i \in 1 .. Len(Line')
            PROVE  \E k \in 1 .. Len(arrival') : arrival'[k] = Line'[i]
        <4>1. i \in 1 .. Len(Line) \/ i = Len(Line) + 1 BY <1>3, <2>2
        <4>2. CASE i \in 1 .. Len(Line)
          <5>1. PICK k \in 1 .. Len(arrival) : arrival[k] = Line[i] BY <4>2 DEF LineArrived
          <5>2. k \in 1 .. Len(arrival') BY <1>3, <2>3
          <5> QED BY <4>2, <5>1, <5>2, <2>2, <2>3
        <4>3. CASE i = Len(Line) + 1
          <5>1. Len(arrival) + 1 \in 1 .. Len(arrival') BY <1>3, <2>3
          <5> QED BY <4>3, <5>1, <2>2, <2>3
        <4> QED BY <4>1, <4>2, <4>3
      <3> QED BY <3>1 DEF LineArrived
    <2>6. ArrivalOrder'
      <3>1. \A i \in 1 .. Len(Line) : \E k \in 1 .. Len(arrival) : arrival[k] = Line[i]
        BY DEF LineArrived
      <3>2. Ordered(Append(Line, r), Append(arrival, r)) BY <1>3, <1>o, <3>1, OrderedAppend
      <3>3. Ordered(Line', arrival') BY <2>1, <3>2
      <3> QED BY <3>3 DEF Ordered, ArrivalOrder
    <2>7. NoneLost'
      <3>1. ASSUME NEW e \in Range(arrival)' PROVE finished'[e] \/ e \in Range(Line)'
        <4>1. PICK k \in 1 .. Len(arrival') : arrival'[k] = e
          BY <1>m
        <4>2. CASE k \in 1 .. Len(arrival)
          <5>1. e \in Range(arrival) BY <4>1, <4>2, <2>3, ArrivedRange
          <5>2. finished[e] \/ \E i \in 1 .. Len(Line) : Line[i] = e
            BY <5>1, ArrivedRange DEF NoneLost
          <5>3. ASSUME NEW i \in 1 .. Len(Line), Line[i] = e
                PROVE  \E j \in 1 .. Len(Line') : Line'[j] = e
            <6>1. i \in 1 .. Len(Line') BY <1>3, <2>2
            <6> QED BY <5>3, <6>1, <2>2
          <5>4. finished'[e] \/ \E j \in 1 .. Len(Line') : Line'[j] = e
            BY <5>1, <5>2, <5>3, <1>f, <1>r
          <5> QED BY <5>4, <1>m
        <4>3. CASE k = Len(arrival) + 1
          <5>1. Len(Line) + 1 \in 1 .. Len(Line') BY <1>3, <2>2
          <5>2. \E j \in 1 .. Len(Line') : Line'[j] = e BY <4>1, <4>3, <5>1, <2>2, <2>3
          <5> QED BY <5>2, <1>m
        <4>4. k \in 1 .. Len(arrival) \/ k = Len(arrival) + 1 BY <1>3, <2>3
        <4> QED BY <4>2, <4>3, <4>4
      <3> QED BY <3>1 DEF NoneLost
    <2> QED BY <1>2, <2>4, <2>5, <2>6, <2>7
  <1>6. ASSUME NEW n \in Nat, Left(n) PROVE IInv'
    <2>1. /\ n \in 1 .. Len(Line) /\ finished[Line[n]]
          /\ Line' = RemoveAt(Line, n) /\ arrival' = arrival
      BY <1>6 DEF Left
    <2>2. /\ Len(Line') = Len(Line) - 1
          /\ \A j \in 1 .. Len(Line) - 1 : Line'[j] = IF j < n THEN Line[j] ELSE Line[j + 1]
      BY <1>3, <2>1, RemoveAtType
    <2>3. ArrivedOnce' BY <2>1 DEF ArrivedOnce
    <2>4. LineArrived'
      <3>1. ASSUME NEW i \in 1 .. Len(Line')
            PROVE  \E k \in 1 .. Len(Line) : Line[k] = Line'[i]
        <4>1. i \in 1 .. Len(Line) - 1 /\ i \in 1 .. Len(Line) /\ i + 1 \in 1 .. Len(Line)
          BY <1>3, <2>2
        <4> QED BY <4>1, <2>2
      <3> QED BY <2>1, <3>1 DEF LineArrived
    <2>5. ArrivalOrder'
      <3>1. Ordered(RemoveAt(Line, n), arrival) BY <1>3, <1>o, <2>1, OrderedRemove
      <3>2. Ordered(Line', arrival') BY <2>1, <3>1
      <3> QED BY <3>2 DEF Ordered, ArrivalOrder
    <2>6. NoneLost'
      <3>1. ASSUME NEW e \in Range(arrival) PROVE finished'[e] \/ e \in Range(Line)'
        <4>1. CASE finished[e] BY <4>1, <1>f, <1>r
        <4>2. CASE ~finished[e]
          <5>1. PICK i \in 1 .. Len(Line) : Line[i] = e BY <4>2, ArrivedRange DEF NoneLost
          <5>2. i # n BY <5>1, <4>2, <2>1
          <5> DEFINE j == IF i < n THEN i ELSE i - 1
          <5>3. /\ j \in 1 .. Len(Line) - 1 /\ j \in 1 .. Len(Line')
                /\ i = IF j < n THEN j ELSE j + 1
            BY <1>3, <2>1, <2>2, <5>2
          <5> HIDE DEF j
          <5>4. Line'[j] = e BY <5>1, <5>3, <2>2
          <5> QED BY <5>3, <5>4, <1>m
        <4> QED BY <4>1, <4>2
      <3> QED BY <3>1, <2>1 DEF NoneLost
    <2> QED BY <1>2, <2>3, <2>4, <2>5, <2>6
  <1>7. \/ LineKept \/ (\E r \in Requests : Arrived(r)) \/ \E n \in Nat : Left(n)
    BY LineMoves DEF Started, Yielded
  <1> QED BY <1>4, <1>5, <1>6, <1>7

\* The inductive invariant holds in every reachable state.
LEMMA Invariant == Spec => []IInv
  <1>1. Init => IInv BY InitInvariant
  <1>2. IInv /\ [Next]_vars => IInv' BY InvariantStep
  <1> QED BY <1>1, <1>2, PTL DEF Spec

\* The state is what it should be in every pool, and the batch never exceeds
\* max_batch_size, however requests join, leave and are preempted.
THEOREM TypeCorrect == Spec => []TypeOK
  <1>1. IInv => TypeOK BY DEF IInv
  <1> QED BY <1>1, Invariant, PTL

\* Nobody in the engine is ever behind a later arrival, through preemption and
\* readmission.
THEOREM FirstComeFirstServed == Spec => []ArrivalOrder
  <1>1. IInv => ArrivalOrder BY DEF IInv
  <1> QED BY <1>1, Invariant, PTL

\* No scheduling step drops a request that has not finished.
THEOREM NobodyLost == Spec => []NoneLost
  <1>1. IInv => NoneLost BY DEF IInv
  <1> QED BY <1>1, Invariant, PTL

\* The scheduler implements the line of ServiceLine.
THEOREM ImplementsLine == Spec => ServesInLine
  <1>1. Init => Service!LineInit
    <2> SUFFICES ASSUME Init PROVE Service!LineInit
      OBVIOUS
    <2>1. <<>> \in Seq(Requests) /\ Len(<<>>) = 0 BY EmptySeq
    <2>2. Line = <<>> BY <2>1, ConcatEmptySeq DEF Init, Line
    <2> QED BY <2>1, <2>2 DEF Init, Service!LineInit, Range
  <1>2. IInv /\ IInv' /\ [Next]_vars => [Service!LineNext]_(Service!lineVars)
    <2> SUFFICES ASSUME IInv, IInv', [Next]_vars
                 PROVE  Service!LineNext \/ UNCHANGED Service!lineVars
      OBVIOUS
    <2> USE DEF InService
    <2>0. /\ TypeOK /\ StepLocals BY DEF IInv
    <2>1. CASE Started
      <3>1. Len(running') + Len(admitted') <= MaxBatchSize BY DEF IInv, TypeOK
      <3>2. /\ Len(running) + Len(admitted) \in Nat /\ MaxBatchSize \in Nat
        BY <2>0, LineType, EngineAssumption
      <3>3. Len(running) + Len(admitted) < MaxBatchSize BY <2>1, <3>1, <3>2 DEF Started
      <3>4. Service!Start BY <2>1, <3>3 DEF Started, LineKept, Service!Start
      <3> QED BY <3>4 DEF Service!LineNext
    <2>2. CASE Yielded
      <3>1. Service!Yield BY <2>2 DEF Yielded, LineKept, Service!Yield
      <3> QED BY <3>1 DEF Service!LineNext
    <2>3. ASSUME NEW r \in Requests, Arrived(r) PROVE Service!LineNext
      <3>1. <<r>> \in Seq(Requests) /\ Range(<<r>>) = {r} BY DEF Range
      <3>2. arrival \in Seq(Requests) BY <2>0 DEF TypeOK
      <3>3. Append(arrival, r) = arrival \o <<r>> BY <3>2, AppendIsConcat
      <3>4. Range(arrival') = Range(arrival) \cup {r}
        <4>1. Range(arrival \o <<r>>) = Range(arrival) \cup Range(<<r>>)
          BY <3>1, <3>2, RangeConcatenation
        <4> QED BY <2>3, <3>1, <3>3, <4>1 DEF Arrived
      <3>5. Service!Arrive(r) BY <2>3, <3>4 DEF Arrived, Service!Arrive
      <3> QED BY <3>5 DEF Service!LineNext
    <2>4. ASSUME NEW n \in Nat, Left(n) PROVE Service!LineNext
      <3>1. Service!Leave(n) BY <2>4 DEF Left, Service!Leave, RemoveAt, Service!RemoveAt
      <3> QED BY <2>4, <3>1 DEF Left, Service!LineNext
    <2>5. CASE LineKept /\ InService' = InService
      BY <2>5 DEF LineKept, Service!lineVars
    <2> QED BY <2>0, <2>1, <2>2, <2>3, <2>4, <2>5, LineMoves
  <1> QED BY <1>1, <1>2, Invariant, PTL DEF Spec, ServesInLine, Service!LineSpec

--------------------------------------------------------------------------------
(* The blocks, wherever requests are in their service. *)

Counted == \A b \in Blocks : refcount[b] = IF b \in free THEN 0 ELSE 1

Owned == \A b \in Blocks : b \notin free <=> \E r \in Requests : b \in Range(block_table[r])

OwnedOnce == \A r \in Requests : \A i, j \in 1 .. Len(block_table[r]) :
                  block_table[r][i] = block_table[r][j] => i = j

TablesApart == \A r, s \in Requests :
                   r # s => Range(block_table[r]) \cap Range(block_table[s]) = {}

\* The partition of the blocks, as the conjunction of its four named parts.
LEMMA PartitionParts == BlocksPartitioned <=> Counted /\ Owned /\ OwnedOnce /\ TablesApart
  BY DEF BlocksPartitioned, Counted, Owned, OwnedOnce, TablesApart

\* Blocks taken from the free list and added to one table.
LEMMA ExtendPartition ==
  ASSUME TypeOK, BlocksPartitioned, NEW n \in Nat, NEW r \in Requests,
         NEW taken \in Takings(n), Extend(r, taken)
  PROVE  BlocksPartitioned'
  <1> DEFINE old == block_table[r]
             new == old \o taken
  <1>1. Counted /\ Owned /\ OwnedOnce /\ TablesApart BY PartitionParts
  <1>2. /\ taken \in Seq(Blocks) /\ Len(taken) = n /\ Range(taken) \subseteq free
        /\ \A i, j \in 1 .. n : taken[i] = taken[j] => i = j
        /\ \A i \in 1 .. n : taken[i] \in free
    BY TakingsType
  <1>3. old \in Seq(Blocks) /\ Len(old) \in Nat
    <2>1. old \in Seq(Blocks) BY DEF TypeOK
    <2> QED BY <2>1, LenProperties
  <1> HIDE DEF old
  <1>4. /\ Range(new) = Range(old) \cup Range(taken) /\ Len(new) = Len(old) + n
        /\ \A i \in 1 .. Len(old) + n : new[i] = IF i <= Len(old) THEN old[i]
                                                 ELSE taken[i - Len(old)]
    <2>1. old \in Seq(Blocks) /\ taken \in Seq(Blocks) BY <1>2, <1>3
    <2>2. Range(new) = Range(old) \cup Range(taken) BY <2>1, RangeConcatenation
    <2>3. Len(new) = Len(old) + Len(taken) BY <2>1, ConcatProperties
    <2>4. \A i \in 1 .. Len(old) + Len(taken) :
              new[i] = IF i <= Len(old) THEN old[i] ELSE taken[i - Len(old)]
      BY <2>1, ConcatProperties
    <2>5. Len(taken) = n BY <1>2
    <2> HIDE DEF new
    <2> QED BY <2>2, <2>3, <2>4, <2>5
  <1>5. Range(old) \subseteq Blocks BY <1>3, RangeOfSeq
  <1>6. \A s \in Requests : Range(block_table[s]) \subseteq Blocks \ free
    <2> SUFFICES ASSUME NEW s \in Requests PROVE Range(block_table[s]) \subseteq Blocks \ free
      OBVIOUS
    <2>1. block_table[s] \in Seq(Blocks) BY DEF TypeOK
    <2>2. Range(block_table[s]) \subseteq Blocks BY <2>1, RangeOfSeq
    <2> QED BY <1>1, <2>2 DEF Owned
  <1> HIDE DEF new
  <1>7. /\ free' = free \ Range(taken)
        /\ refcount' = [b \in Blocks |-> IF b \in Range(taken) THEN 1 ELSE refcount[b]]
        /\ block_table' = [block_table EXCEPT ![r] = new]
    BY DEF Extend, Allocate, CountsTaken, new, old
  <1>8. /\ block_table'[r] = new
        /\ \A s \in Requests : s # r => block_table'[s] = block_table[s]
    BY <1>7 DEF TypeOK
  <1>9. Counted' BY <1>1, <1>2, <1>7 DEF Counted
  <1>10. Owned'
    <2>1. ASSUME NEW b \in Blocks
          PROVE  b \notin free' <=> \E s \in Requests : b \in Range(block_table'[s])
      <3>1. CASE b \in Range(taken) BY <3>1, <1>4, <1>7, <1>8
      <3>2. CASE b \notin Range(taken)
        <4>1. b \in Range(new) <=> b \in Range(block_table[r]) BY <3>2, <1>4 DEF old
        <4>2. \A s \in Requests : b \in Range(block_table'[s]) <=> b \in Range(block_table[s])
          BY <4>1, <1>8
        <4> QED BY <3>2, <4>2, <1>1, <1>7 DEF Owned
      <3> QED BY <3>1, <3>2
    <2> QED BY <2>1 DEF Owned
  <1>11. OwnedOnce'
    <2>1. ASSUME NEW i \in 1 .. Len(new), NEW j \in 1 .. Len(new), new[i] = new[j]
          PROVE  i = j
      <3>1. Range(old) \subseteq Blocks \ free BY <1>6 DEF old
      <3>2. \A k \in 1 .. Len(old) : old[k] \in Range(old) BY <1>3, RangeMembers
      <3>3. CASE i <= Len(old) /\ j <= Len(old)
        <4>1. i \in 1 .. Len(old) /\ j \in 1 .. Len(old) BY <3>3, <1>3
        <4>2. old[i] = old[j] BY <3>3, <2>1, <1>4
        <4> QED BY <4>1, <4>2, <1>1 DEF OwnedOnce, old
      <3>4. CASE i > Len(old) /\ j > Len(old)
        <4>1. i - Len(old) \in 1 .. n /\ j - Len(old) \in 1 .. n BY <3>4, <1>3, <1>4
        <4>2. taken[i - Len(old)] = taken[j - Len(old)] BY <3>4, <2>1, <1>3, <1>4
        <4>3. i - Len(old) = j - Len(old) BY <4>1, <4>2, <1>2
        <4> QED BY <4>3, <1>3
      <3>5. CASE i <= Len(old) /\ j > Len(old)
        <4>1. i \in 1 .. Len(old) /\ j - Len(old) \in 1 .. n BY <3>5, <1>3, <1>4
        <4>2. new[i] = old[i] /\ new[j] = taken[j - Len(old)] BY <3>5, <2>1, <1>3, <1>4
        <4> QED BY <4>1, <4>2, <2>1, <3>1, <3>2, <1>2
      <3>6. CASE i > Len(old) /\ j <= Len(old)
        <4>1. j \in 1 .. Len(old) /\ i - Len(old) \in 1 .. n BY <3>6, <1>3, <1>4
        <4>2. new[j] = old[j] /\ new[i] = taken[i - Len(old)] BY <3>6, <2>1, <1>3, <1>4
        <4> QED BY <4>1, <4>2, <2>1, <3>1, <3>2, <1>2
      <3> QED BY <3>3, <3>4, <3>5, <3>6, <1>3
    <2> QED BY <2>1, <1>1, <1>8 DEF OwnedOnce
  <1>12. TablesApart'
    <2>1. ASSUME NEW s \in Requests, s # r PROVE Range(new) \cap Range(block_table[s]) = {}
      <3>1. Range(old) \cap Range(block_table[s]) = {} BY <1>1, <2>1 DEF TablesApart, old
      <3> QED BY <3>1, <1>2, <1>4, <1>6
    <2> QED BY <2>1, <1>1, <1>8 DEF TablesApart
  <1> QED BY <1>9, <1>10, <1>11, <1>12 DEF BlocksPartitioned, Counted, Owned, OwnedOnce,
             TablesApart

\* The blocks of one table, returned to the free list.
LEMMA ReleasePartition ==
  ASSUME TypeOK, BlocksPartitioned, NEW r \in Requests, Release(r)
  PROVE  BlocksPartitioned'
  <1> DEFINE gone == Range(block_table[r])
  <1>1. Counted /\ Owned /\ OwnedOnce /\ TablesApart BY PartitionParts
  <1>2. gone \subseteq Blocks \ free
    <2>1. block_table[r] \in Seq(Blocks) BY DEF TypeOK
    <2>2. gone \subseteq Blocks BY <2>1, RangeOfSeq
    <2> QED BY <1>1, <2>2 DEF Owned
  <1>3. \A b \in gone : refcount[b] = 1 BY <1>1, <1>2 DEF Counted
  <1>4. /\ free' = free \cup Returned(refcount, gone)
        /\ refcount' = Dropped(refcount, gone)
        /\ block_table' = [block_table EXCEPT ![r] = <<>>]
    BY DEF Release, Free
  <1>5. /\ block_table'[r] = <<>>
        /\ \A s \in Requests : s # r => block_table'[s] = block_table[s]
    BY <1>4 DEF TypeOK
  <1>6. Range(<<>>) = {} /\ Len(<<>>) = 0 BY EmptySeq DEF Range
  <1>7. \A s \in Requests : s # r => Range(block_table[s]) \cap gone = {}
    BY <1>1 DEF TablesApart
  <1> HIDE DEF gone
  <1>8. Returned(refcount, gone) = gone BY <1>3 DEF Returned
  <1>9. \A b \in Blocks : refcount'[b] = IF b \in gone THEN 0 ELSE refcount[b]
    BY <1>3, <1>4 DEF Dropped
  <1>10. Counted' BY <1>1, <1>2, <1>4, <1>8, <1>9 DEF Counted
  <1>11. Owned'
    <2>1. ASSUME NEW b \in Blocks
          PROVE  b \notin free' <=> \E s \in Requests : b \in Range(block_table'[s])
      <3>1. CASE b \in gone BY <3>1, <1>4, <1>5, <1>6, <1>7, <1>8
      <3>2. CASE b \notin gone
        <4>1. b \notin Range(block_table[r]) BY <3>2 DEF gone
        <4>2. \A s \in Requests : b \in Range(block_table'[s]) <=> b \in Range(block_table[s])
          BY <4>1, <1>5, <1>6
        <4> QED BY <3>2, <4>2, <1>1, <1>4, <1>8 DEF Owned
      <3> QED BY <3>1, <3>2
    <2> QED BY <2>1 DEF Owned
  <1>12. OwnedOnce' BY <1>1, <1>5, <1>6 DEF OwnedOnce
  <1>13. TablesApart' BY <1>1, <1>5, <1>6 DEF TablesApart
  <1> QED BY <1>10, <1>11, <1>12, <1>13 DEF BlocksPartitioned, Counted, Owned, OwnedOnce,
             TablesApart

\* All blocks are free at first.
LEMMA PartitionInit == Init => BlocksPartitioned
  <1>1. Range(<<>>) = {} /\ Len(<<>>) = 0 BY EmptySeq DEF Range
  <1> QED BY <1>1 DEF Init, PoolInit, BlocksPartitioned

\* Every step preserves the partition: only growth, prefill and release touch
\* it, and each moves whole blocks between the free list and one table.
LEMMA PartitionStep == IInv /\ BlocksPartitioned /\ [Next]_vars => BlocksPartitioned'
  <1> SUFFICES ASSUME IInv, BlocksPartitioned, [Next]_vars PROVE BlocksPartitioned'
    OBVIOUS
  <1>0. TypeOK /\ StepLocals BY DEF IInv
  <1>1. ASSUME UNCHANGED <<poolVars, block_table>> PROVE BlocksPartitioned'
    BY <1>1 DEF poolVars, BlocksPartitioned
  <1>2. CASE PrefillOne
    <2> DEFINE r == states[at]
               n == Missing(r, TotalLen(r))
    <2>1. r \in Requests BY <1>0, <1>2, ElementOfSeq DEF PrefillOne, TypeOK
    <2>2. TotalLen(r) \in Nat BY <1>0, <2>1, TotalLenType
    <2>3. n \in Nat BY <1>0, <2>1, <2>2, MissingType
    <2>4. UNCHANGED <<poolVars, block_table>> \/ \E taken \in Takings(n) : Extend(r, taken)
      BY <1>2 DEF PrefillOne
    <2> HIDE DEF n, r
    <2> QED BY <1>0, <1>1, <2>1, <2>3, <2>4, ExtendPartition
  <1>3. CASE GrowOne
    <2> DEFINE r == states[at]
               n == Missing(r, 1)
    <2>1. r \in Requests BY <1>0, <1>3, ElementOfSeq DEF GrowOne, TypeOK
    <2>2. n \in Nat BY <1>0, <2>1, MissingType
    <2>3. \E taken \in Takings(n) : Extend(r, taken) BY <1>3 DEF GrowOne
    <2> HIDE DEF n, r
    <2> QED BY <1>0, <2>1, <2>2, <2>3, ExtendPartition
  <1>4. CASE Emit
    <2> DEFINE r == states[at]
    <2>1. r \in Requests BY <1>0, <1>4, ElementOfSeq DEF Emit, TypeOK
    <2>2. Release(r) \/ UNCHANGED <<poolVars, block_table>> BY <1>4 DEF Emit
    <2> HIDE DEF r
    <2> QED BY <1>0, <1>1, <2>1, <2>2, ReleasePartition
  <1>5. CASE GrowShort
    <2>1. /\ at <= Len(states) /\ at \in Nat \ {0} /\ Len(states) \in Nat
          /\ Len(states) <= Len(running) /\ Len(running) \in Nat
          /\ running \in Seq(Requests)
      BY <1>0, <1>5, LenProperties DEF GrowShort, StepLocals, TypeOK
    <2>2. running # <<>> BY <2>1, EmptySeq
    <2>3. Last(running) \in Requests BY <2>1, <2>2, FrontLast
    <2>4. Release(Last(running)) BY <1>5 DEF GrowShort
    <2> QED BY <1>0, <2>3, <2>4, ReleasePartition
  <1>6. CASE ~(PrefillOne \/ GrowOne \/ Emit \/ GrowShort)
    <2>1. UNCHANGED <<poolVars, block_table>>
      BY <1>6 DEF Next, Step, AddRequest, BeginStep, RetireOne, Retired, Admit, AdmitAt, AdmitDone,
         StartWork, PrefillDone, Join, JoinRunning, Decode, EndStep, requestVars, poolVars, vars
    <2> QED BY <1>1, <2>1
  <1> QED BY <1>2, <1>3, <1>4, <1>5, <1>6

\* A block is free or stands once in the table of one request, in every state:
\* no step of scheduling, growth, preemption or completion leaks a block, gives
\* it to two sequences or returns it twice.
THEOREM BlocksConserved == Spec => []BlocksPartitioned
  <1>1. Init => BlocksPartitioned BY PartitionInit
  <1>2. IInv /\ BlocksPartitioned /\ [Next]_vars => BlocksPartitioned' BY PartitionStep
  <1> QED BY <1>1, <1>2, Invariant, PTL DEF Spec

--------------------------------------------------------------------------------
(* What a request holds, by where it is in its service. *)

Cold(r) == block_table[r] = <<>> /\ stored[r] = 0

\* All its tokens have their KV; the last one may be about to get a successor.
Filled(r) == /\ stored[r] = TotalLen(r)
             /\ Len(block_table[r]) = BlocksNeeded(stored[r])

SettledOrOver(r) == IF finished[r] THEN Cold(r)
              ELSE /\ stored[r] + 1 = TotalLen(r)
                   /\ Len(block_table[r]) = BlocksNeeded(stored[r])

\* A slot for the next token may have been added by a loop that started over.
Growing(r) ==
    /\ ~finished[r] /\ stored[r] + 1 = TotalLen(r)
    /\ \/ Len(block_table[r]) = BlocksNeeded(stored[r])
       \/ Len(block_table[r]) = BlocksNeeded(stored[r] + 1)

SlotGrown(r) == Len(block_table[r]) = BlocksNeeded(stored[r] + 1)

--------------------------------------------------------------------------------
(* The inductive invariant. *)

Locals ==
    /\ pc \in {"prefill", "emit_prefill"} => states = admitted
    /\ pc = "emit_decode" => /\ Len(states) <= Len(running)
                             /\ \A i \in 1 .. Len(states) : states[i] = running[i]
    /\ pc # "admit" => reserved = 0
    /\ pc \notin {"raised", "settle"}

Outside == \A r \in Requests :
    /\ \A i \in 1 .. Len(running) : running[i] # r
    /\ \A i \in 1 .. Len(admitted) : admitted[i] # r
    => Cold(r)

BatchServed ==
    /\ pc \notin {"grow", "emit_decode"} => \A i \in 1 .. Len(running) : SettledOrOver(running[i])
    /\ pc \in {"admit", "prefill", "emit_prefill"} =>
           \A i \in 1 .. Len(running) : ~finished[running[i]]
    /\ pc = "grow" => \A i \in 1 .. Len(running) :
           /\ i > Len(states) => SettledOrOver(running[i])
           /\ i <= Len(states) => Growing(running[i])
           /\ i <= Len(states) /\ i < at => SlotGrown(running[i])
    /\ pc = "emit_decode" => \A i \in 1 .. Len(running) :
           /\ i > Len(states) \/ i < at => SettledOrOver(running[i])
           /\ i <= Len(states) /\ i >= at => Filled(running[i]) /\ ~finished[running[i]]

AdmittedServed ==
    /\ pc = "admit" => \A i \in 1 .. Len(admitted) : Cold(admitted[i])
    /\ pc = "prefill" => \A i \in 1 .. Len(admitted) :
           IF i < at THEN Filled(admitted[i]) ELSE Cold(admitted[i])
    /\ pc = "emit_prefill" => \A i \in 1 .. Len(admitted) :
           IF i < at THEN SettledOrOver(admitted[i]) ELSE Filled(admitted[i])

\* owed[i] is what admission has promised to its i-th and those after it.
OwedSums(owed) ==
    /\ owed[Len(admitted) + 1] = 0
    /\ \A i \in 1 .. Len(admitted) : owed[i] = Need(admitted[i]) + owed[i + 1]

NeedsOwed ==
    /\ pc = "admit" => \E owed \in [1 .. Len(admitted) + 1 -> Nat] :
           OwedSums(owed) /\ owed[1] = reserved /\ owed[1] <= NFree
    /\ pc = "prefill" => \E owed \in [1 .. Len(admitted) + 1 -> Nat] :
           OwedSums(owed) /\ at <= Len(admitted) + 1 /\ owed[at] <= NFree

\* Nobody waits to be served who has been told the end, unless preempted after.
Fresh ==
    /\ \A i \in 1 .. Len(waiting) : finished[waiting[i]] => waiting[i] \in outlived
    /\ pc \in {"admit", "prefill"} =>
           \A i \in 1 .. Len(admitted) : finished[admitted[i]] => admitted[i] \in outlived
    /\ pc = "emit_prefill" =>
           \A i \in 1 .. Len(admitted) : i >= at /\ finished[admitted[i]] => admitted[i] \in outlived
    /\ \A r \in Requests : finished[r] => \E k \in 1 .. Len(arrival) : arrival[k] = r

ServiceInv == Locals /\ Outside /\ BatchServed /\ AdmittedServed /\ NeedsOwed /\ Fresh

--------------------------------------------------------------------------------
(* Arithmetic of blocks. *)

\* One more token never needs fewer blocks.
LEMMA BlocksNeededGrows == \A n \in Nat : BlocksNeeded(n) <= BlocksNeeded(n + 1)
  <1> SUFFICES ASSUME NEW n \in Nat PROVE BlocksNeeded(n) <= BlocksNeeded(n + 1)
    OBVIOUS
  <1>1. BlockSize \in Nat /\ BlockSize > 0 BY PoolAssumption
  <1>2. ASSUME NEW k \in Nat, NEW b \in Nat, b > 0 PROVE k \div b <= (k + 1) \div b
    BY <1>2
  <1>3. n + BlockSize - 1 \in Nat /\ n + 1 + BlockSize - 1 = n + BlockSize - 1 + 1 BY <1>1
  <1> QED BY <1>1, <1>2, <1>3 DEF BlocksNeeded

\* A list of n distinct blocks of the free list takes n of them.
LEMMA TakingsLeave ==
  ASSUME TypeOK, NEW n \in Nat, n <= NFree, NEW taken \in Takings(n)
  PROVE  Cardinality(free \ Range(taken)) = NFree - n
  <1>1. /\ Range(taken) \subseteq free
        /\ \A i, j \in 1 .. n : taken[i] = taken[j] => i = j
        /\ taken \in [1 .. n -> free]
    BY TakingsType DEF Takings
  <1>2. IsFiniteSet(free) BY PoolAssumption, FS_Subset DEF TypeOK
  <1>3. IsFiniteSet(Range(taken)) BY <1>1, <1>2, FS_Subset
  <1>4. taken \in Bijection(1 .. n, Range(taken))
    BY <1>1 DEF Bijection, Injection, Surjection, IsInjective, Range
  <1>5. Cardinality(Range(taken)) = n
    <2>1. IsFiniteSet(1 .. n) /\ Cardinality(1 .. n) = n BY FS_Interval
    <2>2. ExistsBijection(1 .. n, Range(taken)) BY <1>4 DEF ExistsBijection
    <2> QED BY <2>1, <2>2, <1>3, FS_Bijection
  <1>6. free \cap Range(taken) = Range(taken) BY <1>1
  <1>7. Cardinality(free \ Range(taken)) = Cardinality(free) - Cardinality(free \cap Range(taken))
    BY <1>2, FS_Difference
  <1> QED BY <1>5, <1>6, <1>7 DEF NFree


--------------------------------------------------------------------------------
(* What a step leaves alone. *)

SameService(r) == /\ block_table'[r] = block_table[r]
           /\ stored'[r] = stored[r]
           /\ output_token_ids'[r] = output_token_ids[r]
           /\ finished'[r] = finished[r]

\* A request a step does not touch stays where it is in its service.
LEMMA FrameOthers ==
  ASSUME NEW r, SameService(r)
  PROVE  /\ Cold(r)' <=> Cold(r)
         /\ Filled(r)' <=> Filled(r)
         /\ SettledOrOver(r)' <=> SettledOrOver(r)
         /\ Growing(r)' <=> Growing(r)
         /\ SlotGrown(r)' <=> SlotGrown(r)
         /\ finished'[r] = finished[r]
         /\ Need(r)' = Need(r)
  <1>1. TotalLen(r)' = TotalLen(r) BY DEF SameService, TotalLen
  <1> QED BY <1>1 DEF SameService, Cold, Filled, SettledOrOver, Growing, SlotGrown, Need, BlocksNeeded

\* A step that touches no request leaves all of them where they are.
LEMMA FrameAll == UNCHANGED requestVars => \A r : SameService(r)
  BY DEF requestVars, SameService

\* Nobody stands twice in the line.
LEMMA Apart ==
  ASSUME IInv
  PROVE  /\ running \in Seq(Requests) /\ admitted \in Seq(Requests) /\ waiting \in Seq(Requests)
         /\ Len(running) \in Nat /\ Len(admitted) \in Nat /\ Len(waiting) \in Nat
         /\ \A i \in 1 .. Len(running) : running[i] \in Requests
         /\ \A i \in 1 .. Len(admitted) : admitted[i] \in Requests
         /\ \A i \in 1 .. Len(waiting) : waiting[i] \in Requests
         /\ \A i, j \in 1 .. Len(running) : running[i] = running[j] => i = j
         /\ \A i, j \in 1 .. Len(admitted) : admitted[i] = admitted[j] => i = j
         /\ \A i \in 1 .. Len(running), j \in 1 .. Len(admitted) : running[i] # admitted[j]
         /\ \A i \in 1 .. Len(running), j \in 1 .. Len(waiting) : running[i] # waiting[j]
         /\ \A i \in 1 .. Len(admitted), j \in 1 .. Len(waiting) : admitted[i] # waiting[j]
         /\ \A i \in 1 .. Len(running) : \E k \in 1 .. Len(arrival) : arrival[k] = running[i]
         /\ \A i \in 1 .. Len(admitted) : \E k \in 1 .. Len(arrival) : arrival[k] = admitted[i]
  <1>0. TypeOK /\ ArrivedOnce /\ ArrivalOrder BY DEF IInv
  <1>1. /\ running \in Seq(Requests) /\ admitted \in Seq(Requests) /\ waiting \in Seq(Requests)
    BY <1>0 DEF TypeOK
  <1>2. Len(running) \in Nat /\ Len(admitted) \in Nat /\ Len(waiting) \in Nat
    BY <1>1, LenProperties
  <1>3. /\ \A i \in 1 .. Len(running) : running[i] \in Requests
        /\ \A i \in 1 .. Len(admitted) : admitted[i] \in Requests
        /\ \A i \in 1 .. Len(waiting) : waiting[i] \in Requests
    BY <1>1, ElementOfSeq
  <1>4. ASSUME NEW i \in 1 .. Len(Line), NEW j \in 1 .. Len(Line), i < j, Line[i] = Line[j]
        PROVE  FALSE
    <2>1. PICK k, l \in 1 .. Len(arrival) : k < l /\ arrival[k] = Line[i] /\ arrival[l] = Line[j]
      BY <1>0, <1>4 DEF ArrivalOrder
    <2>2. arrival[k] = arrival[l] BY <1>4, <2>1
    <2>3. k = l BY <1>0, <2>2 DEF ArrivedOnce
    <2> QED BY <2>1, <2>3
  <1> DEFINE served == running \o admitted
  <1>5. /\ served \in Seq(Requests) /\ Len(served) = Len(running) + Len(admitted)
        /\ \A i \in 1 .. Len(running) + Len(admitted) :
               served[i] = IF i <= Len(running) THEN running[i] ELSE admitted[i - Len(running)]
    BY <1>1, ConcatProperties
  <1>6. Line = served \o waiting BY DEF Line
  <1> HIDE DEF served
  <1>7. /\ Len(Line) = Len(served) + Len(waiting)
        /\ \A i \in 1 .. Len(served) + Len(waiting) :
               Line[i] = IF i <= Len(served) THEN served[i] ELSE waiting[i - Len(served)]
    <2> DEFINE all == served \o waiting
    <2>1. /\ Len(all) = Len(served) + Len(waiting)
          /\ \A i \in 1 .. Len(served) + Len(waiting) :
                 all[i] = IF i <= Len(served) THEN served[i] ELSE waiting[i - Len(served)]
      <3>1. served \in Seq(Requests) /\ waiting \in Seq(Requests) BY <1>1, <1>5
      <3> QED BY <3>1, ConcatProperties
    <2>2. Line = all BY <1>6
    <2> HIDE DEF all
    <2> QED BY <2>1, <2>2
  <1>8. /\ Len(Line) = Len(running) + Len(admitted) + Len(waiting)
        /\ \A i \in 1 .. Len(running) : i \in 1 .. Len(Line) /\ Line[i] = running[i]
        /\ \A i \in 1 .. Len(admitted) : /\ Len(running) + i \in 1 .. Len(Line)
                                         /\ Line[Len(running) + i] = admitted[i]
        /\ \A i \in 1 .. Len(waiting) :
               /\ Len(running) + Len(admitted) + i \in 1 .. Len(Line)
               /\ Line[Len(running) + Len(admitted) + i] = waiting[i]
    <2>1. Len(Line) = Len(running) + Len(admitted) + Len(waiting) BY <1>2, <1>5, <1>7
    <2>2. ASSUME NEW i \in 1 .. Len(running)
          PROVE  i \in 1 .. Len(Line) /\ Line[i] = running[i]
      <3>1. /\ i \in 1 .. Len(running) + Len(admitted) /\ i <= Len(served)
            /\ i \in 1 .. Len(served) + Len(waiting)
        BY <1>2, <1>5
      <3> QED BY <3>1, <1>5, <1>7
    <2>3. ASSUME NEW i \in 1 .. Len(admitted)
          PROVE  Len(running) + i \in 1 .. Len(Line) /\ Line[Len(running) + i] = admitted[i]
      <3>1. /\ Len(running) + i \in 1 .. Len(running) + Len(admitted)
            /\ Len(running) + i <= Len(served)
            /\ Len(running) + i \in 1 .. Len(served) + Len(waiting)
            /\ ~(Len(running) + i <= Len(running))
            /\ Len(running) + i - Len(running) = i
        BY <1>2, <1>5
      <3> QED BY <3>1, <1>5, <1>7
    <2>4. ASSUME NEW i \in 1 .. Len(waiting)
          PROVE  /\ Len(running) + Len(admitted) + i \in 1 .. Len(Line)
                 /\ Line[Len(running) + Len(admitted) + i] = waiting[i]
      <3>1. /\ Len(running) + Len(admitted) + i \in 1 .. Len(served) + Len(waiting)
            /\ ~(Len(running) + Len(admitted) + i <= Len(served))
            /\ Len(running) + Len(admitted) + i - Len(served) = i
        BY <1>2, <1>5
      <3> QED BY <3>1, <1>7
    <2> QED BY <2>1, <2>2, <2>3, <2>4
  <1>9. \A i, j \in 1 .. Len(Line) : Line[i] = Line[j] => i = j
    <2>1. Len(Line) \in Nat BY <1>2, <1>8
    <2> QED BY <1>4, <2>1
  <1>10. \A i, j \in 1 .. Len(running) : running[i] = running[j] => i = j BY <1>8, <1>9
  <1>11. ASSUME NEW i \in 1 .. Len(admitted), NEW j \in 1 .. Len(admitted),
                admitted[i] = admitted[j]
         PROVE  i = j
    <2>1. Len(running) + i = Len(running) + j BY <1>8, <1>9, <1>11
    <2> QED BY <1>2, <2>1
  <1>12. ASSUME NEW i \in 1 .. Len(running), NEW j \in 1 .. Len(admitted)
         PROVE  running[i] # admitted[j]
    <2>1. i # Len(running) + j BY <1>2
    <2> QED BY <1>8, <1>9, <2>1
  <1>13. ASSUME NEW i \in 1 .. Len(running), NEW j \in 1 .. Len(waiting)
         PROVE  running[i] # waiting[j]
    <2>1. i # Len(running) + Len(admitted) + j BY <1>2
    <2> QED BY <1>8, <1>9, <2>1
  <1>14. ASSUME NEW i \in 1 .. Len(admitted), NEW j \in 1 .. Len(waiting)
         PROVE  admitted[i] # waiting[j]
    <2>1. Len(running) + i # Len(running) + Len(admitted) + j BY <1>2
    <2> QED BY <1>8, <1>9, <2>1
  <1>15. /\ \A i \in 1 .. Len(running) : \E k \in 1 .. Len(arrival) : arrival[k] = running[i]
         /\ \A i \in 1 .. Len(admitted) : \E k \in 1 .. Len(arrival) : arrival[k] = admitted[i]
    <2>1. \A i \in 1 .. Len(Line) : \E k \in 1 .. Len(arrival) : arrival[k] = Line[i]
      BY DEF IInv, LineArrived
    <2>2. ASSUME NEW i \in 1 .. Len(running)
          PROVE  \E k \in 1 .. Len(arrival) : arrival[k] = running[i]
      BY <1>8, <2>1
    <2>3. ASSUME NEW i \in 1 .. Len(admitted)
          PROVE  \E k \in 1 .. Len(arrival) : arrival[k] = admitted[i]
      BY <1>8, <2>1
    <2> QED BY <2>2, <2>3
  <1> QED BY <1>1, <1>2, <1>3, <1>10, <1>11, <1>12, <1>13, <1>14, <1>15

--------------------------------------------------------------------------------
(* The steps that touch no request. *)

\* Where requests are in their service, when none is touched.
LEMMA Untouched ==
  ASSUME UNCHANGED requestVars
  PROVE  /\ \A r : Cold(r)' <=> Cold(r)
         /\ \A r : Filled(r)' <=> Filled(r)
         /\ \A r : SettledOrOver(r)' <=> SettledOrOver(r)
         /\ \A r : Growing(r)' <=> Growing(r)
         /\ \A r : SlotGrown(r)' <=> SlotGrown(r)
         /\ \A r : Need(r)' = Need(r)
         /\ finished' = finished
  BY FrameOthers, FrameAll DEF requestVars

\* A new request joins the queue: it has not been told anything.
LEMMA ArriveService ==
  ASSUME IInv, ServiceInv, NEW r \in Requests, AddRequest(r)
  PROVE  ServiceInv'
  <1>1. /\ pc = "idle" /\ r \notin Range(arrival)
        /\ waiting' = Append(waiting, r) /\ arrival' = Append(arrival, r)
        /\ UNCHANGED <<free, refcount, running, requestVars, pc, admitted, reserved, states, at, outlived>>
    BY DEF AddRequest, poolVars, stepVars
  <1>2. /\ \A s : Cold(s)' <=> Cold(s)
        /\ \A s : SettledOrOver(s)' <=> SettledOrOver(s)
        /\ finished' = finished
    BY <1>1, Untouched
  <1>3. TypeOK BY DEF IInv
  <1>4. waiting \in Seq(Requests) /\ arrival \in Seq(Requests) BY <1>3 DEF TypeOK
  <1>5. Locals' BY <1>1 DEF ServiceInv, Locals
  <1>6. Outside' BY <1>1, <1>2 DEF ServiceInv, Outside
  <1>7. BatchServed' BY <1>1, <1>2 DEF ServiceInv, BatchServed
  <1>8. AdmittedServed' /\ NeedsOwed' BY <1>1 DEF AdmittedServed, NeedsOwed
  <1>9. Fresh'
    <2>1. ~finished[r] BY <1>1, <1>3, ArrivedRange DEF ServiceInv, Fresh
    <2>2. /\ Len(waiting) \in Nat /\ Len(waiting') = Len(waiting) + 1
          /\ waiting'[Len(waiting) + 1] = r
          /\ \A i \in 1 .. Len(waiting) : waiting'[i] = waiting[i]
      BY <1>1, <1>4, AppendProperties, LenProperties
    <2>3. /\ Len(arrival) \in Nat /\ Len(arrival') = Len(arrival) + 1
          /\ \A i \in 1 .. Len(arrival) : arrival'[i] = arrival[i]
      BY <1>1, <1>4, AppendProperties, LenProperties
    <2>4. ASSUME NEW i \in 1 .. Len(waiting'), finished'[waiting'[i]]
          PROVE  waiting'[i] \in outlived'
      <3>1. i \in 1 .. Len(waiting) BY <1>2, <2>1, <2>2, <2>4
      <3> QED BY <1>1, <1>2, <2>2, <2>4, <3>1 DEF ServiceInv, Fresh
    <2>5. ASSUME NEW s \in Requests, finished'[s]
          PROVE  \E k \in 1 .. Len(arrival') : arrival'[k] = s
      <3>1. PICK k \in 1 .. Len(arrival) : arrival[k] = s BY <1>2, <2>5 DEF ServiceInv, Fresh
      <3>2. k \in 1 .. Len(arrival') BY <2>3
      <3> QED BY <2>3, <3>1, <3>2
    <2> QED BY <1>1, <2>4, <2>5 DEF Fresh
  <1> QED BY <1>5, <1>6, <1>7, <1>8, <1>9 DEF ServiceInv

\* The step begins.
LEMMA BeginService ==
  ASSUME IInv, ServiceInv, BeginStep
  PROVE  ServiceInv'
  <1>1. /\ pc = "idle" /\ pc' = "retire"
        /\ UNCHANGED <<free, waiting, running, requestVars, admitted, reserved, states, at, history>>
    BY DEF BeginStep, poolVars, stepVars
  <1>2. /\ \A s : Cold(s)' <=> Cold(s)
        /\ \A s : SettledOrOver(s)' <=> SettledOrOver(s)
        /\ finished' = finished
    BY <1>1, Untouched
  <1>3. Locals' BY <1>1 DEF ServiceInv, Locals
  <1>4. Outside' BY <1>1, <1>2 DEF ServiceInv, Outside
  <1>5. BatchServed' BY <1>1, <1>2 DEF ServiceInv, BatchServed
  <1>6. AdmittedServed' /\ NeedsOwed' BY <1>1 DEF AdmittedServed, NeedsOwed
  <1>7. Fresh' BY <1>1, <1>2 DEF ServiceInv, Fresh, history
  <1> QED BY <1>3, <1>4, <1>5, <1>6, <1>7 DEF ServiceInv

\* The batch goes on without a request that has finished.
LEMMA RetireService ==
  ASSUME IInv, ServiceInv, RetireOne
  PROVE  ServiceInv'
  <1>1. /\ pc = "retire"
        /\ UNCHANGED <<free, waiting, requestVars, pc, admitted, reserved, states, at, history>>
    BY DEF RetireOne, poolVars, stepVars, ServiceInv, Locals
  <1>2. PICK i \in 1 .. Len(running) : finished[running[i]] /\ running' = RemoveAt(running, i)
    BY DEF RetireOne
  <1>3. /\ \A s : Cold(s)' <=> Cold(s)
        /\ \A s : SettledOrOver(s)' <=> SettledOrOver(s)
        /\ finished' = finished
    BY <1>1, Untouched
  <1>4. running \in Seq(Requests) /\ Len(running) \in Nat BY Apart
  <1>5. /\ Len(running') = Len(running) - 1
        /\ \A j \in 1 .. Len(running) - 1 :
               running'[j] = IF j < i THEN running[j] ELSE running[j + 1]
    BY <1>2, <1>4, RemoveAtType
  <1>6. Locals' BY <1>1 DEF ServiceInv, Locals
  <1>7. Outside'
    <2>1. ASSUME NEW r \in Requests, \A j \in 1 .. Len(running') : running'[j] # r,
                 \A j \in 1 .. Len(admitted) : admitted[j] # r
          PROVE  Cold(r)
      <3>1. CASE running[i] = r
        BY <1>1, <1>2, <3>1 DEF ServiceInv, BatchServed, SettledOrOver
      <3>2. CASE running[i] # r
        <4>1. ASSUME NEW j \in 1 .. Len(running), running[j] = r PROVE FALSE
          <5>1. CASE j < i
            <6>1. j \in 1 .. Len(running') BY <1>4, <1>5, <5>1
            <6> QED BY <1>5, <2>1, <4>1, <5>1, <6>1
          <5>2. CASE j > i
            <6>1. j - 1 \in 1 .. Len(running') /\ ~(j - 1 < i) /\ j - 1 + 1 = j
              BY <1>4, <1>5, <5>2
            <6> QED BY <1>5, <2>1, <4>1, <6>1
          <5>3. j # i BY <3>2, <4>1
          <5> QED BY <1>4, <5>1, <5>2, <5>3
        <4> QED BY <2>1, <4>1 DEF ServiceInv, Outside
      <3> QED BY <3>1, <3>2
    <2> QED BY <1>1, <1>3, <2>1 DEF Outside
  <1>8. BatchServed'
    <2>1. ASSUME NEW j \in 1 .. Len(running') PROVE SettledOrOver(running'[j])
      <3>1. PICK k \in 1 .. Len(running) : running'[j] = running[k]
        <4>1. /\ j \in 1 .. Len(running) - 1 /\ j \in 1 .. Len(running)
              /\ j + 1 \in 1 .. Len(running)
          BY <1>4, <1>5
        <4> QED BY <1>5, <4>1
      <3> QED BY <1>1, <3>1 DEF ServiceInv, BatchServed
    <2> QED BY <1>1, <1>3, <2>1 DEF BatchServed
  <1>9. AdmittedServed' /\ NeedsOwed' BY <1>1 DEF AdmittedServed, NeedsOwed
  <1>10. Fresh' BY <1>1, <1>3 DEF ServiceInv, Fresh, history
  <1> QED BY <1>6, <1>7, <1>8, <1>9, <1>10 DEF ServiceInv

\* How many blocks are free is a number.
LEMMA NFreeType == TypeOK => NFree \in Nat
  <1> SUFFICES ASSUME TypeOK PROVE NFree \in Nat
    OBVIOUS
  <1>1. IsFiniteSet(free) BY PoolAssumption, FS_Subset DEF TypeOK
  <1> QED BY <1>1, FS_CardinalityType DEF NFree

\* What admission asks for is a number of blocks.
LEMMA NeedType == TypeOK => \A r \in Requests : Need(r) \in Nat
  <1> SUFFICES ASSUME TypeOK, NEW r \in Requests PROVE Need(r) \in Nat
    OBVIOUS
  <1>1. TotalLen(r) + 1 \in Nat BY TotalLenType
  <1> QED BY <1>1, BlocksNeededType DEF Need

\* Admission begins with nothing promised.
LEMMA RetiredService ==
  ASSUME IInv, ServiceInv, Retired
  PROVE  ServiceInv'
  <1>1. /\ pc = "retire" /\ pc' = "admit"
        /\ \A i \in 1 .. Len(running) : ~finished[running[i]]
        /\ UNCHANGED <<free, waiting, running, requestVars, admitted, reserved, states, at, history>>
    BY DEF Retired, poolVars, stepVars
  <1>2. /\ \A s : Cold(s)' <=> Cold(s)
        /\ \A s : SettledOrOver(s)' <=> SettledOrOver(s)
        /\ finished' = finished
    BY <1>1, Untouched
  <1>3. admitted = <<>> /\ Len(admitted) = 0
    BY <1>1, EmptySeq DEF IInv, StepLocals
  <1>4. Locals' BY <1>1 DEF ServiceInv, Locals
  <1>5. Outside' BY <1>1, <1>2 DEF ServiceInv, Outside
  <1>6. BatchServed' BY <1>1, <1>2 DEF ServiceInv, BatchServed
  <1>7. AdmittedServed' BY <1>1, <1>3 DEF AdmittedServed
  <1>8. NeedsOwed'
    <2> DEFINE none == [i \in 1 .. 1 |-> 0]
    <2>1. none \in [1 .. 1 -> Nat] /\ none[1] = 0 OBVIOUS
    <2> HIDE DEF none
    <2>2. NFree \in Nat /\ NFree' = NFree BY <1>1, NFreeType DEF IInv, NFree
    <2>3. reserved' = 0 /\ Len(admitted') = 0 BY <1>1, <1>3 DEF ServiceInv, Locals
    <2>4. OwedSums(none)' BY <2>1, <2>3 DEF OwedSums
    <2>5. none[1] = reserved' /\ none[1] <= NFree' BY <2>1, <2>2, <2>3
    <2>6. none \in [1 .. Len(admitted') + 1 -> Nat] BY <2>1, <2>3
    <2> QED BY <1>1, <2>4, <2>5, <2>6 DEF NeedsOwed
  <1>9. Fresh' BY <1>1, <1>2, <1>3 DEF ServiceInv, Fresh, history
  <1> QED BY <1>4, <1>5, <1>6, <1>7, <1>8, <1>9 DEF ServiceInv

\* A request is let in: it holds nothing yet, and what it needs is added to
\* what is promised.
LEMMA AdmitService ==
  ASSUME IInv, ServiceInv, Admit
  PROVE  ServiceInv'
  <1> DEFINE c == waiting[1]
             n == Need(c)
  <1>1. /\ pc = "admit" /\ waiting # <<>>
        /\ n <= NFree - reserved /\ reserved' = reserved + n
        /\ admitted' = Append(admitted, c) /\ waiting' = RemoveAt(waiting, 1)
        /\ UNCHANGED <<free, running, requestVars, pc, states, at, history>>
    BY DEF Admit, AdmitAt, RoomInBatch, NextWaiting, Fits, poolVars
  <1>2. /\ \A s : Cold(s)' <=> Cold(s)
        /\ \A s : SettledOrOver(s)' <=> SettledOrOver(s)
        /\ \A s : Need(s)' = Need(s)
        /\ finished' = finished
    BY <1>1, Untouched
  <1>3. TypeOK BY DEF IInv
  <1>4. /\ waiting \in Seq(Requests) /\ admitted \in Seq(Requests)
        /\ Len(waiting) \in Nat /\ Len(admitted) \in Nat
    BY Apart
  <1>5. 1 \in 1 .. Len(waiting) BY <1>1, <1>4, EmptySeq
  <1>6. /\ Len(waiting') = Len(waiting) - 1
        /\ \A j \in 1 .. Len(waiting) - 1 : waiting'[j] = waiting[j + 1]
    <2> DEFINE rest == RemoveAt(waiting, 1)
    <2>1. /\ Len(rest) = Len(waiting) - 1
          /\ \A j \in 1 .. Len(waiting) - 1 :
                 rest[j] = IF j < 1 THEN waiting[j] ELSE waiting[j + 1]
      BY <1>4, <1>5, RemoveAtType
    <2>2. waiting' = rest BY <1>1
    <2> HIDE DEF rest
    <2> QED BY <1>4, <2>1, <2>2
  <1>7. c \in Requests BY <1>5, Apart
  <1>8. n \in Nat /\ NFree \in Nat /\ reserved \in Nat /\ NFree' = NFree
    BY <1>1, <1>3, <1>7, NeedType, NFreeType DEF TypeOK, NFree
  <1>9. Cold(c)
    <2>1. /\ \A i \in 1 .. Len(running) : running[i] # c
          /\ \A i \in 1 .. Len(admitted) : admitted[i] # c
      BY <1>5, Apart
    <2> QED BY <1>7, <2>1 DEF ServiceInv, Outside
  <1>10. finished[c] => c \in outlived BY <1>5 DEF ServiceInv, Fresh
  <1> HIDE DEF n, c
  <1>11. /\ Len(admitted') = Len(admitted) + 1 /\ admitted'[Len(admitted) + 1] = c
         /\ \A j \in 1 .. Len(admitted) : admitted'[j] = admitted[j]
    BY <1>1, <1>4, <1>7, AppendProperties
  <1>12. Locals' BY <1>1 DEF ServiceInv, Locals
  <1>13. Outside'
    <2>1. ASSUME NEW r \in Requests, \A j \in 1 .. Len(running) : running[j] # r,
                 \A j \in 1 .. Len(admitted') : admitted'[j] # r
          PROVE  Cold(r)
      <3>1. ASSUME NEW j \in 1 .. Len(admitted) PROVE admitted[j] # r
        <4>1. j \in 1 .. Len(admitted') BY <1>4, <1>11
        <4> QED BY <1>11, <2>1, <4>1
      <3> QED BY <2>1, <3>1 DEF ServiceInv, Outside
    <2> QED BY <1>1, <1>2, <2>1 DEF Outside
  <1>14. BatchServed' BY <1>1, <1>2 DEF ServiceInv, BatchServed
  <1>15. AdmittedServed'
    <2>1. ASSUME NEW j \in 1 .. Len(admitted') PROVE Cold(admitted'[j])
      <3>1. j \in 1 .. Len(admitted) \/ j = Len(admitted) + 1 BY <1>4, <1>11
      <3> QED BY <1>1, <1>9, <1>11, <3>1 DEF ServiceInv, AdmittedServed
    <2> QED BY <1>1, <1>2, <2>1 DEF AdmittedServed
  <1>16. NeedsOwed'
    <2>1. PICK owed \in [1 .. Len(admitted) + 1 -> Nat] :
              OwedSums(owed) /\ owed[1] = reserved /\ owed[1] <= NFree
      BY <1>1 DEF ServiceInv, NeedsOwed
    <2>o. \A i \in 1 .. Len(admitted) + 1 : owed[i] \in Nat OBVIOUS
    <2>2. PICK more \in [1 .. Len(admitted) + 2 -> Nat] :
              /\ \A i \in 1 .. Len(admitted) + 1 : owed[i] \in Nat /\ more[i] = owed[i] + n
              /\ more[Len(admitted) + 2] = 0
      <3> DEFINE sum == [i \in 1 .. Len(admitted) + 2 |->
                            IF i <= Len(admitted) + 1 THEN owed[i] + n ELSE 0]
      <3>1. ASSUME NEW i \in 1 .. Len(admitted) + 1
            PROVE  /\ i \in 1 .. Len(admitted) + 2 /\ owed[i] + n \in Nat
                   /\ sum[i] = owed[i] + n
        BY <1>4, <1>8, <2>o
      <3>2. sum[Len(admitted) + 2] = 0 BY <1>4
      <3>3. sum \in [1 .. Len(admitted) + 2 -> Nat]
        <4>1. ASSUME NEW i \in 1 .. Len(admitted) + 2
              PROVE  (IF i <= Len(admitted) + 1 THEN owed[i] + n ELSE 0) \in Nat
          BY <1>4, <1>8, <2>o
        <4> QED BY <4>1
      <3> HIDE DEF sum
      <3> QED BY <2>o, <3>1, <3>2, <3>3
    <2>3. ASSUME NEW i \in 1 .. Len(admitted')
          PROVE  more[i] = Need(admitted'[i]) + more[i + 1]
      <3>1. CASE i \in 1 .. Len(admitted)
        <4>1. i \in 1 .. Len(admitted) + 1 /\ i + 1 \in 1 .. Len(admitted) + 1
          BY <1>4, <3>1
        <4>2. owed[i] = Need(admitted[i]) + owed[i + 1] BY <2>1, <3>1 DEF OwedSums
        <4>3. more[i] = owed[i] + n /\ more[i + 1] = owed[i + 1] + n BY <2>2, <4>1
        <4>4. Need(admitted[i]) \in Nat BY <1>3, <3>1, Apart, NeedType
        <4>5. owed[i] \in Nat /\ owed[i + 1] \in Nat BY <2>2, <4>1
        <4>6. admitted'[i] = admitted[i] BY <1>11, <3>1
        <4> QED BY <1>8, <4>2, <4>3, <4>4, <4>5, <4>6
      <3>2. CASE i = Len(admitted) + 1
        <4>1. owed[i] = 0 BY <2>1, <3>2 DEF OwedSums
        <4>2. i \in 1 .. Len(admitted) + 1 /\ i + 1 = Len(admitted) + 2 BY <1>4, <3>2
        <4>3. more[i] = owed[i] + n /\ more[i + 1] = 0 BY <2>2, <4>2
        <4>4. Need(admitted'[i]) = n BY <1>11, <3>2 DEF n
        <4> QED BY <1>8, <4>1, <4>3, <4>4
      <3>3. i \in 1 .. Len(admitted) \/ i = Len(admitted) + 1 BY <1>4, <1>11
      <3> QED BY <3>1, <3>2, <3>3
    <2>4. Len(admitted') + 1 = Len(admitted) + 2 BY <1>4, <1>11
    <2>5. OwedSums(more)' BY <1>2, <2>2, <2>3, <2>4 DEF OwedSums
    <2>6. more[1] = reserved' /\ more[1] <= NFree'
      <3>1. 1 \in 1 .. Len(admitted) + 1 BY <1>4
      <3>2. more[1] = owed[1] + n BY <2>2, <3>1
      <3> QED BY <1>1, <1>8, <2>1, <3>2
    <2>7. more \in [1 .. Len(admitted') + 1 -> Nat] BY <2>2, <2>4
    <2> QED BY <1>1, <2>5, <2>6, <2>7 DEF NeedsOwed
  <1>17. Fresh'
    <2>1. ASSUME NEW j \in 1 .. Len(waiting'), finished[waiting'[j]]
          PROVE  waiting'[j] \in outlived
      <3>1. j + 1 \in 1 .. Len(waiting) /\ waiting'[j] = waiting[j + 1] BY <1>4, <1>6
      <3> QED BY <2>1, <3>1 DEF ServiceInv, Fresh
    <2>2. ASSUME NEW j \in 1 .. Len(admitted'), finished[admitted'[j]]
          PROVE  admitted'[j] \in outlived
      <3>1. j \in 1 .. Len(admitted) \/ j = Len(admitted) + 1 BY <1>4, <1>11
      <3> QED BY <1>1, <1>10, <1>11, <2>2, <3>1 DEF ServiceInv, Fresh
    <2> QED BY <1>1, <1>2, <2>1, <2>2 DEF ServiceInv, Fresh, history
  <1> QED BY <1>12, <1>13, <1>14, <1>15, <1>16, <1>17 DEF ServiceInv

\* The step turns to those let in, to the batch, or ends.
LEMMA WorkService ==
  ASSUME IInv, ServiceInv, AdmitDone
  PROVE  ServiceInv'
  <1>1. /\ pc = "admit"
        /\ states' = IF admitted # <<>> THEN admitted ELSE running
        /\ reserved' = 0 /\ at' = 1
        /\ pc' = IF admitted # <<>> THEN "prefill" ELSE IF running # <<>> THEN "grow" ELSE "idle"
        /\ UNCHANGED <<free, waiting, running, requestVars, admitted, history>>
    BY DEF AdmitDone, StartWork, poolVars
  <1>2. /\ \A s : Cold(s)' <=> Cold(s)
        /\ \A s : Filled(s)' <=> Filled(s)
        /\ \A s : SettledOrOver(s)' <=> SettledOrOver(s)
        /\ \A s : Growing(s)' <=> Growing(s)
        /\ \A s : Need(s)' = Need(s)
        /\ finished' = finished
    BY <1>1, Untouched
  <1>3. Len(running) \in Nat /\ Len(admitted) \in Nat BY Apart
  <1>4. \A i \in 1 .. Len(running) : SettledOrOver(running[i]) /\ ~finished[running[i]]
    BY <1>1 DEF ServiceInv, BatchServed
  <1>5. Locals' BY <1>1 DEF ServiceInv, Locals
  <1>6. Outside' BY <1>1, <1>2 DEF ServiceInv, Outside
  <1>7. BatchServed'
    <2>1. CASE pc' = "grow"
      <3>1. states' = running BY <1>1, <2>1
      <3>2. \A i \in 1 .. Len(running) : Growing(running[i]) BY <1>4 DEF SettledOrOver, Growing
      <3> QED BY <1>1, <1>2, <1>3, <2>1, <3>1, <3>2 DEF BatchServed
    <2>2. CASE pc' # "grow" BY <1>1, <1>2, <1>4, <2>2 DEF BatchServed
    <2> QED BY <2>1, <2>2
  <1>8. AdmittedServed' BY <1>1, <1>2, <1>3 DEF ServiceInv, AdmittedServed
  <1>9. NeedsOwed'
    <2>1. PICK owed \in [1 .. Len(admitted) + 1 -> Nat] : OwedSums(owed) /\ owed[1] <= NFree
      BY <1>1 DEF ServiceInv, NeedsOwed
    <2>2. OwedSums(owed)' BY <1>1, <1>2, <2>1 DEF OwedSums
    <2>3. at' <= Len(admitted') + 1 /\ owed[at'] <= NFree' BY <1>1, <1>3, <2>1 DEF NFree
    <2>4. owed \in [1 .. Len(admitted') + 1 -> Nat] BY <1>1
    <2> QED BY <1>1, <2>2, <2>3, <2>4 DEF NeedsOwed
  <1>10. Fresh' BY <1>1, <1>2 DEF ServiceInv, Fresh, history
  <1> QED BY <1>5, <1>6, <1>7, <1>8, <1>9, <1>10 DEF ServiceInv

\* Everybody let in has its prompt's KV.
LEMMA PrefilledService ==
  ASSUME IInv, ServiceInv, PrefillDone
  PROVE  ServiceInv'
  <1>1. /\ pc = "prefill" /\ pc' = "emit_prefill" /\ at' = 1
        /\ states = admitted /\ at > Len(admitted)
        /\ UNCHANGED <<free, waiting, running, requestVars, admitted, reserved, states, history>>
    BY DEF PrefillDone, poolVars, ServiceInv, Locals
  <1>2. /\ \A s : Cold(s)' <=> Cold(s)
        /\ \A s : Filled(s)' <=> Filled(s)
        /\ \A s : SettledOrOver(s)' <=> SettledOrOver(s)
        /\ finished' = finished
    BY <1>1, Untouched
  <1>3. Len(admitted) \in Nat /\ at \in Nat BY Apart DEF IInv, TypeOK
  <1>4. Locals' BY <1>1 DEF ServiceInv, Locals
  <1>5. Outside' BY <1>1, <1>2 DEF ServiceInv, Outside
  <1>6. BatchServed' BY <1>1, <1>2 DEF ServiceInv, BatchServed
  <1>7. AdmittedServed' BY <1>1, <1>2, <1>3 DEF ServiceInv, AdmittedServed
  <1>8. NeedsOwed' BY <1>1 DEF NeedsOwed
  <1>9. Fresh' BY <1>1, <1>2 DEF ServiceInv, Fresh, history
  <1> QED BY <1>4, <1>5, <1>6, <1>7, <1>8, <1>9 DEF ServiceInv

\* Those let in join the batch with their first token.
LEMMA JoinService ==
  ASSUME IInv, ServiceInv, Join
  PROVE  ServiceInv'
  <1>1. /\ pc = "emit_prefill" /\ at > Len(admitted)
        /\ running' = running \o admitted /\ admitted' = <<>>
        /\ states' = running /\ at' = 1 /\ reserved = 0
        /\ pc' = IF running # <<>> THEN "grow" ELSE "idle"
        /\ UNCHANGED <<free, waiting, requestVars, reserved, history>>
    BY DEF Join, JoinRunning, poolVars, ServiceInv, Locals
  <1>2. /\ \A s : Cold(s)' <=> Cold(s)
        /\ \A s : SettledOrOver(s)' <=> SettledOrOver(s)
        /\ \A s : Growing(s)' <=> Growing(s)
        /\ finished' = finished
    BY <1>1, Untouched
  <1>3. /\ running \in Seq(Requests) /\ admitted \in Seq(Requests)
        /\ Len(running) \in Nat /\ Len(admitted) \in Nat /\ at \in Nat
    BY Apart DEF IInv, TypeOK
  <1>4. Len(admitted') = 0 BY <1>1, EmptySeq
  <1>5. /\ Len(running') = Len(running) + Len(admitted)
        /\ \A i \in 1 .. Len(running) : running'[i] = running[i]
        /\ \A i \in 1 .. Len(running') :
               i > Len(running) => /\ i - Len(running) \in 1 .. Len(admitted)
                                   /\ running'[i] = admitted[i - Len(running)]
        /\ \A i \in 1 .. Len(admitted) : /\ Len(running) + i \in 1 .. Len(running')
                                         /\ running'[Len(running) + i] = admitted[i]
    <2> DEFINE all == running \o admitted
    <2>1. /\ Len(all) = Len(running) + Len(admitted)
          /\ \A i \in 1 .. Len(running) + Len(admitted) :
                 all[i] = IF i <= Len(running) THEN running[i] ELSE admitted[i - Len(running)]
      BY <1>3, ConcatProperties
    <2>2. running' = all BY <1>1
    <2> HIDE DEF all
    <2> QED BY <1>3, <2>1, <2>2
  <1>6. \A i \in 1 .. Len(running) : SettledOrOver(running[i]) /\ ~finished[running[i]]
    BY <1>1 DEF ServiceInv, BatchServed
  <1>7. \A i \in 1 .. Len(admitted) : SettledOrOver(admitted[i])
    BY <1>1, <1>3 DEF ServiceInv, AdmittedServed
  <1>8. Locals'
    <2>1. pc' \in {"grow", "idle"} BY <1>1
    <2> QED BY <1>1, <2>1 DEF Locals
  <1>9. Outside'
    <2>1. ASSUME NEW r \in Requests, \A i \in 1 .. Len(running') : running'[i] # r
          PROVE  Cold(r)
      <3>1. ASSUME NEW i \in 1 .. Len(running) PROVE running[i] # r
        <4>1. i \in 1 .. Len(running') BY <1>3, <1>5
        <4> QED BY <1>5, <2>1, <4>1
      <3>2. ASSUME NEW i \in 1 .. Len(admitted) PROVE admitted[i] # r
        BY <1>5, <2>1
      <3> QED BY <3>1, <3>2 DEF ServiceInv, Outside
    <2> QED BY <1>2, <2>1 DEF Outside
  <1>10. BatchServed'
    <2>1. ASSUME NEW i \in 1 .. Len(running')
          PROVE  /\ SettledOrOver(running'[i])
                 /\ i <= Len(running) => Growing(running'[i])
      <3>1. CASE i <= Len(running)
        <4>1. i \in 1 .. Len(running) BY <1>3, <1>5, <3>1
        <4>2. running'[i] = running[i] BY <1>5, <4>1
        <4>3. Growing(running[i]) BY <1>6, <4>1 DEF SettledOrOver, Growing
        <4> QED BY <1>6, <4>1, <4>2, <4>3
      <3>2. CASE i > Len(running) BY <1>3, <1>5, <1>7, <3>2
      <3> QED BY <1>3, <1>5, <3>1, <3>2
    <2>2. CASE pc' = "grow"
      <3>1. \A i \in 1 .. Len(running') : ~(i < at') BY <1>1
      <3> QED BY <1>1, <1>2, <2>1, <2>2, <3>1 DEF BatchServed
    <2>3. CASE pc' = "idle" BY <1>2, <2>1, <2>3 DEF BatchServed
    <2> QED BY <1>1, <2>2, <2>3
  <1>11. AdmittedServed' /\ NeedsOwed' BY <1>1 DEF AdmittedServed, NeedsOwed
  <1>12. Fresh'
    <2>1. pc' \in {"grow", "idle"} BY <1>1
    <2> QED BY <1>1, <1>2, <2>1 DEF ServiceInv, Fresh, history
  <1> QED BY <1>8, <1>9, <1>10, <1>11, <1>12 DEF ServiceInv

\* The step ends.
LEMMA EndService ==
  ASSUME IInv, ServiceInv, EndStep
  PROVE  ServiceInv'
  <1>1. /\ pc = "emit_decode" /\ at > Len(states) /\ pc' = "idle"
        /\ UNCHANGED <<free, waiting, running, requestVars, admitted, reserved, history>>
    BY DEF EndStep, poolVars
  <1>2. /\ \A s : Cold(s)' <=> Cold(s)
        /\ \A s : SettledOrOver(s)' <=> SettledOrOver(s)
        /\ finished' = finished
    BY <1>1, Untouched
  <1>3. Len(states) \in Nat /\ at \in Nat /\ Len(running) \in Nat
    BY Apart, LenProperties DEF IInv, TypeOK
  <1>4. Locals' BY <1>1 DEF ServiceInv, Locals
  <1>5. Outside' BY <1>1, <1>2 DEF ServiceInv, Outside
  <1>6. BatchServed'
    <2>1. ASSUME NEW i \in 1 .. Len(running) PROVE SettledOrOver(running[i])
      <3>1. i > Len(states) \/ i < at BY <1>1, <1>3
      <3> QED BY <1>1, <3>1 DEF ServiceInv, BatchServed
    <2> QED BY <1>1, <1>2, <2>1 DEF BatchServed
  <1>7. AdmittedServed' /\ NeedsOwed' BY <1>1 DEF AdmittedServed, NeedsOwed
  <1>8. Fresh' BY <1>1, <1>2 DEF ServiceInv, Fresh, history
  <1> QED BY <1>4, <1>5, <1>6, <1>7, <1>8 DEF ServiceInv

\* Nothing happens.
LEMMA StutterService ==
  ASSUME IInv, ServiceInv, UNCHANGED vars
  PROVE  ServiceInv'
  <1>1. UNCHANGED <<free, waiting, running, requestVars, pc, admitted, reserved, states, at,
                    arrival, outlived>>
    BY DEF vars, stepVars, history
  <1>2. /\ \A s : Cold(s)' <=> Cold(s)
        /\ \A s : Filled(s)' <=> Filled(s)
        /\ \A s : SettledOrOver(s)' <=> SettledOrOver(s)
        /\ \A s : Growing(s)' <=> Growing(s)
        /\ \A s : SlotGrown(s)' <=> SlotGrown(s)
        /\ \A s : Need(s)' = Need(s)
        /\ finished' = finished
    BY <1>1, Untouched
  <1>3. Locals' BY <1>1 DEF ServiceInv, Locals
  <1>4. Outside' BY <1>1, <1>2 DEF ServiceInv, Outside
  <1>5. BatchServed' BY <1>1, <1>2 DEF ServiceInv, BatchServed
  <1>6. AdmittedServed' BY <1>1, <1>2 DEF ServiceInv, AdmittedServed
  <1>7. NeedsOwed' BY <1>1, <1>2 DEF ServiceInv, NeedsOwed, OwedSums, NFree
  <1>8. Fresh' BY <1>1, <1>2 DEF ServiceInv, Fresh
  <1> QED BY <1>3, <1>4, <1>5, <1>6, <1>7, <1>8 DEF ServiceInv

--------------------------------------------------------------------------------
(* The steps that serve one request. *)

\* A table that grows by n blocks, and the others, which do not change.
LEMMA ExtendService ==
  ASSUME TypeOK, NEW n \in Nat, n <= NFree, NEW r \in Requests, NEW taken \in Takings(n),
         Extend(r, taken)
  PROVE  /\ NFree' = NFree - n
         /\ Len(block_table'[r]) = Len(block_table[r]) + n
         /\ \A s \in Requests : s # r => block_table'[s] = block_table[s]
  <1>1. taken \in Seq(Blocks) /\ Len(taken) = n BY TakingsType
  <1>2. block_table[r] \in Seq(Blocks) BY DEF TypeOK
  <1>3. Len(block_table[r] \o taken) = Len(block_table[r]) + n BY <1>1, <1>2, ConcatProperties
  <1>4. Cardinality(free \ Range(taken)) = NFree - n BY TakingsLeave
  <1>5. free' = free \ Range(taken) BY DEF Extend, Allocate
  <1>6. NFree' = NFree - n BY <1>4, <1>5 DEF NFree
  <1>7. block_table' = [block_table EXCEPT ![r] = block_table[r] \o taken] BY DEF Extend
  <1>8. /\ block_table'[r] = block_table[r] \o taken
        /\ \A s \in Requests : s # r => block_table'[s] = block_table[s]
    BY <1>7 DEF TypeOK
  <1> QED BY <1>3, <1>6, <1>8

\* A request let in finds the blocks it was promised, and gets its prompt's KV.
LEMMA PrefillService ==
  ASSUME IInv, ServiceInv, PrefillOne
  PROVE  ServiceInv'
  <1>1. /\ pc = "prefill" /\ states = admitted /\ at <= Len(admitted)
        /\ UNCHANGED <<waiting, running, output_token_ids, finished, admitted, reserved,
                       states, history>>
    BY DEF PrefillOne, ServiceInv, Locals
  <1>2. TypeOK /\ Len(admitted) \in Nat /\ at \in Nat \ {0} /\ at \in 1 .. Len(admitted)
    <2>1. TypeOK BY DEF IInv
    <2>2. Len(admitted) \in Nat BY Apart
    <2>3. at \in Nat \ {0} BY <2>1 DEF TypeOK
    <2> QED BY <1>1, <2>1, <2>2, <2>3
  <1>3. PICK r \in Requests : r = admitted[at] BY <1>2, Apart
  <1>4. /\ \A i \in 1 .. Len(running) : running[i] # r
        /\ \A i \in 1 .. Len(admitted) : i # at => admitted[i] # r
        /\ \A i \in 1 .. Len(admitted) : admitted[i] \in Requests
        /\ \A i \in 1 .. Len(running) : running[i] \in Requests
    <2>1. /\ \A i, j \in 1 .. Len(admitted) : admitted[i] = admitted[j] => i = j
          /\ \A i \in 1 .. Len(running), j \in 1 .. Len(admitted) : running[i] # admitted[j]
          /\ \A i \in 1 .. Len(admitted) : admitted[i] \in Requests
          /\ \A i \in 1 .. Len(running) : running[i] \in Requests
      BY Apart
    <2> QED BY <1>2, <1>3, <2>1
  <1>t. PICK total \in Nat : total = TotalLen(r) BY <1>2, TotalLenType
  <1>5. /\ BlocksNeeded(total) \in Nat /\ Need(r) \in Nat
        /\ BlocksNeeded(total) <= Need(r)
    BY <1>2, <1>t, BlocksNeededType, NeedType, BlocksNeededGrows DEF Need
  <1> DEFINE n == Missing(r, total)
  <1>6. Cold(r) BY <1>1, <1>2, <1>3 DEF ServiceInv, AdmittedServed
  <1>7. n = BlocksNeeded(total)
    <2>1. Len(block_table[r]) = 0 /\ stored[r] + total = total
      BY <1>5, <1>6, EmptySeq DEF Cold
    <2>2. BlocksNeeded(stored[r] + total) = BlocksNeeded(total) BY <2>1
    <2> QED BY <1>5, <2>1, <2>2 DEF Missing
  <1>8. PICK owed \in [1 .. Len(admitted) + 1 -> Nat] : OwedSums(owed) /\ owed[at] <= NFree
    BY <1>1 DEF ServiceInv, NeedsOwed
  <1>9. /\ owed[at] = Need(r) + owed[at + 1] /\ owed[at] \in Nat /\ owed[at + 1] \in Nat
    <2>1. at \in 1 .. Len(admitted) + 1 /\ at + 1 \in 1 .. Len(admitted) + 1 BY <1>2, <1>3
    <2> QED BY <1>2, <1>3, <1>8, <2>1 DEF OwedSums
  <1>10. n \in Nat /\ NFree \in Nat /\ n <= NFree BY <1>2, <1>5, <1>7, <1>8, <1>9, NFreeType
  <1>11. /\ \E taken \in Takings(n) : Extend(r, taken)
         /\ stored' = [stored EXCEPT ![r] = total]
         /\ at' = at + 1 /\ pc' = pc
    BY <1>1, <1>3, <1>t, <1>10 DEF PrefillOne, Available
  <1> HIDE DEF n
  <1>12. /\ NFree' = NFree - n /\ Len(block_table'[r]) = Len(block_table[r]) + n
         /\ \A s \in Requests : s # r => block_table'[s] = block_table[s]
    BY <1>2, <1>3, <1>10, <1>11, ExtendService
  <1>13. stored'[r] = total /\ \A s \in Requests : s # r => stored'[s] = stored[s]
    BY <1>2, <1>3, <1>11 DEF TypeOK
  <1>14. ASSUME NEW s \in Requests, s # r
         PROVE  /\ Cold(s)' <=> Cold(s)
                /\ Filled(s)' <=> Filled(s)
                /\ SettledOrOver(s)' <=> SettledOrOver(s)
    <2>1. SameService(s) BY <1>1, <1>12, <1>13, <1>14 DEF SameService
    <2> QED BY <2>1, FrameOthers
  <1>15. Filled(r)'
    <2>1. TotalLen(r)' = total BY <1>1, <1>t DEF TotalLen
    <2>2. Len(block_table'[r]) = BlocksNeeded(total)
      BY <1>6, <1>7, <1>10, <1>12, EmptySeq DEF Cold
    <2>3. BlocksNeeded(stored[r])' = BlocksNeeded(total) BY <1>13 DEF BlocksNeeded
    <2> QED BY <1>13, <2>1, <2>2, <2>3 DEF Filled
  <1>16. Locals' BY <1>1, <1>11 DEF ServiceInv, Locals
  <1>17. Outside' BY <1>1, <1>2, <1>3, <1>14 DEF ServiceInv, Outside
  <1>18. BatchServed' BY <1>1, <1>4, <1>11, <1>14 DEF ServiceInv, BatchServed
  <1>19. AdmittedServed'
    <2>1. ASSUME NEW i \in 1 .. Len(admitted), NEW s \in Requests, s = admitted[i]
          PROVE  IF i < at + 1 THEN Filled(s)' ELSE Cold(s)'
      <3>1. CASE i = at
        <4>1. s = r /\ i < at + 1 BY <1>2, <1>3, <2>1, <3>1
        <4> QED BY <1>15, <4>1
      <3>2. CASE i # at
        <4>1. i < at + 1 <=> i < at BY <1>2, <3>2
        <4>2. s # r BY <1>4, <2>1, <3>2
        <4>3. IF i < at THEN Filled(s) ELSE Cold(s) BY <1>1, <2>1 DEF ServiceInv, AdmittedServed
        <4> QED BY <1>14, <4>1, <4>2, <4>3
      <3> QED BY <3>1, <3>2
    <2>2. ASSUME NEW i \in 1 .. Len(admitted')
          PROVE  (IF i < at THEN Filled(admitted[i]) ELSE Cold(admitted[i]))'
      <3>1. i \in 1 .. Len(admitted) /\ at' = at + 1 /\ admitted' = admitted BY <1>1, <1>11
      <3>2. PICK s \in Requests : s = admitted[i] BY <1>4, <3>1
      <3>3. IF i < at + 1 THEN Filled(s)' ELSE Cold(s)' BY <2>1, <3>1, <3>2
      <3>4. admitted'[i] = s BY <3>1, <3>2
      <3> QED BY <3>1, <3>3, <3>4
    <2> QED BY <1>1, <1>11, <2>2 DEF AdmittedServed
  <1>20. NeedsOwed'
    <2>1. \A s : Need(s)' = Need(s) BY <1>1 DEF Need, TotalLen, BlocksNeeded
    <2>2. OwedSums(owed)' BY <1>1, <1>8, <2>1 DEF OwedSums
    <2>3. at' <= Len(admitted') + 1 BY <1>1, <1>2, <1>11
    <2>4. owed[at'] <= NFree'
      <3>1. n <= Need(r) /\ Need(r) \in Nat BY <1>5, <1>7
      <3>2. owed[at + 1] <= NFree - n BY <1>8, <1>9, <1>10, <3>1
      <3> QED BY <1>11, <1>12, <3>2
    <2> QED BY <1>1, <1>11, <2>2, <2>3, <2>4 DEF NeedsOwed
  <1>21. Fresh' BY <1>1, <1>11 DEF ServiceInv, Fresh, history
  <1> QED BY <1>16, <1>17, <1>18, <1>19, <1>20, <1>21 DEF ServiceInv

\* A token leaves its request settled: ended and without memory, or with the
\* KV of all tokens but that one.
LEMMA DeliverService ==
  ASSUME TypeOK, NEW r \in Requests, states[at] = r, Filled(r), Emit
  PROVE  /\ SettledOrOver(r)'
         /\ \A s \in Requests : s # r => SameService(s)
  <1>1. PICK token \in Vocab : Deliver(r, token) BY DEF Emit
  <1> DEFINE out == Append(output_token_ids[r], token)
  <1>2. /\ out \in Seq(Vocab) /\ Len(out) = Len(output_token_ids[r]) + 1
        /\ Len(output_token_ids[r]) \in Nat
    BY AppendProperties, LenProperties DEF TypeOK
  <1>3. /\ output_token_ids'[r] = out
        /\ \A s \in Requests : s # r => output_token_ids'[s] = output_token_ids[s]
    BY <1>1 DEF Deliver, TypeOK
  <1> HIDE DEF out
  <1>4. \A s \in Requests : s # r => finished'[s] = finished[s]
    BY <1>1 DEF Deliver, TypeOK
  <1>5. \/ Release(r) /\ finished'[r]
        \/ UNCHANGED <<block_table, stored>> /\ ~finished'[r]
    BY DEF Emit
  <1>6. CASE Release(r) /\ finished'[r]
    <2>1. /\ block_table'[r] = <<>> /\ stored'[r] = 0
          /\ \A s \in Requests : s # r => /\ block_table'[s] = block_table[s]
                                          /\ stored'[s] = stored[s]
      BY <1>6 DEF Release, TypeOK
    <2> QED BY <1>3, <1>4, <1>6, <2>1 DEF SettledOrOver, Cold, SameService
  <1>7. CASE UNCHANGED <<block_table, stored>> /\ ~finished'[r]
    <2>1. TotalLen(r)' = TotalLen(r) + 1
      <3>1. Len(Prompt[r]) \in Nat
        <4>1. Prompt[r] \in Seq(Vocab) BY EngineAssumption
        <4> QED BY <4>1, LenProperties
      <3>2. PICK m \in Nat : m = Len(Prompt[r]) BY <3>1
      <3>3. PICK n \in Nat : n = Len(output_token_ids[r]) BY <1>2
      <3>4. Len(output_token_ids'[r]) = n + 1 BY <1>2, <1>3, <3>3
      <3>5. TotalLen(r) = m + n /\ TotalLen(r)' = m + (n + 1)
        BY <3>2, <3>3, <3>4, Zenon DEF TotalLen
      <3> QED BY <3>5
    <2>2. stored'[r] + 1 = TotalLen(r)' BY <1>7, <2>1 DEF Filled
    <2>3. BlocksNeeded(stored[r])' = BlocksNeeded(stored[r]) BY <1>7 DEF BlocksNeeded
    <2>4. Len(block_table'[r]) = BlocksNeeded(stored[r])' BY <1>7, <2>3 DEF Filled
    <2>5. SettledOrOver(r)' BY <1>7, <2>2, <2>4 DEF SettledOrOver
    <2> QED BY <1>3, <1>4, <1>7, <2>5 DEF SameService
  <1> QED BY <1>5, <1>6, <1>7

\* The first token of those let in, or the next one of the batch.
LEMMA EmitService ==
  ASSUME IInv, ServiceInv, Emit
  PROVE  ServiceInv'
  <1>1. /\ pc \in {"emit_prefill", "emit_decode"} /\ at <= Len(states) /\ at' = at + 1
        /\ UNCHANGED <<waiting, running, pc, admitted, reserved, states, history>>
    BY DEF Emit
  <1>2. TypeOK /\ Len(states) \in Nat /\ at \in Nat \ {0} /\ at \in 1 .. Len(states)
    <2>1. TypeOK BY DEF IInv
    <2>2. at \in Nat \ {0} /\ states \in Seq(Requests) BY <2>1 DEF TypeOK
    <2>3. Len(states) \in Nat BY <2>2, LenProperties
    <2> QED BY <1>1, <2>1, <2>2, <2>3
  <1>3. PICK r \in Requests : r = states[at]
    <2>1. states \in Seq(Requests) BY <1>2 DEF TypeOK
    <2> QED BY <1>2, <2>1, ElementOfSeq
  <1>4. Locals' BY <1>1 DEF ServiceInv, Locals
  <1>5. NeedsOwed' BY <1>1 DEF NeedsOwed
  <1>a. /\ \A i \in 1 .. Len(running) : running[i] \in Requests
        /\ \A i \in 1 .. Len(admitted) : admitted[i] \in Requests
        /\ \A i \in 1 .. Len(waiting) : waiting[i] \in Requests
        /\ Len(running) \in Nat /\ Len(admitted) \in Nat
    BY Apart
  <1>6. CASE pc = "emit_prefill"
    <2>1. states = admitted BY <1>6 DEF ServiceInv, Locals
    <2>2. Filled(r) BY <1>2, <1>3, <1>6, <2>1 DEF ServiceInv, AdmittedServed
    <2>3. /\ SettledOrOver(r)'
          /\ \A s \in Requests : s # r => SameService(s)
      BY <1>2, <1>3, <2>2, DeliverService
    <2>4. ASSUME NEW s \in Requests, s # r
          PROVE  /\ Cold(s)' <=> Cold(s)
                 /\ Filled(s)' <=> Filled(s)
                 /\ SettledOrOver(s)' <=> SettledOrOver(s)
                 /\ finished'[s] = finished[s]
      BY <2>3, <2>4, FrameOthers
    <2>5. /\ \A i \in 1 .. Len(running) : running[i] # r
          /\ \A i \in 1 .. Len(admitted) : i # at => admitted[i] # r
          /\ \A i \in 1 .. Len(waiting) : waiting[i] # r
          /\ \E k \in 1 .. Len(arrival) : arrival[k] = r
      <3>1. /\ \A i, j \in 1 .. Len(admitted) : admitted[i] = admitted[j] => i = j
            /\ \A i \in 1 .. Len(running), j \in 1 .. Len(admitted) : running[i] # admitted[j]
            /\ \A i \in 1 .. Len(admitted), j \in 1 .. Len(waiting) : admitted[i] # waiting[j]
            /\ \A i \in 1 .. Len(admitted) : \E k \in 1 .. Len(arrival) : arrival[k] = admitted[i]
        BY Apart
      <3> QED BY <1>2, <1>3, <2>1, <3>1
    <2>6. Outside' BY <1>1, <1>2, <1>3, <2>1, <2>4 DEF ServiceInv, Outside
    <2>7. BatchServed' BY <1>1, <1>6, <1>a, <2>4, <2>5 DEF ServiceInv, BatchServed
    <2>8. AdmittedServed'
      <3>1. ASSUME NEW i \in 1 .. Len(admitted), NEW s \in Requests, s = admitted[i]
            PROVE  IF i < at + 1 THEN SettledOrOver(s)' ELSE Filled(s)'
        <4>1. CASE i = at
          <5>1. s = r /\ i < at + 1 BY <1>2, <1>3, <2>1, <3>1, <4>1
          <5> QED BY <2>3, <5>1
        <4>2. CASE i # at
          <5>1. i < at + 1 <=> i < at BY <1>2, <4>2
          <5>2. s # r BY <2>5, <3>1, <4>2
          <5>3. IF i < at THEN SettledOrOver(s) ELSE Filled(s) BY <1>6, <3>1 DEF ServiceInv, AdmittedServed
          <5> QED BY <2>4, <5>1, <5>2, <5>3
        <4> QED BY <4>1, <4>2
      <3>2. ASSUME NEW i \in 1 .. Len(admitted')
            PROVE  (IF i < at THEN SettledOrOver(admitted[i]) ELSE Filled(admitted[i]))'
        <4>1. i \in 1 .. Len(admitted) /\ at' = at + 1 /\ admitted' = admitted BY <1>1
        <4>2. PICK s \in Requests : s = admitted[i] BY <1>a, <4>1
        <4>3. IF i < at + 1 THEN SettledOrOver(s)' ELSE Filled(s)' BY <3>1, <4>1, <4>2
        <4>4. admitted'[i] = s BY <4>1, <4>2
        <4> QED BY <4>1, <4>3, <4>4
      <3> QED BY <1>1, <1>6, <3>2 DEF AdmittedServed
    <2>9. Fresh'
      <3>1. ASSUME NEW i \in 1 .. Len(waiting), finished'[waiting[i]]
            PROVE  waiting[i] \in outlived
        <4>1. finished[waiting[i]] BY <1>a, <2>4, <2>5, <3>1
        <4> QED BY <4>1 DEF ServiceInv, Fresh
      <3>2. ASSUME NEW i \in 1 .. Len(admitted), i >= at + 1, finished'[admitted[i]]
            PROVE  admitted[i] \in outlived
        <4>1. i >= at /\ i # at BY <1>2, <3>2
        <4>2. finished[admitted[i]] BY <1>a, <2>4, <2>5, <3>2, <4>1
        <4> QED BY <1>6, <4>1, <4>2 DEF ServiceInv, Fresh
      <3>3. ASSUME NEW s \in Requests, finished'[s]
            PROVE  \E k \in 1 .. Len(arrival) : arrival[k] = s
        <4>1. CASE s = r BY <2>5, <4>1
        <4>2. CASE s # r BY <2>4, <3>3, <4>2 DEF ServiceInv, Fresh
        <4> QED BY <4>1, <4>2
      <3> QED BY <1>1, <1>6, <3>1, <3>2, <3>3 DEF Fresh, history
    <2> QED BY <1>4, <1>5, <2>6, <2>7, <2>8, <2>9 DEF ServiceInv
  <1>7. CASE pc = "emit_decode"
    <2>1. /\ Len(states) <= Len(running)
          /\ \A i \in 1 .. Len(states) : states[i] = running[i]
      BY <1>7 DEF ServiceInv, Locals
    <2>2. at \in 1 .. Len(running) /\ r = running[at] BY <1>2, <1>3, <1>a, <2>1
    <2>3. Filled(r) BY <1>1, <1>2, <1>7, <2>2 DEF ServiceInv, BatchServed
    <2>4. /\ SettledOrOver(r)'
          /\ \A s \in Requests : s # r => SameService(s)
      BY <1>2, <1>3, <2>3, DeliverService
    <2>5. ASSUME NEW s \in Requests, s # r
          PROVE  /\ Cold(s)' <=> Cold(s)
                 /\ Filled(s)' <=> Filled(s)
                 /\ SettledOrOver(s)' <=> SettledOrOver(s)
                 /\ finished'[s] = finished[s]
      BY <2>4, <2>5, FrameOthers
    <2>6. /\ \A i \in 1 .. Len(running) : i # at => running[i] # r
          /\ \A i \in 1 .. Len(waiting) : waiting[i] # r
          /\ \E k \in 1 .. Len(arrival) : arrival[k] = r
      <3>1. /\ \A i, j \in 1 .. Len(running) : running[i] = running[j] => i = j
            /\ \A i \in 1 .. Len(running), j \in 1 .. Len(waiting) : running[i] # waiting[j]
            /\ \A i \in 1 .. Len(running) : \E k \in 1 .. Len(arrival) : arrival[k] = running[i]
        BY Apart
      <3> QED BY <2>2, <3>1
    <2>7. Outside' BY <1>1, <2>2, <2>5 DEF ServiceInv, Outside
    <2>8. BatchServed'
      <3>1. ASSUME NEW i \in 1 .. Len(running), NEW s \in Requests, s = running[i]
            PROVE  /\ i > Len(states) \/ i < at + 1 => SettledOrOver(s)'
                   /\ i <= Len(states) /\ i >= at + 1 => Filled(s)' /\ ~finished'[s]
        <4>1. CASE i = at
          <5>1. s = r /\ ~(i >= at + 1) BY <1>2, <2>2, <3>1, <4>1
          <5> QED BY <2>4, <5>1
        <4>2. CASE i # at
          <5>1. /\ i < at + 1 <=> i < at
                /\ i >= at + 1 => i >= at
            BY <1>2, <4>2
          <5>2. s # r BY <2>6, <3>1, <4>2
          <5>3. /\ i > Len(states) \/ i < at => SettledOrOver(s)
                /\ i <= Len(states) /\ i >= at => Filled(s) /\ ~finished[s]
            BY <1>7, <3>1 DEF ServiceInv, BatchServed
          <5> QED BY <2>5, <5>1, <5>2, <5>3
        <4> QED BY <4>1, <4>2
      <3>2. ASSUME NEW i \in 1 .. Len(running')
            PROVE  (/\ i > Len(states) \/ i < at => SettledOrOver(running[i])
                    /\ i <= Len(states) /\ i >= at => Filled(running[i]) /\ ~finished[running[i]])'
        <4>1. /\ i \in 1 .. Len(running) /\ at' = at + 1 /\ running' = running
              /\ states' = states
          BY <1>1
        <4>2. PICK s \in Requests : s = running[i] BY <1>a, <4>1
        <4>3. /\ i > Len(states) \/ i < at + 1 => SettledOrOver(s)'
              /\ i <= Len(states) /\ i >= at + 1 => Filled(s)' /\ ~finished'[s]
          BY <3>1, <4>1, <4>2
        <4>4. running'[i] = s BY <4>1, <4>2
        <4> QED BY <4>1, <4>3, <4>4
      <3> QED BY <1>1, <1>7, <3>2 DEF BatchServed
    <2>9. AdmittedServed' BY <1>1, <1>7 DEF AdmittedServed
    <2>10. Fresh'
      <3>1. ASSUME NEW i \in 1 .. Len(waiting), finished'[waiting[i]]
            PROVE  waiting[i] \in outlived
        <4>1. finished[waiting[i]] BY <1>a, <2>5, <2>6, <3>1
        <4> QED BY <4>1 DEF ServiceInv, Fresh
      <3>2. ASSUME NEW s \in Requests, finished'[s]
            PROVE  \E k \in 1 .. Len(arrival) : arrival[k] = s
        <4>1. CASE s = r BY <2>6, <4>1
        <4>2. CASE s # r BY <2>5, <3>2, <4>2 DEF ServiceInv, Fresh
        <4> QED BY <4>1, <4>2
      <3> QED BY <1>1, <1>7, <3>1, <3>2 DEF Fresh, history
    <2> QED BY <1>4, <1>5, <2>7, <2>8, <2>9, <2>10 DEF ServiceInv
  <1> QED BY <1>1, <1>6, <1>7

\* A slot for the next token of one of the batch.
LEMMA GrowService ==
  ASSUME IInv, ServiceInv, GrowOne
  PROVE  ServiceInv'
  <1>1. /\ pc = "grow" /\ at <= Len(states) /\ at' = at + 1
        /\ UNCHANGED <<waiting, running, stored, output_token_ids, finished, pc, admitted,
                       reserved, states, history>>
    BY DEF GrowOne
  <1>2. /\ TypeOK /\ Len(states) \in Nat /\ at \in Nat \ {0} /\ at \in 1 .. Len(states)
        /\ Len(states) <= Len(running) /\ Len(running) \in Nat
        /\ \A i \in 1 .. Len(states) : states[i] = running[i]
    <2>1. TypeOK /\ StepLocals BY DEF IInv
    <2>2. at \in Nat \ {0} /\ states \in Seq(Requests) BY <2>1 DEF TypeOK
    <2>3. Len(states) \in Nat BY <2>2, LenProperties
    <2>4. Len(running) \in Nat BY Apart
    <2>5. /\ Len(states) <= Len(running)
          /\ \A i \in 1 .. Len(states) : states[i] = running[i]
      BY <1>1, <2>1 DEF StepLocals
    <2> QED BY <1>1, <2>1, <2>2, <2>3, <2>4, <2>5
  <1>a. \A i \in 1 .. Len(running) : running[i] \in Requests BY Apart
  <1>3. at \in 1 .. Len(running) BY <1>2
  <1>4. PICK r \in Requests : r = running[at] BY <1>3, <1>a
  <1>5. \A i \in 1 .. Len(running) : i # at => running[i] # r
    <2>1. \A i, j \in 1 .. Len(running) : running[i] = running[j] => i = j BY Apart
    <2> QED BY <1>3, <1>4, <2>1
  <1>6. Growing(r) BY <1>1, <1>2, <1>3, <1>4 DEF ServiceInv, BatchServed
  <1> DEFINE n == Missing(r, 1)
  <1>7. /\ n \in Nat /\ Len(block_table[r]) + n = BlocksNeeded(stored[r] + 1)
    <2>0. stored \in [Requests -> Nat] BY <1>2 DEF TypeOK
    <2>1. stored[r] \in Nat /\ stored[r] + 1 \in Nat BY <2>0
    <2>2. /\ BlocksNeeded(stored[r]) \in Nat /\ BlocksNeeded(stored[r] + 1) \in Nat
          /\ BlocksNeeded(stored[r]) <= BlocksNeeded(stored[r] + 1)
      BY <2>1, BlocksNeededType, BlocksNeededGrows
    <2>3. CASE Len(block_table[r]) = BlocksNeeded(stored[r])
      BY <2>2, <2>3 DEF Missing
    <2>4. CASE Len(block_table[r]) = BlocksNeeded(stored[r] + 1)
      BY <2>2, <2>4 DEF Missing
    <2> QED BY <1>6, <2>3, <2>4 DEF Growing
  <1>8. n <= NFree /\ \E taken \in Takings(n) : Extend(r, taken)
    BY <1>2, <1>4 DEF GrowOne, Available
  <1> HIDE DEF n
  <1>9. /\ Len(block_table'[r]) = Len(block_table[r]) + n
        /\ \A s \in Requests : s # r => block_table'[s] = block_table[s]
    BY <1>2, <1>7, <1>8, ExtendService
  <1>10. ASSUME NEW s \in Requests, s # r
         PROVE  /\ Cold(s)' <=> Cold(s)
                /\ SettledOrOver(s)' <=> SettledOrOver(s)
                /\ Growing(s)' <=> Growing(s)
                /\ SlotGrown(s)' <=> SlotGrown(s)
    <2>1. SameService(s) BY <1>1, <1>9, <1>10 DEF SameService
    <2> QED BY <2>1, FrameOthers
  <1>11. Growing(r)' /\ SlotGrown(r)'
    <2>1. Len(block_table'[r]) = BlocksNeeded(stored[r] + 1) BY <1>7, <1>9
    <2>2. BlocksNeeded(stored[r] + 1)' = BlocksNeeded(stored[r] + 1)
      BY <1>1 DEF BlocksNeeded
    <2>3. TotalLen(r)' = TotalLen(r) BY <1>1 DEF TotalLen
    <2> QED BY <1>1, <1>6, <2>1, <2>2, <2>3 DEF Growing, SlotGrown
  <1>12. Locals' BY <1>1 DEF ServiceInv, Locals
  <1>13. Outside' BY <1>1, <1>3, <1>4, <1>10 DEF ServiceInv, Outside
  <1>14. BatchServed'
    <2>1. ASSUME NEW i \in 1 .. Len(running), NEW s \in Requests, s = running[i]
          PROVE  /\ i > Len(states) => SettledOrOver(s)'
                 /\ i <= Len(states) => Growing(s)'
                 /\ i <= Len(states) /\ i < at + 1 => SlotGrown(s)'
      <3>1. CASE i = at
        <4>1. s = r /\ ~(i > Len(states)) BY <1>2, <1>4, <2>1, <3>1
        <4> QED BY <1>11, <4>1
      <3>2. CASE i # at
        <4>1. i < at + 1 <=> i < at BY <1>2, <3>2
        <4>2. s # r BY <1>5, <2>1, <3>2
        <4>3. /\ i > Len(states) => SettledOrOver(s)
              /\ i <= Len(states) => Growing(s)
              /\ i <= Len(states) /\ i < at => SlotGrown(s)
          BY <1>1, <2>1 DEF ServiceInv, BatchServed
        <4> QED BY <1>10, <4>1, <4>2, <4>3
      <3> QED BY <3>1, <3>2
    <2>2. ASSUME NEW i \in 1 .. Len(running')
          PROVE  (/\ i > Len(states) => SettledOrOver(running[i])
                  /\ i <= Len(states) => Growing(running[i])
                  /\ i <= Len(states) /\ i < at => SlotGrown(running[i]))'
      <3>1. /\ i \in 1 .. Len(running) /\ at' = at + 1 /\ running' = running
            /\ states' = states
        BY <1>1
      <3>2. PICK s \in Requests : s = running[i] BY <1>a, <3>1
      <3>3. /\ i > Len(states) => SettledOrOver(s)'
            /\ i <= Len(states) => Growing(s)'
            /\ i <= Len(states) /\ i < at + 1 => SlotGrown(s)'
        BY <2>1, <3>1, <3>2
      <3>4. running'[i] = s BY <3>1, <3>2
      <3> QED BY <3>1, <3>3, <3>4
    <2> QED BY <1>1, <2>2 DEF BatchServed
  <1>15. AdmittedServed' /\ NeedsOwed' BY <1>1 DEF AdmittedServed, NeedsOwed
  <1>16. Fresh' BY <1>1 DEF ServiceInv, Fresh, history
  <1> QED BY <1>12, <1>13, <1>14, <1>15, <1>16 DEF ServiceInv

\* The newest of the batch gives up its memory and waits at the head.
LEMMA PreemptService ==
  ASSUME IInv, IInv', ServiceInv, GrowShort
  PROVE  ServiceInv'
  <1>1. /\ pc = "grow" /\ at <= Len(states) /\ at' = 1 /\ pc' \in {"idle", "grow"}
        /\ states' = <<>> <=> pc' = "idle"
        /\ UNCHANGED <<output_token_ids, finished, admitted, reserved, arrival>>
    BY DEF GrowShort
  <1>2. /\ TypeOK /\ Len(states) \in Nat /\ at \in Nat \ {0} /\ admitted = <<>>
        /\ Len(states) <= Len(running) /\ Len(running) \in Nat
        /\ \A i \in 1 .. Len(states) : states[i] = running[i]
        /\ running \in Seq(Requests) /\ waiting \in Seq(Requests) /\ states \in Seq(Requests)
    <2>1. TypeOK /\ StepLocals BY DEF IInv
    <2>2. /\ at \in Nat \ {0} /\ states \in Seq(Requests) /\ running \in Seq(Requests)
          /\ waiting \in Seq(Requests)
      BY <2>1 DEF TypeOK
    <2>3. Len(states) \in Nat BY <2>2, LenProperties
    <2>4. Len(running) \in Nat BY <2>2, LenProperties
    <2>5. /\ Len(states) <= Len(running) /\ admitted = <<>>
          /\ \A i \in 1 .. Len(states) : states[i] = running[i]
      BY <1>1, <2>1 DEF StepLocals
    <2> QED BY <2>1, <2>2, <2>3, <2>4, <2>5
  <1>3. running # <<>> BY <1>1, <1>2, EmptySeq
  <1>a. \A i \in 1 .. Len(running) : running[i] \in Requests BY Apart
  <1>4. PICK v \in Requests : v = Last(running) BY <1>2, <1>3, FrontLast
  <1>5. /\ Len(running) \in 1 .. Len(running) /\ v = running[Len(running)]
        /\ running' = Front(running) /\ Len(running') = Len(running) - 1
        /\ \A i \in 1 .. Len(running) - 1 : running'[i] = running[i]
    <2>1. running' = Front(running) BY DEF GrowShort, Requeue
    <2> DEFINE rest == Front(running)
    <2>2. /\ Len(running) \in Nat \ {0} /\ v = running[Len(running)]
          /\ Len(rest) = Len(running) - 1
          /\ \A i \in 1 .. Len(running) - 1 : rest[i] = running[i]
      BY <1>2, <1>3, <1>4, FrontLast
    <2>3. running' = rest BY <2>1
    <2> HIDE DEF rest
    <2> QED BY <2>1, <2>2, <2>3
  <1>6. \A i \in 1 .. Len(running) : i # Len(running) => running[i] # v
    <2>1. \A i, j \in 1 .. Len(running) : running[i] = running[j] => i = j BY Apart
    <2> QED BY <1>5, <2>1
  <1>7. Release(v) /\ Requeue(v) BY <1>4 DEF GrowShort
  <1>8. /\ Cold(v)'
        /\ \A s \in Requests : s # v => SameService(s)
    <2>1. /\ block_table'[v] = <<>> /\ stored'[v] = 0
          /\ \A s \in Requests : s # v => /\ block_table'[s] = block_table[s]
                                          /\ stored'[s] = stored[s]
      BY <1>2, <1>7 DEF Release, TypeOK
    <2> QED BY <1>1, <2>1 DEF Cold, SameService
  <1>9. ASSUME NEW s \in Requests, s # v
        PROVE  /\ Cold(s)' <=> Cold(s)
               /\ SettledOrOver(s)' <=> SettledOrOver(s)
               /\ Growing(s)' <=> Growing(s)
    BY <1>8, <1>9, FrameOthers
  <1>10. /\ Len(states') \in Nat /\ Len(states') <= Len(states)
         /\ Len(states') = Len(states) \/ Len(states') = Len(running')
    <2>1. states' = Without(states, v) BY <1>7 DEF Requeue
    <2>2. CASE \E i \in 1 .. Len(states) : states[i] = v
      <3>1. PICK i \in 1 .. Len(states) : states[i] = v BY <2>2
      <3>2. i \in 1 .. Len(running) /\ running[i] = v BY <1>2, <3>1
      <3>3. i = Len(running) BY <1>6, <3>2
      <3>4. Len(states) = Len(running) BY <1>2, <3>1, <3>3
      <3> DEFINE k == CHOOSE j \in 1 .. Len(states) : states[j] = v
      <3>5. k \in 1 .. Len(states) BY <2>2
      <3>6. states' = RemoveAt(states, k) BY <2>1, <2>2 DEF Without
      <3> HIDE DEF k
      <3>7. Len(RemoveAt(states, k)) = Len(states) - 1 BY <1>2, <3>5, RemoveAtType
      <3>8. Len(states') = Len(states) - 1 BY <3>6, <3>7
      <3> QED BY <1>2, <1>5, <3>4, <3>5, <3>8
    <2>3. CASE ~ \E i \in 1 .. Len(states) : states[i] = v
      <3>1. states' = states BY <2>1, <2>3 DEF Without
      <3> QED BY <1>2, <3>1
    <2> QED BY <2>2, <2>3
  <1>11. Locals' BY <1>1 DEF ServiceInv, Locals
  <1>12. Outside'
    <2>1. ASSUME NEW s \in Requests, \A i \in 1 .. Len(running') : running'[i] # s
          PROVE  Cold(s)'
      <3>1. CASE s = v BY <1>8, <3>1
      <3>2. CASE s # v
        <4>1. ASSUME NEW i \in 1 .. Len(running) PROVE running[i] # s
          <5>1. CASE i = Len(running) BY <1>5, <3>2, <5>1
          <5>2. CASE i # Len(running)
            <6>1. i \in 1 .. Len(running) - 1 /\ i \in 1 .. Len(running') BY <1>2, <1>5, <5>2
            <6> QED BY <1>5, <2>1, <6>1
          <5> QED BY <5>1, <5>2
        <4>2. \A i \in 1 .. Len(admitted) : admitted[i] # s BY <1>2, EmptySeq
        <4>3. Cold(s) BY <4>1, <4>2 DEF ServiceInv, Outside
        <4> QED BY <1>9, <3>2, <4>3
      <3> QED BY <3>1, <3>2
    <2> QED BY <2>1 DEF Outside
  <1>13. BatchServed'
    <2>1. ASSUME NEW i \in 1 .. Len(running')
          PROVE  (/\ i > Len(states) => SettledOrOver(running[i])
                  /\ i <= Len(states) => Growing(running[i]))'
      <3>1. /\ i \in 1 .. Len(running) - 1 /\ i \in 1 .. Len(running) /\ i # Len(running)
            /\ running'[i] = running[i]
        BY <1>2, <1>5
      <3>2. PICK s \in Requests : s = running[i] BY <1>a, <3>1
      <3>3. s # v BY <1>6, <3>1, <3>2
      <3>4. /\ i > Len(states) => SettledOrOver(s)
            /\ i <= Len(states) => Growing(s)
        BY <1>1, <3>1, <3>2 DEF ServiceInv, BatchServed
      <3>5. i > Len(states') => Len(states') = Len(states) BY <1>5, <1>10
      <3>6. CASE i > Len(states')
        <4>1. SettledOrOver(s)' BY <1>9, <3>3, <3>4, <3>5, <3>6
        <4>2. ~(i <= Len(states')) BY <1>10, <3>6
        <4> QED BY <3>1, <3>2, <4>1, <4>2
      <3>7. CASE i <= Len(states')
        <4>1. i <= Len(states) BY <1>2, <1>10, <3>7
        <4>2. Growing(s)' BY <1>9, <3>3, <3>4, <4>1
        <4>3. ~(i > Len(states')) BY <1>10, <3>7
        <4> QED BY <3>1, <3>2, <4>2, <4>3
      <3> QED BY <1>10, <3>6, <3>7
    <2>2. CASE pc' = "grow"
      <3>1. \A i \in 1 .. Len(running') : ~(i < at') BY <1>1
      <3> QED BY <2>1, <2>2, <3>1 DEF BatchServed
    <2>3. CASE pc' = "idle"
      <3>1. Len(states') = 0 BY <1>1, <2>3, EmptySeq
      <3>2. \A i \in 1 .. Len(running') : i > Len(states') BY <3>1
      <3> QED BY <2>1, <2>3, <3>2 DEF BatchServed
    <2> QED BY <1>1, <2>2, <2>3
  <1>14. AdmittedServed' /\ NeedsOwed'
    BY <1>1 DEF AdmittedServed, NeedsOwed
  <1>15. Fresh'
    <2>1. /\ waiting' = <<v>> \o waiting
          /\ outlived \subseteq outlived'
          /\ finished[v] => v \in outlived'
      BY <1>7 DEF Requeue
    <2>2. /\ Len(waiting') = 1 + Len(waiting) /\ waiting'[1] = v /\ Len(waiting) \in Nat
          /\ \A i \in 1 .. Len(waiting') : i # 1 => /\ i - 1 \in 1 .. Len(waiting)
                                                    /\ waiting'[i] = waiting[i - 1]
      <3> DEFINE one == <<v>>
                 all == one \o waiting
      <3>1. one \in Seq(Requests) /\ Len(one) = 1 /\ one[1] = v /\ waiting \in Seq(Requests)
        BY <1>2
      <3>2. Len(waiting) \in Nat BY <3>1, LenProperties
      <3> HIDE DEF one
      <3>3. /\ Len(all) = 1 + Len(waiting)
            /\ \A i \in 1 .. 1 + Len(waiting) :
                   all[i] = IF i <= 1 THEN one[i] ELSE waiting[i - 1]
        <4>1. /\ Len(all) = Len(one) + Len(waiting)
              /\ \A i \in 1 .. Len(one) + Len(waiting) :
                     all[i] = IF i <= Len(one) THEN one[i] ELSE waiting[i - Len(one)]
          <5>1. one \in Seq(Requests) /\ waiting \in Seq(Requests) BY <3>1
          <5> QED BY <5>1, ConcatProperties
        <4>2. Len(one) = 1 BY <3>1
        <4> HIDE DEF all
        <4> QED BY <4>1, <4>2
      <3>4. waiting' = all BY <2>1 DEF one
      <3> HIDE DEF all
      <3> QED BY <3>1, <3>2, <3>3, <3>4
    <2>3. ASSUME NEW i \in 1 .. Len(waiting'), finished'[waiting'[i]]
          PROVE  waiting'[i] \in outlived'
      <3>1. CASE i = 1 BY <1>1, <2>1, <2>2, <2>3, <3>1
      <3>2. CASE i # 1
        <4>1. i - 1 \in 1 .. Len(waiting) /\ waiting'[i] = waiting[i - 1] BY <2>2, <3>2
        <4>2. waiting[i - 1] \in outlived BY <1>1, <2>3, <4>1 DEF ServiceInv, Fresh
        <4> QED BY <2>1, <4>1, <4>2
      <3> QED BY <3>1, <3>2
    <2> QED BY <1>1, <2>3 DEF ServiceInv, Fresh
  <1> QED BY <1>11, <1>12, <1>13, <1>14, <1>15 DEF ServiceInv

\* The forward pass: everybody who decodes has the KV of all its tokens.
LEMMA DecodeService ==
  ASSUME IInv, ServiceInv, Decode
  PROVE  ServiceInv'
  <1>1. /\ pc = "grow" /\ at > Len(states) /\ pc' = "emit_decode" /\ at' = 1
        /\ stored' = [r \in Requests |-> IF r \in Range(states) THEN stored[r] + 1 ELSE stored[r]]
        /\ UNCHANGED <<waiting, running, block_table, output_token_ids, finished, admitted,
                       reserved, states, history>>
    BY DEF Decode
  <1>2. /\ TypeOK /\ Len(states) \in Nat /\ at \in Nat \ {0}
        /\ Len(states) <= Len(running) /\ Len(running) \in Nat
        /\ \A i \in 1 .. Len(states) : states[i] = running[i]
        /\ states \in Seq(Requests)
    <2>1. TypeOK /\ StepLocals BY DEF IInv
    <2>2. at \in Nat \ {0} /\ states \in Seq(Requests) BY <2>1 DEF TypeOK
    <2>3. Len(states) \in Nat BY <2>2, LenProperties
    <2>4. Len(running) \in Nat BY Apart
    <2>5. /\ Len(states) <= Len(running)
          /\ \A i \in 1 .. Len(states) : states[i] = running[i]
      BY <1>1, <2>1 DEF StepLocals
    <2> QED BY <2>1, <2>2, <2>3, <2>4, <2>5
  <1>a. \A i \in 1 .. Len(running) : running[i] \in Requests BY Apart
  <1>3. \A s : s \in Range(states) <=> \E i \in 1 .. Len(states) : running[i] = s
    BY <1>2, RangeMembers
  <1>4. ASSUME NEW s \in Requests, \A i \in 1 .. Len(states) : running[i] # s
        PROVE  /\ Cold(s)' <=> Cold(s)
               /\ SettledOrOver(s)' <=> SettledOrOver(s)
    <2>1. s \notin Range(states) BY <1>3, <1>4
    <2>2. stored'[s] = stored[s] BY <1>1, <2>1
    <2>3. SameService(s) BY <1>1, <2>2 DEF SameService
    <2> QED BY <2>3, FrameOthers
  <1>5. ASSUME NEW i \in 1 .. Len(states), NEW s \in Requests, s = running[i]
        PROVE  Filled(s)' /\ ~finished'[s]
    <2>1. i \in 1 .. Len(running) /\ i <= Len(states) /\ i < at BY <1>1, <1>2
    <2>2. Growing(s) /\ SlotGrown(s) BY <1>1, <1>5, <2>1 DEF ServiceInv, BatchServed
    <2>3. s \in Range(states) BY <1>3, <1>5
    <2>4. stored'[s] = stored[s] + 1 BY <1>1, <2>3
    <2>5. TotalLen(s)' = TotalLen(s) BY <1>1 DEF TotalLen
    <2>6. BlocksNeeded(stored[s])' = BlocksNeeded(stored[s] + 1) BY <2>4 DEF BlocksNeeded
    <2>7. Len(block_table'[s]) = BlocksNeeded(stored[s] + 1) BY <1>1, <2>2 DEF SlotGrown
    <2> QED BY <1>1, <2>2, <2>4, <2>5, <2>6, <2>7 DEF Growing, Filled
  <1>6. Locals' BY <1>1, <1>2 DEF ServiceInv, Locals
  <1>7. Outside'
    <2>1. ASSUME NEW s \in Requests, \A i \in 1 .. Len(running) : running[i] # s,
                 \A i \in 1 .. Len(admitted) : admitted[i] # s
          PROVE  Cold(s)'
      <3>1. Cold(s) BY <2>1 DEF ServiceInv, Outside
      <3>2. \A i \in 1 .. Len(states) : running[i] # s BY <1>2, <2>1
      <3> QED BY <1>4, <3>1, <3>2
    <2> QED BY <1>1, <2>1 DEF Outside
  <1>8. BatchServed'
    <2>1. ASSUME NEW i \in 1 .. Len(running')
          PROVE  (/\ i > Len(states) \/ i < at => SettledOrOver(running[i])
                  /\ i <= Len(states) /\ i >= at => Filled(running[i]) /\ ~finished[running[i]])'
      <3>1. i \in 1 .. Len(running) /\ ~(i < at') BY <1>1
      <3>2. PICK s \in Requests : s = running[i] BY <1>a, <3>1
      <3>3. running'[i] = s /\ states' = states BY <1>1, <3>2
      <3>4. CASE i <= Len(states)
        <4>1. i \in 1 .. Len(states) /\ ~(i > Len(states)) BY <1>2, <3>1, <3>4
        <4>2. Filled(s)' /\ ~finished'[s] BY <1>5, <3>2, <4>1
        <4> QED BY <3>1, <3>3, <4>1, <4>2
      <3>5. CASE i > Len(states)
        <4>1. SettledOrOver(s) BY <1>1, <3>1, <3>2, <3>5 DEF ServiceInv, BatchServed
        <4>2. ASSUME NEW j \in 1 .. Len(states) PROVE running[j] # s
          <5>1. \A k, l \in 1 .. Len(running) : running[k] = running[l] => k = l BY Apart
          <5>2. j \in 1 .. Len(running) /\ j # i BY <1>2, <3>5
          <5> QED BY <3>1, <3>2, <5>1, <5>2
        <4>3. SettledOrOver(s)' BY <1>4, <4>1, <4>2
        <4>4. ~(i <= Len(states)) BY <1>2, <3>1, <3>5
        <4> QED BY <3>3, <4>3, <4>4
      <3> QED BY <1>2, <3>1, <3>4, <3>5
    <2> QED BY <1>1, <2>1 DEF BatchServed
  <1>9. AdmittedServed' /\ NeedsOwed' BY <1>1 DEF AdmittedServed, NeedsOwed
  <1>10. Fresh' BY <1>1 DEF ServiceInv, Fresh, history
  <1> QED BY <1>6, <1>7, <1>8, <1>9, <1>10 DEF ServiceInv

--------------------------------------------------------------------------------
(* Memory follows service. *)

\* A new engine serves nobody.
LEMMA InitService == Init => ServiceInv
  <1> SUFFICES ASSUME Init PROVE ServiceInv
    OBVIOUS
  <1>1. Len(<<>>) = 0 BY EmptySeq
  <1>2. \A r \in Requests : Cold(r) /\ ~finished[r] BY DEF Init, Cold
  <1>3. running = <<>> /\ admitted = <<>> /\ waiting = <<>> /\ pc = "idle" /\ reserved = 0
    BY DEF Init
  <1>4. Locals BY <1>3 DEF Locals
  <1>5. Outside BY <1>2 DEF Outside
  <1>6. BatchServed BY <1>1, <1>3 DEF BatchServed
  <1>7. AdmittedServed /\ NeedsOwed BY <1>3 DEF AdmittedServed, NeedsOwed
  <1>8. Fresh BY <1>1, <1>2, <1>3 DEF Fresh
  <1> QED BY <1>4, <1>5, <1>6, <1>7, <1>8 DEF ServiceInv

\* Every step preserves where requests are in their service, and what is owed.
LEMMA ServiceStep == IInv /\ ServiceInv /\ [Next]_vars => ServiceInv'
  <1> SUFFICES ASSUME IInv, ServiceInv, [Next]_vars PROVE ServiceInv'
    OBVIOUS
  <1>1. IInv' BY InvariantStep
  <1>2. ASSUME NEW r \in Requests, AddRequest(r) PROVE ServiceInv' BY <1>2, ArriveService
  <1>3. CASE BeginStep BY <1>3, BeginService
  <1>4. CASE RetireOne BY <1>4, RetireService
  <1>5. CASE Retired BY <1>5, RetiredService
  <1>6. CASE Admit BY <1>6, AdmitService
  <1>7. CASE AdmitDone BY <1>7, WorkService
  <1>8. CASE PrefillOne BY <1>8, PrefillService
  <1>9. CASE PrefillDone BY <1>9, PrefilledService
  <1>10. CASE Emit BY <1>10, EmitService
  <1>11. CASE Join BY <1>11, JoinService
  <1>12. CASE GrowOne BY <1>12, GrowService
  <1>13. CASE GrowShort BY <1>1, <1>13, PreemptService
  <1>14. CASE Decode BY <1>14, DecodeService
  <1>15. CASE EndStep BY <1>15, EndService
  <1>16. CASE UNCHANGED vars BY <1>16, StutterService
  <1> QED BY <1>2, <1>3, <1>4, <1>5, <1>6, <1>7, <1>8, <1>9, <1>10, <1>11, <1>12, <1>13,
             <1>14, <1>15, <1>16 DEF Next, Step

\* Where requests are in their service says what memory they hold.
LEMMA ServiceMemory == IInv /\ ServiceInv => MemoryServes
  <1> SUFFICES ASSUME IInv, ServiceInv PROVE MemoryServes
    OBVIOUS
  <1>1. /\ TypeOK /\ running \in Seq(Requests) /\ admitted \in Seq(Requests)
        /\ Len(running) \in Nat
    BY Apart DEF IInv
  <1>2. /\ \A e : e \in Range(running) <=> \E k \in 1 .. Len(running) : running[k] = e
        /\ \A e : e \in Range(admitted) <=> \E k \in 1 .. Len(admitted) : admitted[k] = e
    BY <1>1, RangeMembers
  <1>3. NeverRaises BY DEF ServiceInv, Locals, NeverRaises
  <1>4. ASSUME NEW r \in Requests, r \notin Range(admitted), finished[r] \/ r \notin Range(running)
        PROVE  Cold(r)
    <2>1. \A i \in 1 .. Len(admitted) : admitted[i] # r BY <1>2, <1>4
    <2>2. CASE r \notin Range(running)
      <3>1. \A i \in 1 .. Len(running) : running[i] # r BY <1>2, <2>2
      <3> QED BY <2>1, <3>1 DEF ServiceInv, Outside
    <2>3. CASE r \in Range(running)
      <3>1. PICK i \in 1 .. Len(running) : running[i] = r BY <1>2, <2>3
      <3>2. finished[r] BY <1>4, <2>3
      <3>3. Len(states) \in Nat /\ at \in Nat BY <1>1, LenProperties DEF TypeOK
      <3>4. SettledOrOver(r)
        <4>1. CASE pc \notin {"grow", "emit_decode"} BY <3>1, <4>1 DEF ServiceInv, BatchServed
        <4>2. CASE pc = "grow" BY <3>1, <3>2, <3>3, <4>2 DEF ServiceInv, BatchServed, Growing
        <4>3. CASE pc = "emit_decode" BY <3>1, <3>2, <3>3, <4>3 DEF ServiceInv, BatchServed
        <4> QED BY <4>1, <4>2, <4>3
      <3> QED BY <3>2, <3>4 DEF SettledOrOver
    <2> QED BY <2>2, <2>3
  <1>5. ASSUME pc = "idle", NEW r \in Range(running), ~finished[r]
        PROVE  /\ stored[r] = TotalLen(r) - 1
               /\ Len(block_table[r]) = BlocksNeeded(stored[r])
    <2>1. PICK i \in 1 .. Len(running) : running[i] = r BY <1>2, <1>5
    <2>2. SettledOrOver(r) BY <1>5, <2>1 DEF ServiceInv, BatchServed
    <2>3. r \in Requests BY <2>1, Apart
    <2>4. TotalLen(r) \in Nat BY <1>1, <2>3, TotalLenType
    <2>5. stored \in [Requests -> Nat] BY <1>1 DEF TypeOK
    <2>6. stored[r] \in Nat BY <2>3, <2>5
    <2>7. stored[r] + 1 = TotalLen(r) /\ Len(block_table[r]) = BlocksNeeded(stored[r])
      BY <1>5, <2>2 DEF SettledOrOver
    <2>8. stored[r] = TotalLen(r) - 1 BY <2>4, <2>6, <2>7
    <2> QED BY <2>7, <2>8
  <1>6. MemoryFollowsService BY <1>4, <1>5 DEF Cold, MemoryFollowsService
  <1> QED BY <1>1, <1>3, <1>6 DEF MemoryServes

\* Every reachable state is one of service.
LEMMA ServiceInvariant == Spec => [](IInv /\ ServiceInv)
  <1>1. Init => ServiceInv BY InitService
  <1>2. IInv /\ ServiceInv /\ [Next]_vars => ServiceInv' BY ServiceStep
  <1> QED BY <1>1, <1>2, Invariant, PTL DEF Spec

\* Only those in service hold memory, a running request holds the KV of all its
\* tokens but the last and no block beyond, and everybody who is let in finds
\* the blocks admission promised it: _prefill never raises OutOfBlocksError.
THEOREM MemoryFollows == Spec => []MemoryServes
  <1>1. IInv /\ ServiceInv => MemoryServes BY ServiceMemory
  <1> QED BY <1>1, ServiceInvariant, PTL

--------------------------------------------------------------------------------
(* Streams end where they should. *)

Stops(r, i) == output_token_ids[r][i] \in StopTokens[r] \/ i = MaxTokens[r]

Ended(r) ==
    LET out == output_token_ids[r]
    IN /\ \A i \in 1 .. Len(out) : Stops(r, i) => i = Len(out)
       /\ finished[r] <=> out # <<>> /\ Stops(r, Len(out))

\* The streams of all who were not preempted after their end.
LEMMA EachEnded == StreamEnds <=> \A r \in Requests \ outlived : Ended(r)
  BY DEF StreamEnds, Ended, Stops

\* One more token, to somebody who has not finished.
LEMMA TokenEnds ==
  ASSUME TypeOK, NEW r \in Requests, NEW token \in Vocab, Deliver(r, token),
         ~finished[r], Ended(r)
  PROVE  Ended(r)'
  <1> DEFINE out == output_token_ids[r]
             more == Append(out, token)
  <1>1. output_token_ids \in [Requests -> Seq(Vocab)] /\ finished \in [Requests -> BOOLEAN]
    BY DEF TypeOK
  <1>2. PICK n \in Nat : n = Len(out) BY <1>1, LenProperties
  <1>3. /\ Len(more) = n + 1 /\ more[n + 1] = token
        /\ \A i \in 1 .. n : more[i] = out[i]
    BY <1>1, <1>2, AppendProperties
  <1>4. output_token_ids'[r] = more BY <1>1 DEF Deliver
  <1>5. finished'[r] <=> EndsWith(r, token) BY <1>1 DEF Deliver
  <1>6. MaxTokens[r] \in Nat \ {0} BY EngineAssumption
  <1>7. ASSUME NEW i \in 1 .. n PROVE ~Stops(r, i)
    <2>1. out # <<>> BY <1>2, <1>7, EmptySeq
    <2>2. Stops(r, i) => i = n BY <1>2, <1>7 DEF Ended
    <2>3. ~Stops(r, n) BY <1>2, <2>1 DEF Ended
    <2> QED BY <2>2, <2>3
  <1>8. n < MaxTokens[r]
    <2>1. ASSUME MaxTokens[r] <= n PROVE FALSE
      <3>1. MaxTokens[r] \in 1 .. n BY <1>6, <2>1
      <3> QED BY <1>7, <3>1 DEF Stops
    <2> QED BY <1>6, <2>1
  <1>9. finished'[r] <=> token \in StopTokens[r] \/ n + 1 = MaxTokens[r]
    BY <1>2, <1>5, <1>6, <1>8 DEF EndsWith
  <1> HIDE DEF more
  <1>10. more # <<>>
    <2>1. n + 1 # 0 OBVIOUS
    <2>2. Len(<<>>) = 0 BY EmptySeq
    <2> QED BY <1>3, <2>1, <2>2
  <1>11. Len(output_token_ids'[r]) = n + 1 BY <1>3, <1>4
  <1>12. ASSUME NEW i \in 1 .. n + 1
         PROVE  Stops(r, i)' <=> i = n + 1 /\ finished'[r]
    <2>1. CASE i = n + 1
      <3>1. output_token_ids'[r][i] = token BY <1>3, <1>4, <2>1
      <3> QED BY <1>9, <2>1, <3>1 DEF Stops
    <2>2. CASE i # n + 1
      <3>1. i \in 1 .. n BY <2>2
      <3>2. output_token_ids'[r][i] = out[i] BY <1>3, <1>4, <3>1
      <3>3. ~Stops(r, i)' BY <1>7, <3>1, <3>2 DEF Stops
      <3> QED BY <2>2, <3>3
    <2> QED BY <2>1, <2>2
  <1>13. n + 1 \in 1 .. n + 1 OBVIOUS
  <1>14. /\ \A i \in 1 .. Len(output_token_ids'[r]) :
                Stops(r, i)' => i = Len(output_token_ids'[r])
         /\ finished'[r] <=> /\ output_token_ids'[r] # <<>>
                             /\ Stops(r, n + 1)'
    BY <1>4, <1>10, <1>11, <1>12, <1>13
  <1> QED BY <1>11, <1>14 DEF Ended, Stops

\* Every step ends streams where they should: a token goes only to those who
\* have not finished, or were preempted after they had.
LEMMA StreamStep == IInv /\ ServiceInv /\ StreamEnds /\ [Next]_vars => StreamEnds'
  <1> SUFFICES ASSUME IInv, ServiceInv, StreamEnds, [Next]_vars,
                      NEW r \in Requests, r \notin outlived'
               PROVE  Ended(r)'
    BY EachEnded DEF StreamEnds, Ended, Stops
  <1>1. TypeOK BY DEF IInv
  <1>2. ASSUME output_token_ids'[r] = output_token_ids[r], finished'[r] = finished[r],
               r \notin outlived
        PROVE  Ended(r)'
    <2>1. Ended(r) BY <1>2, EachEnded
    <2> QED BY <1>2, <2>1 DEF Ended, Stops
  <1>3. CASE Emit
    <2>1. PICK token \in Vocab : Deliver(states[at], token) BY <1>3 DEF Emit
    <2>2. r \notin outlived BY <1>3 DEF Emit, history
    <2>3. CASE states[at] = r
      <3>1. /\ pc \in {"emit_prefill", "emit_decode"} /\ at <= Len(states)
        BY <1>3 DEF Emit
      <3>2. at \in Nat \ {0} /\ Len(states) \in Nat /\ at \in 1 .. Len(states)
        <4>1. at \in Nat \ {0} /\ states \in Seq(Requests) BY <1>1 DEF TypeOK
        <4>2. Len(states) \in Nat BY <4>1, LenProperties
        <4> QED BY <3>1, <4>1, <4>2
      <3>3. ~finished[r]
        <4>1. CASE pc = "emit_prefill"
          <5>1. states = admitted BY <4>1 DEF ServiceInv, Locals
          <5>2. at \in 1 .. Len(admitted) /\ at >= at /\ admitted[at] = r
            BY <2>3, <3>2, <5>1
          <5> QED BY <2>2, <4>1, <5>2 DEF ServiceInv, Fresh
        <4>2. CASE pc = "emit_decode"
          <5>1. /\ Len(states) <= Len(running) /\ states[at] = running[at]
            BY <3>2, <4>2 DEF ServiceInv, Locals
          <5>2. Len(running) \in Nat BY Apart
          <5>3. /\ at \in 1 .. Len(running) /\ at <= Len(states) /\ at >= at
                /\ running[at] = r
            BY <2>3, <3>2, <5>1, <5>2
          <5> QED BY <4>2, <5>3 DEF ServiceInv, BatchServed
        <4> QED BY <3>1, <4>1, <4>2
      <3>4. Ended(r) BY <2>2, EachEnded
      <3> QED BY <1>1, <2>1, <2>3, <3>3, <3>4, TokenEnds
    <2>4. CASE states[at] # r
      <3>1. output_token_ids'[r] = output_token_ids[r] /\ finished'[r] = finished[r]
        BY <1>1, <2>1, <2>4 DEF Deliver, TypeOK
      <3> QED BY <1>2, <2>2, <3>1
    <2> QED BY <2>3, <2>4
  <1>4. CASE GrowShort
    <2>1. UNCHANGED <<output_token_ids, finished>> /\ r \notin outlived
      BY <1>4 DEF GrowShort, Requeue
    <2> QED BY <1>2, <2>1
  <1>5. CASE ~(Emit \/ GrowShort)
    <2>1. UNCHANGED <<output_token_ids, finished, outlived>>
      BY <1>5 DEF Next, Step, AddRequest, BeginStep, RetireOne, Retired, Admit, AdmitAt,
         AdmitDone, StartWork, PrefillOne, PrefillDone, Join, JoinRunning, GrowOne, Decode,
         EndStep, requestVars, history, vars
    <2> QED BY <1>2, <2>1
  <1> QED BY <1>3, <1>4, <1>5

\* A stream ends at its first stop token or its token budget, whichever comes
\* first, however often its request was preempted on the way, unless it was
\* preempted in the step it finished in.
THEOREM StreamsEnd == Spec => []StreamEnds
  <1>1. Init => StreamEnds
    <2> SUFFICES ASSUME Init, NEW r \in Requests PROVE Ended(r)
      BY EachEnded
    <2>1. output_token_ids[r] = <<>> /\ finished[r] = FALSE /\ Len(<<>>) = 0
      BY EmptySeq DEF Init
    <2> QED BY <2>1 DEF Ended
  <1>2. IInv /\ ServiceInv /\ StreamEnds /\ [Next]_vars => StreamEnds' BY StreamStep
  <1> QED BY <1>1, <1>2, ServiceInvariant, PTL DEF Spec

================================================================================

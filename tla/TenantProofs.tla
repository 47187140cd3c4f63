----------------------------- MODULE TenantProofs ------------------------------
(***************************************************************************)
(* Admission by tenant keeps each tenant's order and never lets a tenant   *)
(* that is ahead be charged before one that waits, for every weight, batch *)
(* and set of requests.                                                    *)
(***************************************************************************)
EXTENDS TenantFairEngine, PrefixProofs
--------------------------------------------------------------------------------
(* The inductive invariant, besides that of the prefix engine. *)

\* r arrived before s.
Before(r, s) == \E k, l \in 1 .. Len(arrival) : k < l /\ arrival[k] = r /\ arrival[l] = s

\* Within a tenant, order is the order of arrival; between tenants, any.
Turns == {p \in Requests \X Requests : TenantOf[p[1]] = TenantOf[p[2]] => Before(p[1], p[2])}

\* The order of the queue, of those admitted, of the batch, and between them.
TenantLine == /\ Sorted(Turns, running) /\ Sorted(Turns, admitted) /\ Sorted(Turns, waiting)
              /\ AllAhead(Turns, running, admitted) /\ AllAhead(Turns, running, waiting)
              /\ AllAhead(Turns, admitted, waiting)

\* Whoever is being admitted is of a tenant that is ahead of nobody who waits.
ChosenBehind == pc = "admit" => \A r \in Range(admitted) : \A t \in Tenants :
                    Waits(t) => ~Behind(t, TenantOf[r])

Charged == /\ served \in [Tenants -> Nat] /\ last \in [Tenants -> Nat]
           /\ mark \in [Tenants -> [Tenants -> Nat]]

TInv == PInv /\ Charged /\ TenantLine /\ ChosenBehind /\ LagBounded

--------------------------------------------------------------------------------
(* The choice of a tenant. *)

\* Deficits are fractions of numbers: whoever is behind somebody is behind
\* whoever that somebody is not ahead of.
LEMMA BehindFurther ==
  ASSUME NEW a \in Nat, NEW b \in Nat, NEW c \in Nat,
         NEW u \in Nat \ {0}, NEW v \in Nat \ {0}, NEW w \in Nat \ {0},
         a * v < b * u, b * w <= c * v
  PROVE  a * w < c * u
  <1>1. (a * v) * w < (b * u) * w
    <2>1. PICK x \in Nat : x = a * v OBVIOUS
    <2>2. PICK y \in Nat : y = b * u OBVIOUS
    <2>3. x < y BY <2>1, <2>2
    <2>4. x * w < y * w BY <2>3
    <2> QED BY <2>1, <2>2, <2>4
  <1>2. (b * w) * u <= (c * v) * u
    <2>1. PICK x \in Nat : x = b * w OBVIOUS
    <2>2. PICK y \in Nat : y = c * v OBVIOUS
    <2>3. x <= y BY <2>1, <2>2
    <2>4. x * u <= y * u BY <2>3
    <2> QED BY <2>1, <2>2, <2>4
  <1>3. /\ (a * v) * w = (a * w) * v /\ (b * u) * w = (b * w) * u
        /\ (c * v) * u = (c * u) * v
    OBVIOUS
  <1>4. PICK x \in Nat : x = a * w OBVIOUS
  <1>5. PICK y \in Nat : y = c * u OBVIOUS
  <1>6. PICK z \in Nat : z = (b * w) * u OBVIOUS
  <1>7. x * v < z /\ z <= y * v BY <1>1, <1>2, <1>3, <1>4, <1>5, <1>6
  <1>8. x * v < y * v
    <2>1. PICK p \in Nat : p = x * v OBVIOUS
    <2>2. PICK q \in Nat : q = y * v OBVIOUS
    <2> QED BY <1>7, <2>1, <2>2
  <1>9. x < y
    <2> SUFFICES ASSUME y <= x PROVE FALSE
      OBVIOUS
    <2>1. y * v <= x * v OBVIOUS
    <2> QED BY <1>8, <2>1
  <1> QED BY <1>4, <1>5, <1>9

--------------------------------------------------------------------------------
(* The charge of a batch. *)

\* A request costs something.
LEMMA CostType == \A r \in Requests : Cost(r) \in Nat
  <1> SUFFICES ASSUME NEW r \in Requests PROVE Cost(r) \in Nat
    OBVIOUS
  <1>1. Prompt[r] \in Seq(Vocab) /\ MaxTokens[r] \in Nat BY EngineAssumption
  <1>2. Len(Prompt[r]) \in Nat BY <1>1, LenProperties
  <1> QED BY <1>1, <1>2 DEF Cost

\* The cost of a set of requests is a number, and nobody costs nothing.
LEMMA SumOfCosts ==
  ASSUME NEW S \in SUBSET Requests, IsFiniteSet(S)
  PROVE  /\ MapThenSumSet(Cost, S) \in Nat
         /\ S = {} => MapThenSumSet(Cost, S) = 0
  <1> DEFINE one(s) == CHOOSE x \in s : TRUE
             From(f, s) == IF s = {} THEN 0 ELSE Cost(one(s)) + f[s \ {one(s)}]
             iter == CHOOSE f : f = [s \in SUBSET S |-> From(f, s)]
  <1>1. MapThenSumSet(Cost, S) = iter[S]
    BY DEF MapThenSumSet, MapThenFoldSet
  <1>2. ASSUME NEW s \in SUBSET S
        PROVE  /\ IsFiniteSet(s) /\ Cardinality(s) \in Nat
               /\ Cardinality(s) = 0 <=> s = {}
               /\ s # {} => /\ one(s) \in s /\ one(s) \in Requests /\ Cost(one(s)) \in Nat
                            /\ s \ {one(s)} \in SUBSET S
                            /\ Cardinality(s \ {one(s)}) = Cardinality(s) - 1
    <2>1. IsFiniteSet(s) BY FS_Subset
    <2>2. Cardinality(s) \in Nat /\ (Cardinality(s) = 0 <=> s = {})
      BY <2>1, FS_CardinalityType, FS_EmptySet
    <2>3. ASSUME s # {}
          PROVE  /\ one(s) \in s /\ one(s) \in Requests /\ Cost(one(s)) \in Nat
                 /\ s \ {one(s)} \in SUBSET S
                 /\ Cardinality(s \ {one(s)}) = Cardinality(s) - 1
      <3>1. one(s) \in s BY <2>3
      <3>2. Cost(one(s)) \in Nat BY <3>1, CostType
      <3> HIDE DEF one
      <3>3. Cardinality(s \ {one(s)}) = Cardinality(s) - 1 BY <2>1, <3>1, FS_RemoveElement
      <3> QED BY <3>1, <3>2, <3>3
    <2> QED BY <2>1, <2>2, <2>3
  <1> HIDE DEF one
  \* There is such a function: tables that are right for small sets, one size at a time.
  <1> DEFINE Right(f, n) == \A s \in SUBSET S : Cardinality(s) <= n => f[s] = From(f, s)
             Sizes == {n \in Nat : \E f \in [SUBSET S -> Nat] : Right(f, n)}
  <1>3. 0 \in Sizes
    <2>1. PICK f : f = [s \in SUBSET S |-> 0] OBVIOUS
    <2>2. Right(f, 0)
      <3>1. ASSUME NEW s \in SUBSET S, Cardinality(s) <= 0 PROVE f[s] = From(f, s)
        <4>1. s = {}
          <5>1. Cardinality(s) \in Nat /\ (Cardinality(s) = 0 <=> s = {}) BY <1>2
          <5> QED BY <3>1, <5>1
        <4> QED BY <2>1, <4>1
      <3> QED BY <3>1
    <2> QED BY <2>1, <2>2
  <1>4. ASSUME NEW n \in Nat, n \in Sizes PROVE n + 1 \in Sizes
    <2>1. PICK f \in [SUBSET S -> Nat] : Right(f, n) BY <1>4
    <2>2. PICK g : g = [s \in SUBSET S |-> From(f, s)] OBVIOUS
    <2>3. ASSUME NEW s \in SUBSET S PROVE From(f, s) \in Nat
      <3>1. CASE s = {} BY <3>1
      <3>2. CASE s # {}
        <4>1. Cost(one(s)) \in Nat /\ f[s \ {one(s)}] \in Nat BY <1>2, <3>2
        <4> QED BY <3>2, <4>1
      <3> QED BY <3>1, <3>2
    <2>4. g \in [SUBSET S -> Nat] BY <2>2, <2>3
    <2>5. ASSUME NEW s \in SUBSET S, Cardinality(s) <= n + 1 PROVE g[s] = From(g, s)
      <3>1. CASE s = {} BY <2>2, <3>1
      <3>2. CASE s # {}
        <4>1. /\ s \ {one(s)} \in SUBSET S /\ Cardinality(s \ {one(s)}) <= n
          BY <1>2, <2>5, <3>2
        <4>2. f[s \ {one(s)}] = From(f, s \ {one(s)}) BY <2>1, <4>1
        <4>3. g[s \ {one(s)}] = From(f, s \ {one(s)}) BY <2>2, <4>1
        <4>4. g[s] = Cost(one(s)) + f[s \ {one(s)}] BY <2>2, <3>2
        <4> QED BY <3>2, <4>2, <4>3, <4>4
      <3> QED BY <3>1, <3>2
    <2>6. Right(g, n + 1) BY <2>5
    <2> HIDE DEF Right
    <2> QED BY <2>4, <2>6
  <1>5. Cardinality(S) \in Sizes
    <2> HIDE DEF Sizes
    <2>1. Nat \subseteq Sizes BY <1>3, <1>4, Induction
    <2> QED BY <1>2, <2>1
  <1>6. PICK f \in [SUBSET S -> Nat] : Right(f, Cardinality(S)) BY <1>5
  <1>7. f = [s \in SUBSET S |-> From(f, s)]
    <2>1. ASSUME NEW s \in SUBSET S PROVE f[s] = From(f, s)
      <3>1. Cardinality(s) <= Cardinality(S) BY FS_Subset
      <3> QED BY <1>6, <3>1
    <2> HIDE DEF From, Right
    <2> QED BY <1>6, <2>1
  <1>8. iter = [s \in SUBSET S |-> From(iter, s)]
    <2> HIDE DEF From
    <2> QED BY <1>7
  <1>9. PICK sum : sum = iter OBVIOUS
  <1>10. \A s \in SUBSET S : sum[s] = From(sum, s)
    <2> HIDE DEF From, iter
    <2> QED BY <1>8, <1>9
  <1> HIDE DEF iter
  <1> DEFINE Sums == {n \in Nat : \A s \in SUBSET S : Cardinality(s) <= n => sum[s] \in Nat}
  <1>a. sum[{}] = 0
    <2>1. {} \in SUBSET S OBVIOUS
    <2>2. sum[{}] = From(sum, {}) BY <1>10, <2>1
    <2> QED BY <2>2
  <1>11. 0 \in Sums
    <2>1. ASSUME NEW s \in SUBSET S, Cardinality(s) <= 0 PROVE sum[s] \in Nat
      <3>1. Cardinality(s) \in Nat /\ (Cardinality(s) = 0 <=> s = {}) BY <1>2
      <3>2. s = {} BY <2>1, <3>1
      <3> QED BY <1>a, <3>2
    <2> QED BY <2>1
  <1>12. ASSUME NEW n \in Nat, n \in Sums PROVE n + 1 \in Sums
    <2>1. ASSUME NEW s \in SUBSET S, Cardinality(s) <= n + 1 PROVE sum[s] \in Nat
      <3>1. CASE s = {} BY <1>a, <3>1
      <3>2. CASE s # {}
        <4>0. /\ Cardinality(s \ {one(s)}) = Cardinality(s) - 1 /\ Cardinality(s) \in Nat
              /\ s \ {one(s)} \in SUBSET S /\ Cost(one(s)) \in Nat
          BY <1>2, <3>2
        <4>1. Cardinality(s \ {one(s)}) <= n BY <2>1, <4>0
        <4>2. sum[s \ {one(s)}] \in Nat BY <1>12, <4>0, <4>1
        <4>3. sum[s] = Cost(one(s)) + sum[s \ {one(s)}] BY <1>10, <3>2
        <4> QED BY <4>0, <4>2, <4>3
      <3> QED BY <3>1, <3>2
    <2> QED BY <2>1
  <1>13. Cardinality(S) \in Sums
    <2> HIDE DEF Sums
    <2>1. Nat \subseteq Sums BY <1>11, <1>12, Induction
    <2> QED BY <1>2, <2>1
  <1>14. sum[S] \in Nat BY <1>2, <1>13
  <1>15. S = {} => sum[S] = 0 BY <1>a
  <1> QED BY <1>1, <1>9, <1>14, <1>15

\* Fractions compare as they should.
LEMMA BehindOrder ==
  ASSUME Charged, NEW t \in Tenants, NEW u \in Tenants, NEW v \in Tenants
  PROVE  /\ Behind(t, u) => ~Behind(u, t)
         /\ Behind(t, u) /\ ~Behind(v, u) => Behind(t, v)
  <1>1. /\ served[t] \in Nat /\ served[u] \in Nat /\ served[v] \in Nat
        /\ Weight[t] \in Nat \ {0} /\ Weight[u] \in Nat \ {0} /\ Weight[v] \in Nat \ {0}
    BY TenantAssumption DEF Charged
  <1>2. PICK a \in Nat : a = served[t] * Weight[u] BY <1>1
  <1>3. PICK b \in Nat : b = served[u] * Weight[t] BY <1>1
  <1>4. Behind(t, u) => ~Behind(u, t) BY <1>2, <1>3 DEF Behind
  <1>5. ASSUME Behind(t, u), ~Behind(v, u) PROVE Behind(t, v)
    <2>1. served[t] * Weight[u] < served[u] * Weight[t] BY <1>5 DEF Behind
    <2>2. served[u] * Weight[v] <= served[v] * Weight[u]
      <3>1. PICK c \in Nat : c = served[v] * Weight[u] BY <1>1
      <3>2. PICK d \in Nat : d = served[u] * Weight[v] BY <1>1
      <3> QED BY <1>5, <3>1, <3>2 DEF Behind
    <2>3. served[t] * Weight[v] < served[v] * Weight[t] BY <1>1, <2>1, <2>2, BehindFurther
    <2> QED BY <2>3 DEF Behind
  <1> QED BY <1>4, <1>5

\* Every tenant with a request in the queue has a head.
LEMMA HeadOf ==
  ASSUME PInv, NEW t, Waits(t)
  PROVE  \E i \in Heads : WaitingTenant(i) = t
  <1> DEFINE mine == {i \in 1 .. Len(waiting) : WaitingTenant(i) = t}
  <1>1. mine \in SUBSET Nat /\ mine # {} BY DEF Waits
  <1>2. PICK i \in mine : \A j \in mine : i <= j BY <1>1, LeastNumber
  <1>3. Len(waiting) \in Nat BY Lists
  <1>4. ASSUME NEW j \in 1 .. i - 1 PROVE WaitingTenant(j) # t
    <2>1. j \in 1 .. Len(waiting) /\ ~(i <= j) BY <1>2, <1>3, <1>4
    <2> QED BY <1>2, <2>1
  <1> QED BY <1>2, <1>4 DEF Heads

\* _next_waiting() finds somebody: the head of a tenant that is ahead of no other
\* tenant in the queue.
LEMMA NextChosen ==
  ASSUME PInv, Charged, waiting # <<>>
  PROVE  /\ NextOfTenants \in Heads
         /\ \A j \in Heads : ~Behind(WaitingTenant(j), WaitingTenant(NextOfTenants))
  <1> DEFINE Better(i, j) == /\ ~Behind(WaitingTenant(j), WaitingTenant(i))
                             /\ j < i => Behind(WaitingTenant(i), WaitingTenant(j))
             Best(n) == \E i \in Heads \cap (1 .. n) : \A j \in Heads \cap (1 .. n) : Better(i, j)
             Done == {n \in Nat : Heads \cap (1 .. n) # {} => Best(n)}
  <1>1. \A i \in Heads : WaitingTenant(i) \in Tenants
    <2>1. \A i \in 1 .. Len(waiting) : waiting[i] \in Requests BY Lists
    <2> QED BY <2>1, TenantAssumption DEF Heads, WaitingTenant
  <1>2. \A t \in Tenants : ~Behind(t, t) BY BehindOrder
  <1>3. 0 \in Done
    <2>1. Heads \cap (1 .. 0) = {} OBVIOUS
    <2> QED BY <2>1
  <1>4. ASSUME NEW n \in Nat, n \in Done PROVE n + 1 \in Done
    <2>0. SUFFICES ASSUME Heads \cap (1 .. n + 1) # {} PROVE Best(n + 1)
      OBVIOUS
    <2>a. \A j \in Heads \cap (1 .. n + 1) : j = n + 1 \/ j \in Heads \cap (1 .. n) OBVIOUS
    <2>1. CASE n + 1 \notin Heads
      <3>1. Heads \cap (1 .. n + 1) = Heads \cap (1 .. n) BY <2>1
      <3> QED BY <1>4, <2>0, <3>1
    <2>2. CASE n + 1 \in Heads /\ Heads \cap (1 .. n) = {}
      <3>1. \A j \in Heads \cap (1 .. n + 1) : j = n + 1 BY <2>2
      <3>2. Better(n + 1, n + 1) BY <1>1, <1>2, <2>2
      <3>3. n + 1 \in Heads \cap (1 .. n + 1) BY <2>2
      <3> HIDE DEF Better
      <3> QED BY <3>1, <3>2, <3>3
    <2>3. CASE n + 1 \in Heads /\ Heads \cap (1 .. n) # {}
      <3>1. PICK i \in Heads \cap (1 .. n) : \A j \in Heads \cap (1 .. n) : Better(i, j)
        BY <1>4, <2>3
      <3>2. n + 1 \in Heads \cap (1 .. n + 1) /\ i \in Heads \cap (1 .. n + 1) /\ i < n + 1 BY <2>3
      <3>3. WaitingTenant(i) \in Tenants /\ WaitingTenant(n + 1) \in Tenants BY <1>1, <3>2
      <3>4. CASE Behind(WaitingTenant(n + 1), WaitingTenant(i))
        <4>1. ASSUME NEW j \in Heads \cap (1 .. n) PROVE Better(n + 1, j)
          <5>1. WaitingTenant(j) \in Tenants BY <1>1
          <5>2. ~Behind(WaitingTenant(j), WaitingTenant(i)) BY <3>1
          <5>3. Behind(WaitingTenant(n + 1), WaitingTenant(j)) BY <3>3, <3>4, <5>1, <5>2, BehindOrder
          <5>4. ~Behind(WaitingTenant(j), WaitingTenant(n + 1)) BY <3>3, <5>1, <5>3, BehindOrder
          <5> QED BY <5>3, <5>4
        <4>2. Better(n + 1, n + 1) BY <1>2, <3>3
        <4> HIDE DEF Better
        <4> QED BY <2>a, <3>2, <4>1, <4>2
      <3>5. CASE ~Behind(WaitingTenant(n + 1), WaitingTenant(i))
        <4>1. Better(i, n + 1) BY <3>2, <3>5
        <4> HIDE DEF Better
        <4> QED BY <2>a, <3>1, <3>2, <4>1
      <3> QED BY <3>4, <3>5
    <2> QED BY <2>1, <2>2, <2>3
  <1>5. Len(waiting) \in Done
    <2> HIDE DEF Done
    <2>1. Nat \subseteq Done BY <1>3, <1>4, Induction
    <2> QED BY <2>1, Lists
  <1>6. Heads \cap (1 .. Len(waiting)) = Heads BY DEF Heads
  <1>7. Heads # {}
    <2>1. Len(waiting) \in Nat /\ Len(waiting) # 0 BY Lists, EmptySeq
    <2>2. 1 \in 1 .. Len(waiting) /\ 1 .. 1 - 1 = {} BY <2>1
    <2> QED BY <2>2 DEF Heads
  <1>8. \E i \in Heads : \A j \in Heads : Better(i, j) BY <1>5, <1>6, <1>7
  <1>9. \A j \in Heads : Better(NextOfTenants, j)
    BY <1>8 DEF NextOfTenants
  <1>10. NextOfTenants \in Heads
    BY <1>8 DEF NextOfTenants
  <1> QED BY <1>9, <1>10

--------------------------------------------------------------------------------
(* The order within a tenant. *)

\* Nobody's turn changes unless somebody arrives.
LEMMA SameTurns == ASSUME arrival' = arrival PROVE Turns' = Turns
  BY DEF Turns, Before

\* A step besides admission, emission and arrival keeps everybody's turn.
LEMMA WorkInTurn ==
  ASSUME PInv, TenantLine, PrefixWork
  PROVE  TenantLine'
  <1>1. arrival' = arrival /\ (Stays \/ Leaves \/ TakenBack \/ Joins) BY WorkMoves
  <1>2. PICK R : R = Turns /\ R = Turns' BY <1>1, SameTurns
  <1>3. /\ Sorted(R, running) /\ Sorted(R, admitted) /\ Sorted(R, waiting)
        /\ AllAhead(R, running, admitted) /\ AllAhead(R, running, waiting)
        /\ AllAhead(R, admitted, waiting)
    BY <1>2 DEF TenantLine
  <1>4. /\ running \in Seq(Requests) /\ admitted \in Seq(Requests) /\ waiting \in Seq(Requests)
        /\ Once(running) /\ Once(admitted) /\ Once(waiting)
        /\ Range(running) \cap Range(admitted) = {} /\ Range(running) \cap Range(waiting) = {}
    BY Lists DEF PInv, Roles
  <1>5. SUFFICES /\ Sorted(R, running') /\ Sorted(R, admitted') /\ Sorted(R, waiting')
                 /\ AllAhead(R, running', admitted') /\ AllAhead(R, running', waiting')
                 /\ AllAhead(R, admitted', waiting')
    BY <1>2 DEF TenantLine, Sorted, AllAhead
  <1>6. CASE Stays BY <1>3, <1>6 DEF Stays, Sorted, AllAhead
  <1>7. CASE Leaves
    <2>1. PICK i \in 1 .. Len(running) : running' = RemoveAt(running, i) /\ UNCHANGED <<waiting, admitted>>
      BY <1>7 DEF Leaves
    <2>2. Sorted(R, running') BY <1>3, <1>4, <2>1, SortedRemove
    <2>3. Range(running') \subseteq Range(running) BY <1>4, <2>1, OnceRemove DEF Once
    <2> QED BY <1>3, <2>1, <2>2, <2>3 DEF AllAhead, Sorted
  <1>8. CASE TakenBack
    <2>1. /\ running # <<>> /\ admitted = <<>> /\ admitted' = <<>>
          /\ running' = Front(running) /\ waiting' = <<Last(running)>> \o waiting
      BY <1>8 DEF TakenBack
    <2>2. PICK r \in Requests : r = Last(running) /\ r \in Range(running) BY <1>4, <2>1, OnceLast
    <2>3. Range(running') = Range(running) \ {r} BY <1>4, <2>1, <2>2, OnceLast
    <2>4. Sorted(R, running') /\ \A x \in Range(running') : <<x, r>> \in R
      BY <1>3, <1>4, <2>1, <2>2, SortedFront
    <2>5. r \notin Range(waiting) /\ waiting' = <<r>> \o waiting BY <1>4, <2>1, <2>2
    <2>6. Range(waiting') = Range(waiting) \cup {r} BY <1>4, <2>5, OnceInFront
    <2>7. \A y \in Range(waiting) : <<r, y>> \in R BY <1>3, <2>2 DEF AllAhead
    <2>8. Sorted(R, waiting') BY <1>3, <1>4, <2>5, <2>7, SortedInFront
    <2>9. AllAhead(R, running', waiting') BY <1>3, <2>3, <2>4, <2>6 DEF AllAhead
    <2>10. Range(admitted') = {} /\ Sorted(R, admitted')
      BY <1>3, <2>1, NobodyListed DEF Sorted
    <2>11. AllAhead(R, running', admitted') /\ AllAhead(R, admitted', waiting')
      BY <2>10 DEF AllAhead
    <2> QED BY <2>4, <2>8, <2>9, <2>10, <2>11
  <1>9. CASE Joins
    <2>1. running' = running \o admitted /\ admitted' = <<>> /\ waiting' = waiting BY <1>9 DEF Joins
    <2>2. Sorted(R, running') BY <1>3, <1>4, <2>1, SortedConcat
    <2>3. Range(running') = Range(running) \cup Range(admitted) BY <1>4, <2>1, OnceJoin
    <2>4. AllAhead(R, running', waiting') BY <1>3, <2>1, <2>3 DEF AllAhead
    <2>5. Range(admitted') = {} /\ Len(admitted') = 0 BY <2>1, NobodyListed
    <2>6. Sorted(R, admitted') /\ AllAhead(R, running', admitted') /\ AllAhead(R, admitted', waiting')
      BY <2>5 DEF Sorted, AllAhead
    <2>7. Sorted(R, waiting') BY <1>3, <2>1
    <2> QED BY <2>2, <2>4, <2>6, <2>7
  <1> QED BY <1>1, <1>6, <1>7, <1>8, <1>9

\* The head of a tenant is ahead of those of the tenant that stay in the queue.
LEMMA AdmitInTurn ==
  ASSUME PInv, TenantLine, NEW i \in Heads, AdmitAt(i)
  PROVE  TenantLine'
  <1>1. /\ admitted' = Append(admitted, waiting[i]) /\ waiting' = RemoveAt(waiting, i)
        /\ running' = running /\ arrival' = arrival
    BY DEF AdmitAt, history
  <1>2. PICK R : R = Turns /\ R = Turns' BY <1>1, SameTurns
  <1>3. /\ Sorted(R, running) /\ Sorted(R, admitted) /\ Sorted(R, waiting)
        /\ AllAhead(R, running, admitted) /\ AllAhead(R, running, waiting)
        /\ AllAhead(R, admitted, waiting)
    BY <1>2 DEF TenantLine
  <1>4. i \in 1 .. Len(waiting) /\ i \in Nat /\ Len(waiting) \in Nat BY Lists DEF Heads
  <1>5. PICK c \in Requests : c = waiting[i] /\ c \in Range(waiting) BY <1>4, Lists
  <1>6. /\ waiting \in Seq(Requests) /\ Once(waiting) /\ admitted \in Seq(Requests)
    BY Lists DEF PInv, Roles
  <1>7. Range(waiting') = Range(waiting) \ {c} BY <1>1, <1>4, <1>5, <1>6, OnceRemove DEF Once
  <1>8. Range(admitted') = Range(admitted) \cup {c} BY <1>1, <1>5, <1>6, OnceAppend
  <1>9. Sorted(R, waiting') BY <1>1, <1>3, <1>4, <1>6, SortedRemove
  <1>10. Sorted(R, admitted')
    <2>1. \A y \in Range(admitted) : <<y, c>> \in R BY <1>3, <1>5 DEF AllAhead
    <2> QED BY <1>1, <1>3, <1>5, <1>6, <2>1, SortedAppend
  <1>11. ASSUME NEW y \in Range(waiting') PROVE <<c, y>> \in R
    <2>1. y \in Range(waiting) /\ y # c /\ y \in Requests BY <1>7, Lists
    <2>2. PICK j \in 1 .. Len(waiting) : waiting[j] = y BY <2>1, Lists
    <2>3. CASE i < j BY <1>3, <1>4, <1>5, <2>2, <2>3 DEF Sorted
    <2>4. CASE ~(i < j)
      <3>1. j \in 1 .. i - 1 BY <1>4, <1>5, <2>1, <2>2, <2>4
      <3>2. TenantOf[y] # TenantOf[c] BY <1>5, <2>2, <3>1 DEF Heads, WaitingTenant
      <3> QED BY <1>2, <2>1, <3>2 DEF Turns
    <2> QED BY <2>3, <2>4
  <1>12. /\ AllAhead(R, running', admitted') /\ AllAhead(R, running', waiting')
         /\ AllAhead(R, admitted', waiting')
    BY <1>1, <1>3, <1>5, <1>7, <1>8, <1>11 DEF AllAhead
  <1>13. Sorted(R, running') BY <1>1, <1>3
  <1> QED BY <1>2, <1>9, <1>10, <1>12, <1>13 DEF TenantLine, Sorted, AllAhead

\* Whoever arrives is behind everybody.
LEMMA ArriveInTurn ==
  ASSUME PInv, TenantLine, NEW r \in Requests, AddRequest(r)
  PROVE  TenantLine'
  <1>1. /\ waiting' = Append(waiting, r) /\ arrival' = Append(arrival, r)
        /\ running' = running /\ admitted' = admitted
    BY DEF AddRequest, stepVars
  <1>2. /\ waiting \in Seq(Requests) /\ arrival \in Seq(Requests) /\ Len(arrival) \in Nat
        /\ Range(running) \cup Range(admitted) \cup Range(waiting) \subseteq Range(arrival)
    BY Lists, LenProperties DEF PInv, Roles
  <1>3. PICK more : more = arrival' /\ more = Append(arrival, r) BY <1>1
  <1>4. /\ Len(more) = Len(arrival) + 1 /\ \A k \in 1 .. Len(arrival) : more[k] = arrival[k]
        /\ more[Len(arrival) + 1] = r
    BY <1>2, <1>3, OnceAppend
  <1>5. ASSUME NEW q, NEW s, Before(q, s) PROVE Before(q, s)'
    <2>1. PICK k \in 1 .. Len(arrival), l \in 1 .. Len(arrival) :
              k < l /\ arrival[k] = q /\ arrival[l] = s
      BY <1>5 DEF Before
    <2>2. k \in 1 .. Len(more) /\ l \in 1 .. Len(more) /\ more[k] = q /\ more[l] = s
      BY <1>2, <1>4, <2>1
    <2>3. \E m, n \in 1 .. Len(more) : m < n /\ more[m] = q /\ more[n] = s BY <2>1, <2>2
    <2> QED BY <1>3, <2>3 DEF Before
  <1>6. ASSUME NEW q \in Range(arrival) PROVE Before(q, r)'
    <2>1. PICK k \in 1 .. Len(arrival) : arrival[k] = q BY <1>2, Occurs
    <2>2. /\ k \in 1 .. Len(more) /\ Len(arrival) + 1 \in 1 .. Len(more)
          /\ k < Len(arrival) + 1 /\ more[k] = q
      BY <1>2, <1>4, <2>1
    <2>3. \E m, n \in 1 .. Len(more) : m < n /\ more[m] = q /\ more[n] = r BY <1>4, <2>2
    <2> QED BY <1>3, <2>3 DEF Before
  <1>7. PICK R : R = Turns' OBVIOUS
  <1>8. \A q, s : <<q, s>> \in Turns => <<q, s>> \in R
    <2>1. ASSUME NEW q, NEW s, <<q, s>> \in Turns PROVE <<q, s>> \in Turns'
      <3>1. q \in Requests /\ s \in Requests /\ (TenantOf[q] = TenantOf[s] => Before(q, s))
        BY <2>1 DEF Turns
      <3> QED BY <1>5, <3>1 DEF Turns
    <2> QED BY <1>7, <2>1
  <1>9. ASSUME NEW q \in Range(arrival) PROVE <<q, r>> \in R
    <2>1. q \in Requests
      <3>1. PICK k \in 1 .. Len(arrival) : arrival[k] = q BY <1>2, Occurs
      <3> QED BY <1>2, <3>1, ElementOfSeq
    <2> QED BY <1>6, <1>7, <2>1 DEF Turns
  <1>10. /\ Sorted(R, running) /\ Sorted(R, admitted) /\ Sorted(R, waiting)
         /\ AllAhead(R, running, admitted) /\ AllAhead(R, running, waiting)
         /\ AllAhead(R, admitted, waiting)
    BY <1>8 DEF TenantLine, Sorted, AllAhead
  <1>11. Range(waiting') = Range(waiting) \cup {r} BY <1>1, <1>2, OnceAppend
  <1>12. Sorted(R, waiting')
    <2>1. \A y \in Range(waiting) : <<y, r>> \in R BY <1>2, <1>9
    <2> QED BY <1>1, <1>2, <1>10, <2>1, SortedAppend
  <1>13. /\ AllAhead(R, running', admitted') /\ AllAhead(R, running', waiting')
         /\ AllAhead(R, admitted', waiting') /\ Sorted(R, running') /\ Sorted(R, admitted')
    BY <1>1, <1>2, <1>9, <1>10, <1>11 DEF AllAhead, Sorted
  <1> QED BY <1>7, <1>12, <1>13 DEF TenantLine, Sorted, AllAhead

\* Nobody moves.
LEMMA StandInTurn ==
  ASSUME TenantLine, UNCHANGED <<running, admitted, waiting, arrival>>
  PROVE  TenantLine'
  <1>1. Turns' = Turns BY SameTurns
  <1> QED BY <1>1 DEF TenantLine, Sorted, AllAhead


--------------------------------------------------------------------------------
(* What is charged, and to whom. *)

\* A charge is a number; nobody is charged who has no request among the admitted.
LEMMA ChargeType ==
  ASSUME PInv, NEW t \in Tenants
  PROVE  /\ Charge(t) \in Nat
         /\ Charge(t) > 0 => \E r \in Range(admitted) : TenantOf[r] = t
  <1> DEFINE mine == {r \in Range(admitted) : TenantOf[r] = t}
  <1>1. mine \in SUBSET Requests BY Lists
  <1>2. IsFiniteSet(mine)
    <2>1. IsFiniteSet(Range(admitted)) BY Lists, FiniteRange
    <2> QED BY <2>1, FS_Subset
  <1>3. MapThenSumSet(Cost, mine) \in Nat /\ (mine = {} => MapThenSumSet(Cost, mine) = 0)
    BY <1>1, <1>2, SumOfCosts
  <1>4. Charge(t) = MapThenSumSet(Cost, mine) BY DEF Charge
  <1>5. PICK n \in Nat : n = Charge(t) BY <1>3, <1>4
  <1>6. n > 0 => mine # {} BY <1>3, <1>4, <1>5
  <1> QED BY <1>5, <1>6

--------------------------------------------------------------------------------
(* How far a tenant may get. *)

\* Whoever waits from now on has seen nobody charged since.
LEMMA LagKept ==
  ASSUME Charged, LagBounded, Marked, UNCHANGED <<served, last>>
  PROVE  Charged' /\ LagBounded'
  <1>1. PICK m : m = mark' /\ m = [t \in Tenants |-> IF ~Waits(t)' THEN Nothing
                                                     ELSE IF Waits(t) THEN mark[t] ELSE served]
    BY DEF Marked
  <1>2. Nothing \in [Tenants -> Nat] BY DEF Nothing
  <1>3. Charged' BY <1>1, <1>2 DEF Charged
  <1>4. ASSUME NEW t \in Tenants, NEW u \in Tenants, Waits(t)', served[u] > m[t][u]
        PROVE  (served[u] - last[u]) * Weight[t] <= served[t] * Weight[u]
    <2>1. CASE Waits(t)
      <3>1. m[t] = mark[t] BY <1>1, <1>4, <2>1
      <3> QED BY <1>4, <2>1, <3>1 DEF LagBounded
    <2>2. CASE ~Waits(t)
      <3>1. m[t] = served BY <1>1, <1>4, <2>2
      <3>2. served[u] \in Nat BY DEF Charged
      <3> QED BY <1>4, <3>1, <3>2
    <2> QED BY <2>1, <2>2
  <1>5. served' = served /\ last' = last OBVIOUS
  <1> QED BY <1>1, <1>3, <1>4, <1>5 DEF LagBounded

\* Whoever is charged now was not ahead of those who wait.
LEMMA LagCharged ==
  ASSUME TInv, ChargeAdmitted, Marked
  PROVE  Charged' /\ LagBounded'
  <1>1. /\ pc = "admit" /\ waiting' = waiting
        /\ served' = [t \in Tenants |-> served[t] + Charge(t)]
        /\ last' = [t \in Tenants |-> IF Charge(t) > 0 THEN Charge(t) ELSE last[t]]
    BY DEF ChargeAdmitted, StopAdmitting, StartWork
  <1>2. /\ served \in [Tenants -> Nat] /\ last \in [Tenants -> Nat]
        /\ mark \in [Tenants -> [Tenants -> Nat]]
    BY DEF TInv, Charged
  <1>3. \A t : Waits(t)' <=> Waits(t) BY <1>1 DEF Waits, WaitingTenant
  <1>4. mark' = [t \in Tenants |-> IF ~Waits(t) THEN Nothing ELSE mark[t]]
    BY <1>3 DEF Marked
  <1>5. \A t \in Tenants : Charge(t) \in Nat BY ChargeType DEF TInv
  <1>6. Charged'
    <2>1. Nothing \in [Tenants -> Nat] BY DEF Nothing
    <2>2. mark' \in [Tenants -> [Tenants -> Nat]] BY <1>2, <1>4, <2>1
    <2>3. \A t \in Tenants : served[t] + Charge(t) \in Nat BY <1>2, <1>5
    <2>4. served' \in [Tenants -> Nat] BY <1>1, <2>3
    <2>5. last' \in [Tenants -> Nat] BY <1>1, <1>2, <1>5
    <2> QED BY <2>2, <2>4, <2>5 DEF Charged
  <1>7. ASSUME NEW t \in Tenants, NEW u \in Tenants, Waits(t), served'[u] > mark[t][u]
        PROVE  (served'[u] - last'[u]) * Weight[t] <= served'[t] * Weight[u]
    <2>1. PICK a \in Nat : a = served[t] BY <1>2
    <2>2. PICK b \in Nat : b = served[u] BY <1>2
    <2>3. PICK c \in Nat : c = Charge(t) BY <1>5
    <2>4. PICK d \in Nat : d = Charge(u) BY <1>5
    <2>5. PICK w \in Nat : w = Weight[u] BY TenantAssumption
    <2>6. PICK v \in Nat : v = Weight[t] BY TenantAssumption
    <2>7. served'[t] = a + c BY <1>1, <2>1, <2>3
    <2>8. (a + c) * w >= a * w
      <3>1. (a + c) * w = a * w + c * w OBVIOUS
      <3>2. c * w \in Nat /\ a * w \in Nat OBVIOUS
      <3> QED BY <3>1, <3>2
    <2>9. CASE d > 0
      <3>1. PICK r \in Range(admitted) : TenantOf[r] = u BY <2>4, <2>9, ChargeType DEF TInv
      <3>2. ~Behind(t, u) BY <1>1, <1>7, <3>1 DEF TInv, ChosenBehind
      <3>3. ~(a * w < b * v) BY <2>1, <2>2, <2>5, <2>6, <3>2 DEF Behind
      <3>4. served'[u] = b + d /\ last'[u] = d BY <1>1, <2>2, <2>4, <2>9
      <3>5. (b + d) - d = b OBVIOUS
      <3>6. b * v <= a * w
        <4>1. a * w \in Nat /\ b * v \in Nat OBVIOUS
        <4> QED BY <3>3, <4>1
      <3>7. b * v <= (a + c) * w
        <4>1. a * w \in Nat /\ b * v \in Nat /\ (a + c) * w \in Nat OBVIOUS
        <4> QED BY <2>8, <3>6, <4>1
      <3> QED BY <2>5, <2>6, <2>7, <3>4, <3>5, <3>7
    <2>10. CASE d = 0
      <3>0. Charge(u) = 0 /\ ~(Charge(u) > 0) BY <2>4, <2>10
      <3>a. served'[u] = served[u] + Charge(u) BY <1>1
      <3>1. served'[u] = b /\ last'[u] = last[u] BY <1>1, <2>2, <3>0, <3>a
      <3>2. (b - last[u]) * v <= a * w
        <4>1. served[u] > mark[t][u] BY <1>7, <2>2, <3>1
        <4> QED BY <1>7, <2>1, <2>2, <2>5, <2>6, <4>1 DEF TInv, LagBounded
      <3>3. PICK e \in Int : e = (b - last[u]) * v BY <1>2
      <3>4. e <= (a + c) * w
        <4>1. a * w \in Nat /\ (a + c) * w \in Nat OBVIOUS
        <4> QED BY <2>8, <3>2, <3>3, <4>1
      <3> QED BY <2>5, <2>6, <2>7, <3>1, <3>3, <3>4
    <2> QED BY <2>9, <2>10
  <1>8. LagBounded'
    <2>1. ASSUME NEW t \in Tenants, NEW u \in Tenants, Waits(t)', served'[u] > mark'[t][u]
          PROVE  (served'[u] - last'[u]) * Weight[t] <= served'[t] * Weight[u]
      <3>1. Waits(t) /\ mark'[t] = mark[t] BY <1>3, <1>4, <2>1
      <3> QED BY <1>7, <2>1, <3>1
    <2> QED BY <2>1 DEF LagBounded
  <1> QED BY <1>6, <1>8

--------------------------------------------------------------------------------
(* The invariant holds. *)

\* The candidate is in the queue, and it is the head of its tenant.
LEMMA CandidateWaits ==
  ASSUME TInv, waiting # <<>>
  PROVE  NextOfTenants \in Heads /\ NextOfTenants \in 1 .. Len(waiting)
  <1>1. NextOfTenants \in Heads BY NextChosen DEF TInv
  <1> QED BY <1>1 DEF Heads

\* The step begins; nobody has been chosen.
LEMMA TenantBegins ==
  ASSUME TInv, BeginStep, UNCHANGED cacheVars, UNCHANGED <<served, last>>, Marked
  PROVE  TInv'
  <1>1. PInv' BY BeginSteps DEF TInv
  <1>2. Charged' /\ LagBounded' BY LagKept DEF TInv
  <1>3. UNCHANGED <<running, admitted, waiting, arrival>> /\ pc' = "retire"
    BY DEF BeginStep, stepVars, history
  <1>4. TenantLine' BY <1>3, StandInTurn DEF TInv
  <1>5. ChosenBehind' BY <1>3 DEF ChosenBehind
  <1> QED BY <1>1, <1>2, <1>4, <1>5 DEF TInv

\* The head of a tenant that is ahead of nobody is admitted.
LEMMA TenantAdmits ==
  ASSUME TInv, AdmitAt(NextOfTenants), UNCHANGED cacheVars, UNCHANGED <<served, last>>, Marked
  PROVE  TInv'
  <1>1. waiting # <<>> BY DEF AdmitAt, RoomInBatch
  <1>2. PICK i : i = NextOfTenants /\ i \in Heads /\ i \in 1 .. Len(waiting)
    BY <1>1, CandidateWaits
  <1>3. AdmitAt(i) BY <1>2
  <1>4. PInv' BY AdmissionSteps, <1>2, <1>3 DEF TInv
  <1>5. Charged' /\ LagBounded' BY LagKept DEF TInv
  <1>6. TenantLine' BY <1>2, <1>3, AdmitInTurn DEF TInv
  <1>7. /\ pc = "admit" /\ admitted' = Append(admitted, waiting[i]) /\ waiting' = RemoveAt(waiting, i)
    BY <1>3 DEF AdmitAt
  <1>8. /\ waiting \in Seq(Requests) /\ Once(waiting) /\ admitted \in Seq(Requests)
        /\ waiting[i] \in Requests /\ PInv
    BY <1>2, Lists DEF TInv, PInv, Roles
  <1>9. Range(admitted') = Range(admitted) \cup {waiting[i]} BY <1>7, <1>8, OnceAppend
  <1>10. ASSUME NEW t \in Tenants, Waits(t)' PROVE Waits(t)
    <2>1. PICK j \in 1 .. Len(waiting') : TenantOf[waiting'[j]] = t
      BY <1>10 DEF Waits, WaitingTenant
    <2>2. PICK w : w = RemoveAt(waiting, i) /\ waiting' = w BY <1>7
    <2>3. /\ Len(w) = Len(waiting) - 1 /\ Len(waiting) \in Nat
          /\ \A k \in 1 .. Len(waiting) - 1 : w[k] = IF k < i THEN waiting[k] ELSE waiting[k + 1]
      BY <1>2, <1>8, <2>2, RemoveAtType, LenProperties
    <2>4. w[j] = waiting[j] \/ w[j] = waiting[j + 1] BY <2>1, <2>2, <2>3
    <2>5. j \in 1 .. Len(waiting) /\ j + 1 \in 1 .. Len(waiting) BY <2>1, <2>2, <2>3
    <2> QED BY <2>1, <2>2, <2>4, <2>5 DEF Waits, WaitingTenant
  <1>11. ASSUME NEW r \in Range(admitted'), NEW t \in Tenants, Waits(t)
         PROVE  ~Behind(t, TenantOf[r])
    <2>1. CASE r \in Range(admitted) BY <1>7, <1>11, <2>1 DEF TInv, ChosenBehind
    <2>2. CASE r = waiting[i]
      <3>1. PICK j \in Heads : WaitingTenant(j) = t BY <1>8, <1>11, HeadOf
      <3>2. ~Behind(WaitingTenant(j), WaitingTenant(i)) BY <1>1, <1>2, NextChosen DEF TInv
      <3> QED BY <2>2, <3>1, <3>2 DEF WaitingTenant
    <2> QED BY <1>9, <2>1, <2>2
  <1>12. ChosenBehind'
    <2>1. served' = served OBVIOUS
    <2>2. \A t, u : Behind(t, u)' <=> Behind(t, u) BY <2>1 DEF Behind
    <2>3. ASSUME NEW r \in Range(admitted'), NEW t \in Tenants, Waits(t)'
          PROVE  ~Behind(t, TenantOf[r])'
      BY <1>10, <1>11, <2>2, <2>3
    <2> QED BY <2>3 DEF ChosenBehind
  <1> QED BY <1>4, <1>5, <1>6, <1>12 DEF TInv

\* A cached prefix goes, for whoever is considered.
LEMMA TenantEvicts ==
  ASSUME TInv, EvictFor(NextOfTenants), UNCHANGED <<served, last>>, Marked
  PROVE  TInv'
  <1>1. PInv' BY EvictStep DEF TInv
  <1>2. Charged' /\ LagBounded' BY LagKept DEF TInv
  <1>3. UNCHANGED <<running, admitted, waiting, arrival, pc>>
    BY DEF EvictFor, stepVars, history
  <1>4. TenantLine' BY <1>3, StandInTurn DEF TInv
  <1>5. ChosenBehind' BY <1>3 DEF TInv, ChosenBehind, Waits, WaitingTenant, Behind
  <1> QED BY <1>1, <1>2, <1>4, <1>5 DEF TInv

\* The batch is charged and its work begins.
LEMMA TenantCharges ==
  ASSUME TInv, ChargeAdmitted, Marked
  PROVE  TInv'
  <1>0. PICK i : i = NextOfTenants OBVIOUS
  <1>1. StopAdmitting(i) BY <1>0 DEF ChargeAdmitted
  <1>2. pc = "admit" /\ StartWork /\ UNCHANGED cacheVars BY <1>1 DEF StopAdmitting
  <1>3. PInv' BY <1>2, StopStep DEF TInv
  <1>4. Charged' /\ LagBounded' BY LagCharged
  <1>5. UNCHANGED <<running, admitted, waiting, arrival>> /\ pc' # "admit"
    BY <1>2 DEF StartWork, history
  <1>6. TenantLine' BY <1>5, StandInTurn DEF TInv
  <1>7. ChosenBehind' BY <1>5 DEF ChosenBehind
  <1> QED BY <1>3, <1>4, <1>6, <1>7 DEF TInv

\* Whatever a step does besides.
LEMMA TenantWorks ==
  ASSUME TInv, PrefixWork, UNCHANGED <<served, last>>, Marked
  PROVE  TInv'
  <1>1. PInv' BY WorkSteps DEF TInv
  <1>2. Charged' /\ LagBounded' BY LagKept DEF TInv
  <1>3. TenantLine' BY WorkInTurn DEF TInv
  <1>4. pc' = "admit" => Range(admitted') = {}
    <2>1. pc' = "admit" => admitted' = <<>> BY WorkMoves DEF TInv
    <2> QED BY <2>1, NobodyListed
  <1>5. ChosenBehind' BY <1>4 DEF ChosenBehind
  <1> QED BY <1>1, <1>2, <1>3, <1>5 DEF TInv

\* A token is handed out.
LEMMA TenantEmits ==
  ASSUME TInv, PrefixEmit, UNCHANGED <<served, last>>, Marked
  PROVE  TInv'
  <1>1. PInv' BY EmitSteps DEF TInv
  <1>2. Charged' /\ LagBounded' BY LagKept DEF TInv
  <1>3. UNCHANGED <<running, admitted, waiting, arrival>> /\ pc' # "admit"
    BY DEF PrefixEmit, history
  <1>4. TenantLine' BY <1>3, StandInTurn DEF TInv
  <1>5. ChosenBehind' BY <1>3 DEF ChosenBehind
  <1> QED BY <1>1, <1>2, <1>4, <1>5 DEF TInv

\* Somebody arrives.
LEMMA TenantArrives ==
  ASSUME TInv, NEW r \in Requests, TenantAddRequest(r)
  PROVE  TInv'
  <1>1. AddRequest(r) /\ UNCHANGED cacheVars /\ UNCHANGED <<served, last>> /\ Marked
    BY DEF TenantAddRequest
  <1>2. PInv' BY <1>1, ArriveStep DEF TInv
  <1>3. Charged' /\ LagBounded' BY <1>1, LagKept DEF TInv
  <1>4. TenantLine' BY <1>1, ArriveInTurn DEF TInv
  <1>5. pc' = "idle" BY <1>1 DEF AddRequest
  <1>6. ChosenBehind' BY <1>5 DEF ChosenBehind
  <1> QED BY <1>2, <1>3, <1>4, <1>6 DEF TInv

\* Nothing happens.
LEMMA TenantStutters ==
  ASSUME TInv, UNCHANGED tenantVars
  PROVE  TInv'
  <1>1. UNCHANGED prefixVars /\ UNCHANGED <<served, last, mark>> BY DEF tenantVars
  <1>2. UNCHANGED <<running, admitted, waiting, arrival, pc>>
    BY <1>1 DEF prefixVars, vars, stepVars, history
  <1>3. PInv' BY <1>1, PrefixStutters DEF TInv
  <1>4. TenantLine' BY <1>2, StandInTurn DEF TInv
  <1>5. Charged' /\ LagBounded'
    BY <1>1, <1>2 DEF TInv, Charged, LagBounded, Waits, WaitingTenant
  <1>6. ChosenBehind' BY <1>1, <1>2 DEF TInv, ChosenBehind, Waits, WaitingTenant, Behind
  <1> QED BY <1>3, <1>4, <1>5, <1>6 DEF TInv

\* An engine that has just been built.
LEMMA InitTenant == TenantInit => TInv
  <1> SUFFICES ASSUME TenantInit PROVE TInv
    OBVIOUS
  <1>1. /\ PrefixInit /\ served = Nothing /\ last = Nothing
        /\ mark = [t \in Tenants |-> Nothing]
    BY DEF TenantInit
  <1>2. PInv BY <1>1, InitPrefix
  <1>3. waiting = <<>> /\ running = <<>> /\ admitted = <<>> /\ pc = "idle"
    BY <1>1 DEF PrefixInit, Init
  <1>4. Range(<<>>) = {} /\ Len(<<>>) = 0 BY DEF Range
  <1>5. TenantLine BY <1>3, <1>4 DEF TenantLine, Sorted, AllAhead
  <1>6. Charged
    <2>1. Nothing \in [Tenants -> Nat] BY DEF Nothing
    <2> QED BY <1>1, <2>1 DEF Charged
  <1>7. ChosenBehind BY <1>3 DEF ChosenBehind
  <1>8. LagBounded
    <2>1. \A t : ~Waits(t) BY <1>3, <1>4 DEF Waits
    <2> QED BY <2>1 DEF LagBounded
  <1> QED BY <1>2, <1>5, <1>6, <1>7, <1>8 DEF TInv

\* No step of the engine and no arrival breaks the invariant.
LEMMA TenantSteps == TInv /\ [TenantNext]_tenantVars => TInv'
  <1> SUFFICES ASSUME TInv, [TenantNext]_tenantVars PROVE TInv'
    OBVIOUS
  <1>1. CASE TenantStep
    BY <1>1, TenantBegins, TenantAdmits, TenantEvicts, TenantWorks, TenantEmits, TenantCharges
    DEF TenantStep
  <1>2. ASSUME NEW r \in Requests, TenantAddRequest(r) PROVE TInv' BY <1>2, TenantArrives
  <1>3. CASE UNCHANGED tenantVars BY <1>3, TenantStutters
  <1> QED BY <1>1, <1>2, <1>3 DEF TenantNext

\* It always holds.
LEMMA TenantInvariant == TenantSpec => []TInv
  BY InitTenant, TenantSteps, PTL DEF TenantSpec

\* It says that each tenant is served in order of arrival.
LEMMA TenantFollows == TInv => TenantsInOrder
  <1> SUFFICES ASSUME TInv PROVE TenantsInOrder
    OBVIOUS
  <1>1. PInv BY DEF TInv
  <1>2. TenantTypeOK BY <1>1, PoolFollows DEF TenantTypeOK, TInv, Charged
  <1>3. /\ running \in Seq(Requests) /\ admitted \in Seq(Requests) /\ waiting \in Seq(Requests)
        /\ Once(running) /\ Once(admitted) /\ Once(waiting)
        /\ Range(running) \cap Range(admitted) = {}
    BY <1>1, Lists DEF PInv, Roles
  <1>4. /\ Sorted(Turns, running) /\ Sorted(Turns, admitted) /\ Sorted(Turns, waiting)
        /\ AllAhead(Turns, running, admitted) /\ AllAhead(Turns, running, waiting)
        /\ AllAhead(Turns, admitted, waiting)
    BY DEF TInv, TenantLine
  <1>5. PICK R : R = Turns OBVIOUS
  <1>6. PICK s : s = running \o admitted OBVIOUS
  <1>7. s \in Seq(Requests) /\ Sorted(R, s) BY <1>3, <1>4, <1>5, <1>6, SortedConcat
  <1>8. Range(s) = Range(running) \cup Range(admitted) BY <1>3, <1>6, OnceJoin
  <1>9. AllAhead(R, s, waiting) BY <1>4, <1>5, <1>8 DEF AllAhead
  <1>10. Sorted(R, s \o waiting) BY <1>3, <1>4, <1>5, <1>7, <1>9, SortedConcat
  <1>11. PICK l : l = Line /\ Sorted(R, l) BY <1>6, <1>10 DEF Line
  <1>12. ASSUME NEW i \in 1 .. Len(l), NEW j \in 1 .. Len(l), i < j, TenantOf[l[i]] = TenantOf[l[j]]
         PROVE  Before(l[i], l[j])
    <2>1. <<l[i], l[j]>> \in Turns BY <1>5, <1>11, <1>12 DEF Sorted
    <2> QED BY <1>12, <2>1 DEF Turns
  <1>13. TenantOrder BY <1>11, <1>12 DEF TenantOrder, Before
  <1> QED BY <1>2, <1>13 DEF TenantsInOrder

\* Each tenant's requests are served in the order they came in, through preemption
\* and readmission, whoever's turn it is.
THEOREM TenantsServedInOrder == TenantSpec => []TenantsInOrder
  BY TenantFollows, TenantInvariant, PTL

\* A tenant that is charged while another waits was not ahead of it before its
\* latest charge, whatever the weights and however large a batch is.
THEOREM NobodyRunsAhead == TenantSpec => []LagBounded
  <1>1. TInv => LagBounded BY DEF TInv
  <1> QED BY <1>1, TenantInvariant, PTL

\* Choosing by tenant leaves the pool exact, the cache honest, the promises of
\* admission kept and everybody's context its own.
THEOREM FairnessSpoilsNothing == TenantSpec => [](PoolExact /\ CacheIsHonest /\ ReadsOwnContext)
  <1>1. TInv => PoolExact BY PoolFollows DEF TInv, PoolExact
  <1>2. TInv => CacheIsHonest BY DEF TInv, PInv, MemInv, Honest, CacheIsHonest
  <1>3. TInv => ReadsOwnContext BY ContextFollows DEF TInv
  <1> QED BY <1>1, <1>2, <1>3, TenantInvariant, PTL

================================================================================

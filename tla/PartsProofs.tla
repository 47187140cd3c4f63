-------------------------------- MODULE PartsProofs -----------------------------
(***************************************************************************)
(* Theorems about parts that hold no conversation with an engine.          *)
(***************************************************************************)
EXTENDS BlockAllocator, Speculative, WindowedCache, Adapters, Results, SequenceFacts

--------------------------------------------------------------------------------
(* free(), a fold of DropOne over a list of blocks. *)

Counts == UNION {[D -> Nat] : D \in SUBSET Blocks}
PoolState == [list : Seq(Blocks), count : Counts]

CountIn(c, b) == IF b \in DOMAIN c THEN c[b] ELSE 0

\* A dictionary of counts is a function on some of the blocks.
LEMMA CountsAre ==
  /\ \A c \in Counts : DOMAIN c \subseteq Blocks /\ c \in [DOMAIN c -> Nat]
  /\ \A c : DOMAIN c \subseteq Blocks /\ c \in [DOMAIN c -> Nat] => c \in Counts
  /\ \A c \in Counts, b \in Blocks : CountIn(c, b) \in Nat
  <1>1. ASSUME NEW c \in Counts PROVE DOMAIN c \subseteq Blocks /\ c \in [DOMAIN c -> Nat]
    <2>1. PICK D \in SUBSET Blocks : c \in [D -> Nat] BY DEF Counts
    <2> QED BY <2>1
  <1>2. ASSUME NEW c, DOMAIN c \subseteq Blocks, c \in [DOMAIN c -> Nat] PROVE c \in Counts
    BY <1>2 DEF Counts
  <1> QED BY <1>1, <1>2 DEF CountIn

\* One iteration: the count goes down by one, and a block without holders is
\* appended to the list.
LEMMA DropOneDoes ==
  ASSUME NEW pool \in PoolState, NEW b \in Blocks
  PROVE  LET after == DropOne(pool, b)
             n == CountIn(pool.count, b)
         IN /\ after \in PoolState
            /\ after.list = IF n <= 1 THEN Append(pool.list, b) ELSE pool.list
            /\ CountIn(after.count, b) = IF n <= 1 THEN 0 ELSE n - 1
            /\ \A a \in Blocks \ {b} : CountIn(after.count, a) = CountIn(pool.count, a)
  <1> DEFINE n == CountIn(pool.count, b)
             c == pool.count
  <1>1. /\ pool.list \in Seq(Blocks) /\ c \in Counts /\ pool = [list |-> pool.list, count |-> c]
        /\ DOMAIN c \subseteq Blocks /\ c \in [DOMAIN c -> Nat] /\ n \in Nat
    BY CountsAre DEF PoolState
  <1>2. CASE n <= 1
    <2>1. PICK d : d = Restrict(c, DOMAIN c \ {b}) OBVIOUS
    <2>2. DOMAIN d = DOMAIN c \ {b} /\ \A a \in DOMAIN d : d[a] = c[a]
      BY <2>1 DEF Restrict
    <2>3. d \in [DOMAIN d -> Nat] BY <1>1, <2>1, <2>2 DEF Restrict
    <2>4. d \in Counts BY <1>1, <2>2, <2>3, CountsAre
    <2>5. DropOne(pool, b) = [list |-> Append(pool.list, b), count |-> d]
      BY <1>2, <2>1 DEF DropOne, CountIn
    <2>6. Append(pool.list, b) \in Seq(Blocks) BY <1>1, AppendProperties
    <2>7. DropOne(pool, b) \in PoolState BY <2>4, <2>5, <2>6 DEF PoolState
    <2>8. CountIn(d, b) = 0 /\ \A a \in Blocks \ {b} : CountIn(d, a) = CountIn(c, a)
      BY <2>2 DEF CountIn
    <2> QED BY <1>2, <2>5, <2>7, <2>8
  <1>3. CASE n > 1
    <2>1. b \in DOMAIN c /\ c[b] = n BY <1>1, <1>3 DEF CountIn
    <2>2. PICK d : d = [c EXCEPT ![b] = n - 1] OBVIOUS
    <2>3. /\ DOMAIN d = DOMAIN c /\ d[b] = n - 1 /\ \A a \in DOMAIN c \ {b} : d[a] = c[a]
          /\ d \in [DOMAIN d -> Nat]
      BY <1>1, <1>3, <2>1, <2>2
    <2>4. d \in Counts BY <1>1, <2>3, CountsAre
    <2>5. ~(n <= 1) BY <1>1, <1>3
    <2>6. DropOne(pool, b) = [list |-> pool.list, count |-> d]
      BY <1>1, <2>1, <2>2, <2>5 DEF DropOne, CountIn
    <2>7. DropOne(pool, b) \in PoolState BY <1>1, <2>4, <2>6 DEF PoolState
    <2>8. CountIn(d, b) = n - 1 /\ \A a \in Blocks \ {b} : CountIn(d, a) = CountIn(c, a)
      BY <2>1, <2>3 DEF CountIn
    <2> QED BY <2>5, <2>6, <2>7, <2>8
  <1> QED BY <1>1, <1>2, <1>3

\* The largest of the first k positions.
LEMMA LastPosition ==
  ASSUME NEW k \in Nat, k > 0
  PROVE  Max(1 .. k) = k /\ (1 .. k) \ {k} = 1 .. k - 1
  <1>1. k \in 1 .. k /\ \A i \in 1 .. k : k >= i OBVIOUS
  <1>2. Max(1 .. k) \in 1 .. k /\ \A i \in 1 .. k : Max(1 .. k) >= i
    BY <1>1, MaxOf
  <1>3. Max(1 .. k) = k
    <2>1. PICK m : m = Max(1 .. k) OBVIOUS
    <2>2. m \in 1 .. k /\ m >= k BY <1>1, <1>2, <2>1
    <2> QED BY <2>1, <2>2
  <1> QED BY <1>3

\* The states free() goes through, one per block.
LEMMA DropSteps ==
  ASSUME NEW pool \in PoolState, NEW blocks \in Seq(Blocks)
  PROVE  \E h : /\ h[0] = pool
                /\ \A k \in 1 .. Len(blocks) : h[k] = DropOne(h[k - 1], blocks[k])
                /\ FoldLeft(DropOne, pool, blocks) = h[Len(blocks)]
  <1> DEFINE U == DOMAIN blocks
             From(g, s) == IF s = {} THEN pool ELSE DropOne(g[s \ {Max(s)}], blocks[Max(s)])
             iter == CHOOSE g : g = [s \in SUBSET U |-> From(g, s)]
  <1>1. Len(blocks) \in Nat /\ U = 1 .. Len(blocks) /\ \A i \in U : blocks[i] \in Blocks
    BY LenProperties, ElementOfSeq
  <1>2. FoldLeft(DropOne, pool, blocks) = iter[U] BY DEF FoldLeft, MapThenFoldSet
  <1>3. IsFiniteSet(U) BY <1>1, FS_Interval
  <1>4. PICK one : one = [s \in (SUBSET U) \ {{}} |-> Max(s)] OBVIOUS
  <1>5. ASSUME NEW s \in SUBSET U, s # {} PROVE one[s] \in s /\ one[s] \in U /\ one[s] = Max(s)
    <2>1. one[s] = Max(s) BY <1>4, <1>5
    <2>2. Max(s) \in s BY <1>1, <1>5, MaxOf
    <2> QED BY <2>1, <2>2
  <1>6. one \in [(SUBSET U) \ {{}} -> U]
    <2> HIDE DEF U
    <2>1. \A s \in (SUBSET U) \ {{}} : Max(s) \in U BY <1>5
    <2> QED BY <1>4, <2>1
  <1>7. PICK step : step = [p \in U \X PoolState |-> DropOne(p[2], blocks[p[1]])] OBVIOUS
  <1>8. step \in [U \X PoolState -> PoolState]
    <2>1. ASSUME NEW p \in U \X PoolState PROVE DropOne(p[2], blocks[p[1]]) \in PoolState
      <3>1. p[2] \in PoolState /\ blocks[p[1]] \in Blocks BY <1>1
      <3> QED BY <3>1, DropOneDoes
    <2> QED BY <1>7, <2>1
  <1>9. PICK g \in [SUBSET U -> PoolState] : Folded(g, U, pool, step, one)
    <2>1. \A s \in (SUBSET U) \ {{}} : one[s] \in s BY <1>5
    <2> HIDE DEF U
    <2> QED BY <2>1, <1>3, <1>6, <1>8, FoldTable
  <1>10. g = [s \in SUBSET U |-> From(g, s)]
    <2>1. ASSUME NEW s \in SUBSET U PROVE g[s] = From(g, s)
      <3>1. CASE s = {} BY <1>9, <3>1 DEF Folded
      <3>2. CASE s # {}
        <4>1. one[s] \in U /\ one[s] = Max(s) /\ s \ {one[s]} \in SUBSET U BY <1>5, <3>2
        <4>2. g[s \ {one[s]}] \in PoolState BY <4>1
        <4>3. g[s] = step[<<one[s], g[s \ {one[s]}]>>] BY <1>9, <3>2 DEF Folded
        <4>4. <<one[s], g[s \ {one[s]}]>> \in U \X PoolState BY <4>1, <4>2
        <4>5. g[s] = DropOne(g[s \ {one[s]}], blocks[one[s]]) BY <1>7, <4>3, <4>4
        <4> QED BY <3>2, <4>1, <4>5
      <3> QED BY <3>1, <3>2
    <2> HIDE DEF From, U
    <2> QED BY <2>1
  <1>11. iter = [s \in SUBSET U |-> From(iter, s)]
    <2> HIDE DEF From, U
    <2> QED BY <1>10
  <1>12. PICK f : f = iter OBVIOUS
  <1>13. \A s \in SUBSET U : f[s] = From(f, s)
    <2> HIDE DEF From, iter, U
    <2> QED BY <1>11, <1>12
  <1> HIDE DEF iter
  <1>14. PICK h : h = [k \in 0 .. Len(blocks) |-> f[1 .. k]] OBVIOUS
  <1>15. h[0] = pool
    <2>1. 1 .. 0 = {} /\ {} \in SUBSET U OBVIOUS
    <2>2. f[{}] = pool BY <1>13, <2>1
    <2> QED BY <1>1, <1>14, <2>1, <2>2
  <1>16. ASSUME NEW k \in 1 .. Len(blocks) PROVE h[k] = DropOne(h[k - 1], blocks[k])
    <2>1. k \in Nat /\ k > 0 /\ k - 1 \in 0 .. Len(blocks) /\ 1 .. k \in SUBSET U BY <1>1
    <2>2. Max(1 .. k) = k /\ (1 .. k) \ {k} = 1 .. k - 1 BY <2>1, LastPosition
    <2>3. 1 .. k # {} BY <2>1
    <2>4. f[1 .. k] = DropOne(f[1 .. k - 1], blocks[k]) BY <1>13, <2>1, <2>2, <2>3
    <2> QED BY <1>14, <2>1, <2>4
  <1>17. FoldLeft(DropOne, pool, blocks) = h[Len(blocks)]
    <2>1. h[Len(blocks)] = f[1 .. Len(blocks)] BY <1>1, <1>14
    <2> QED BY <1>1, <1>2, <1>12, <2>1
  <1> QED BY <1>15, <1>16, <1>17

\* A list of distinct blocks, none of which is in the free list: each loses one
\* reference, and those that had no more are appended, each once.
LEMMA FreeDoes ==
  ASSUME NEW pool \in PoolState, NEW blocks \in Seq(Blocks),
         \A i, j \in 1 .. Len(blocks) : blocks[i] = blocks[j] => i = j,
         \A i, j \in 1 .. Len(pool.list) : pool.list[i] = pool.list[j] => i = j,
         Range(blocks) \cap Range(pool.list) = {}
  PROVE  LET after == FoldLeft(DropOne, pool, blocks)
         IN /\ after \in PoolState
            /\ \A i, j \in 1 .. Len(after.list) : after.list[i] = after.list[j] => i = j
            /\ Range(after.list) = Range(pool.list) \cup
                                       {b \in Range(blocks) : CountIn(pool.count, b) <= 1}
            /\ \A b \in Blocks : CountIn(after.count, b) =
                   LET n == CountIn(pool.count, b)
                   IN IF b \notin Range(blocks) THEN n ELSE IF n <= 1 THEN 0 ELSE n - 1
  <1>1. PICK h : /\ h[0] = pool
                 /\ \A k \in 1 .. Len(blocks) : h[k] = DropOne(h[k - 1], blocks[k])
                 /\ FoldLeft(DropOne, pool, blocks) = h[Len(blocks)]
    BY DropSteps
  <1>2. Len(blocks) \in Nat /\ \A i \in 1 .. Len(blocks) : blocks[i] \in Blocks
    BY LenProperties, ElementOfSeq
  <1> DEFINE was(b) == CountIn(pool.count, b)
             So(k) == {b \in Blocks : \E i \in 1 .. k : blocks[i] = b}
             Done(k) == /\ h[k] \in PoolState
                        /\ \A i, j \in 1 .. Len(h[k].list) : h[k].list[i] = h[k].list[j] => i = j
                        /\ Range(h[k].list) = Range(pool.list) \cup {b \in So(k) : was(b) <= 1}
                        /\ \A b \in Blocks : CountIn(h[k].count, b) =
                               IF b \notin So(k) THEN was(b) ELSE IF was(b) <= 1 THEN 0 ELSE was(b) - 1
             Sizes == {k \in Nat : k <= Len(blocks) => Done(k)}
  <1>3. \A b \in Blocks : was(b) \in Nat BY CountsAre DEF PoolState
  <1> HIDE DEF was
  <1>4. 0 \in Sizes
    <2>1. So(0) = {} OBVIOUS
    <2>2. Done(0) BY <1>1, <2>1 DEF was
    <2> QED BY <2>2
  <1>5. ASSUME NEW k \in Nat, k \in Sizes PROVE k + 1 \in Sizes
    <2> SUFFICES ASSUME k + 1 <= Len(blocks) PROVE Done(k + 1)
      OBVIOUS
    <2>1. Done(k) /\ k + 1 \in 1 .. Len(blocks) BY <1>2, <1>5
    <2>2. PICK b \in Blocks : b = blocks[k + 1] BY <1>2, <2>1
    <2>3. h[k + 1] = DropOne(h[k], b)
      <3>1. (k + 1) - 1 = k OBVIOUS
      <3> QED BY <1>1, <2>1, <2>2, <3>1
    <2>4. So(k + 1) = So(k) \cup {b}
      <3>1. ASSUME NEW a \in So(k + 1) PROVE a \in So(k) \cup {b}
        <4>1. PICK i \in 1 .. k + 1 : blocks[i] = a OBVIOUS
        <4>2. i \in 1 .. k \/ i = k + 1 BY <4>1
        <4> QED BY <2>2, <4>1, <4>2
      <3>2. \A i \in 1 .. k : i \in 1 .. k + 1 OBVIOUS
      <3>3. k + 1 \in 1 .. k + 1 OBVIOUS
      <3> QED BY <2>2, <3>1, <3>2, <3>3
    <2>5. b \notin So(k)
      <3>1. \A i \in 1 .. k : i \in 1 .. Len(blocks) /\ i # k + 1 BY <1>2, <2>1
      <3> QED BY <2>1, <2>2, <3>1
    <2>6. b \in Range(blocks) /\ b \notin Range(pool.list) BY <2>1, <2>2, Occurs
    <2>7. CountIn(h[k].count, b) = was(b) BY <2>1, <2>5
    <2>8. h[k] \in PoolState BY <2>1
    <2> DEFINE after == DropOne(h[k], b)
    <2>9. /\ after \in PoolState
          /\ after.list = IF was(b) <= 1 THEN Append(h[k].list, b) ELSE h[k].list
          /\ CountIn(after.count, b) = IF was(b) <= 1 THEN 0 ELSE was(b) - 1
          /\ \A a \in Blocks \ {b} : CountIn(after.count, a) = CountIn(h[k].count, a)
      BY <2>7, <2>8, DropOneDoes
    <2>10. b \notin Range(h[k].list) BY <2>1, <2>5, <2>6
    <2>11. h[k].list \in Seq(Blocks) BY <2>8 DEF PoolState
    <2> HIDE DEF after, So
    <2>12. /\ \A i, j \in 1 .. Len(after.list) : after.list[i] = after.list[j] => i = j
           /\ Range(after.list) = Range(pool.list) \cup {a \in So(k + 1) : was(a) <= 1}
      <3>1. CASE was(b) <= 1
        <4>1. Append(h[k].list, b) = h[k].list \o <<b>> BY <2>11, AppendIsConcat
        <4>2. PICK u \in Seq(Blocks) : u = <<b>> BY OnlyOne
        <4>3. Range(u) = {b} /\ \A i, j \in 1 .. Len(u) : u[i] = u[j] => i = j BY <4>2, OnlyOne
        <4>4. PICK t \in Seq(Blocks) : t = h[k].list BY <2>11
        <4>5. \A i, j \in 1 .. Len(t) : t[i] = t[j] => i = j BY <2>1, <4>4
        <4>6. Range(t) \cap Range(u) = {} BY <2>10, <4>3, <4>4
        <4>7. /\ Range(t \o u) = Range(t) \cup Range(u)
              /\ \A i, j \in 1 .. Len(t \o u) : (t \o u)[i] = (t \o u)[j] => i = j
          BY <4>3, <4>5, <4>6, OnceConcat
        <4>8. PICK l : l = t \o u OBVIOUS
        <4>9. Range(l) = Range(t) \cup {b} /\ \A i, j \in 1 .. Len(l) : l[i] = l[j] => i = j
          BY <4>3, <4>7, <4>8
        <4>10. after.list = l BY <2>9, <3>1, <4>1, <4>2, <4>4, <4>8
        <4>11. {a \in So(k + 1) : was(a) <= 1} = {a \in So(k) : was(a) <= 1} \cup {b}
          BY <2>4, <3>1
        <4> QED BY <2>1, <4>4, <4>9, <4>10, <4>11
      <3>2. CASE ~(was(b) <= 1)
        <4>1. {a \in So(k + 1) : was(a) <= 1} = {a \in So(k) : was(a) <= 1} BY <2>4, <3>2
        <4> QED BY <2>1, <2>9, <3>2, <4>1
      <3> QED BY <3>1, <3>2
    <2>13. ASSUME NEW a \in Blocks
           PROVE  CountIn(after.count, a) =
                      IF a \notin So(k + 1) THEN was(a) ELSE IF was(a) <= 1 THEN 0 ELSE was(a) - 1
      BY <2>1, <2>4, <2>9
    <2> QED BY <2>3, <2>9, <2>12, <2>13 DEF after
  <1>6. Len(blocks) \in Sizes
    <2> HIDE DEF Sizes
    <2>1. Nat \subseteq Sizes BY <1>4, <1>5, Induction
    <2> QED BY <1>2, <2>1
  <1>7. Done(Len(blocks)) BY <1>2, <1>6
  <1>8. So(Len(blocks)) = Range(blocks) BY <1>2, Occurs
  <1> HIDE DEF So
  <1> QED BY <1>1, <1>7, <1>8 DEF was

--------------------------------------------------------------------------------
(* The allocator. *)

AllocatorTypes == /\ free_list \in Seq(Blocks) /\ count \in Counts
                  /\ held \in [Blocks -> Nat]

AllocatorInv == AllocatorTypes /\ FreeListExact

\* The blocks that pop() takes are the last of the list, and leave the others.
LEMMA PoppedDoes ==
  ASSUME AllocatorInv, NEW n \in Nat, n <= Len(free_list)
  PROVE  LET rest == SubSeq(free_list, 1, Len(free_list) - n)
         IN /\ Popped(n) \in Seq(Blocks) /\ Len(Popped(n)) = n
            /\ \A i, j \in 1 .. n : Popped(n)[i] = Popped(n)[j] => i = j
            /\ Range(Popped(n)) \subseteq Range(free_list)
            /\ rest \in Seq(Blocks)
            /\ \A i, j \in 1 .. Len(rest) : rest[i] = rest[j] => i = j
            /\ Range(rest) = Range(free_list) \ Range(Popped(n))
  <1>1. PICK s \in Seq(Blocks) : s = free_list BY DEF AllocatorInv, AllocatorTypes
  <1>2. /\ Len(s) \in Nat /\ \A i \in 1 .. Len(s) : s[i] \in Blocks
        /\ \A i, j \in 1 .. Len(s) : s[i] = s[j] => i = j
    BY <1>1, LenProperties, ElementOfSeq DEF AllocatorInv, FreeListExact
  <1>3. PICK m \in Nat : m = Len(s) - n /\ m <= Len(s)
    <2>1. PICK z \in Nat : z = Len(s) BY <1>2
    <2>2. n <= z BY <1>1, <2>1
    <2>3. z - n \in Nat /\ z - n <= z BY <2>2
    <2> QED BY <2>1, <2>3
  <1>4. PICK rest : rest = SubSeq(s, 1, m) OBVIOUS
  <1>5. rest \in Seq(Blocks) /\ Len(rest) = m /\ \A i \in 1 .. m : rest[i] = s[i]
    BY <1>2, <1>3, <1>4, Beginning
  <1>6. PICK back : back = SubSeq(s, m + 1, Len(s)) OBVIOUS
  <1>7. back \in Seq(Blocks) /\ Len(back) = n /\ \A i \in 1 .. n : back[i] = s[m + i]
    <2>1. \A i \in m + 1 .. Len(s) : s[i] \in Blocks BY <1>2, <1>3
    <2>2. /\ back \in Seq(Blocks)
          /\ Len(back) = IF m + 1 <= Len(s) THEN Len(s) - (m + 1) + 1 ELSE 0
          /\ \A i \in 1 .. Len(s) - (m + 1) + 1 : back[i] = s[m + 1 + i - 1]
      BY <1>2, <1>3, <1>6, <2>1, SubSeqProperties
    <2>3. Len(s) - (m + 1) + 1 = n BY <1>2, <1>3
    <2>4. Len(back) = n BY <1>2, <1>3, <2>2
    <2>5. \A i \in 1 .. n : m + 1 + i - 1 = m + i BY <1>3
    <2> QED BY <2>2, <2>3, <2>4, <2>5
  <1>8. Popped(n) = [i \in 1 .. n |-> back[(n - i) + 1]]
    <2>1. Popped(n) = Reverse(back) BY <1>1, <1>3, <1>6 DEF Popped
    <2> QED BY <1>7, <2>1 DEF Reverse
  <1>9. \A i \in 1 .. n : (n - i) + 1 \in 1 .. n /\ (n - ((n - i) + 1)) + 1 = i OBVIOUS
  <1>10. PICK t : t = Popped(n) OBVIOUS
  <1>11. \A i \in 1 .. n : t[i] = s[m + ((n - i) + 1)] BY <1>7, <1>8, <1>9, <1>10
  <1>12. \A i \in 1 .. n : m + ((n - i) + 1) \in 1 .. Len(s) BY <1>2, <1>3
  <1>13. t \in [1 .. n -> Blocks] BY <1>2, <1>8, <1>10, <1>11, <1>12
  <1>14. t \in Seq(Blocks) /\ Len(t) = n BY <1>13, SeqDef, LenProperties
  <1>15. ASSUME NEW i \in 1 .. n, NEW j \in 1 .. n, t[i] = t[j] PROVE i = j
    <2>1. m + ((n - i) + 1) = m + ((n - j) + 1) BY <1>2, <1>11, <1>12, <1>15
    <2> QED BY <1>3, <2>1
  <1>16. ASSUME NEW b \in Blocks
         PROVE  /\ b \in Range(t) <=> \E k \in m + 1 .. Len(s) : s[k] = b
                /\ b \in Range(rest) <=> \E k \in 1 .. m : s[k] = b
                /\ b \in Range(s) <=> \E k \in 1 .. Len(s) : s[k] = b
    <2>1. b \in Range(t) <=> \E i \in 1 .. n : t[i] = b BY <1>14, Occurs
    <2>2. ASSUME NEW k \in m + 1 .. Len(s), s[k] = b PROVE \E i \in 1 .. n : t[i] = b
      <3>0. PICK z \in Nat : z = Len(s) /\ n = z - m BY <1>2, <1>3
      <3>1. PICK i \in 1 .. n : i = (n - (k - m)) + 1
        <4>1. k \in m + 1 .. z BY <3>0
        <4>2. (n - (k - m)) + 1 \in 1 .. n BY <3>0, <4>1
        <4> QED BY <4>2
      <3>2. m + ((n - i) + 1) = k BY <1>2, <1>3, <3>1
      <3> QED BY <1>11, <2>2, <3>2
    <2>3. ASSUME NEW i \in 1 .. n, t[i] = b PROVE \E k \in m + 1 .. Len(s) : s[k] = b
      <3>1. m + ((n - i) + 1) \in m + 1 .. Len(s) BY <1>2, <1>3
      <3> QED BY <1>11, <2>3, <3>1
    <2>4. b \in Range(rest) <=> \E k \in 1 .. m : rest[k] = b BY <1>5, Occurs
    <2>5. b \in Range(s) <=> \E k \in 1 .. Len(s) : s[k] = b BY Occurs
    <2> QED BY <1>5, <2>1, <2>2, <2>3, <2>4, <2>5
  <1>17. Range(t) \subseteq Blocks /\ Range(rest) \subseteq Blocks /\ Range(s) \subseteq Blocks
    BY <1>5, <1>14, Occurs, ElementOfSeq, SMTT(30)
  <1>18. Range(t) \subseteq Range(s)
    <2>1. \A k \in m + 1 .. Len(s) : k \in 1 .. Len(s) BY <1>3
    <2> QED BY <1>16, <1>17, <2>1
  <1>19. Range(rest) = Range(s) \ Range(t)
    <2>1. ASSUME NEW b \in Blocks PROVE b \in Range(rest) <=> b \in Range(s) /\ b \notin Range(t)
      <3>1. ASSUME NEW k \in 1 .. m, s[k] = b PROVE b \in Range(s) /\ b \notin Range(t)
        <4>1. k \in 1 .. Len(s) /\ k \notin m + 1 .. Len(s) BY <1>2, <1>3
        <4>2. ASSUME NEW l \in m + 1 .. Len(s), s[l] = b PROVE FALSE
          <5>1. l \in 1 .. Len(s) BY <1>2, <1>3
          <5> QED BY <1>2, <3>1, <4>1, <4>2, <5>1
        <4> QED BY <1>16, <3>1, <4>1, <4>2
      <3>2. ASSUME NEW k \in 1 .. Len(s), s[k] = b, b \notin Range(t) PROVE \E l \in 1 .. m : s[l] = b
        <4>1. k \notin m + 1 .. Len(s) BY <1>16, <3>2
        <4>2. k \in 1 .. m BY <1>2, <1>3, <4>1
        <4> QED BY <3>2, <4>2
      <3> QED BY <1>16, <3>1, <3>2
    <2> QED BY <1>17, <2>1
  <1>20. \A i, j \in 1 .. Len(rest) : rest[i] = rest[j] => i = j
    <2>1. \A i \in 1 .. m : i \in 1 .. Len(s) BY <1>2, <1>3
    <2> QED BY <1>2, <1>5, <2>1
  <1> QED BY <1>1, <1>3, <1>4, <1>5, <1>10, <1>14, <1>15, <1>18, <1>19, <1>20


\* SetToSeqs lists the members of a finite set, each once.
LEMMA ListsOf ==
  ASSUME NEW S, IsFiniteSet(S), NEW s \in SetToSeqs(S)
  PROVE  /\ s \in Seq(S) /\ Len(s) = Cardinality(S) /\ Range(s) = S
         /\ \A i, j \in 1 .. Len(s) : s[i] = s[j] => i = j
  <1>1. PICK n \in Nat : n = Cardinality(S) BY FS_CardinalityType
  <1>2. s \in [1 .. n -> S] /\ \A i, j \in 1 .. n : i # j => s[i] # s[j]
    BY <1>1 DEF SetToSeqs
  <1>3. s \in Seq(S) /\ Len(s) = n BY <1>2, SeqDef, LenProperties
  <1>4. s \in Injection(1 .. n, S) BY <1>2 DEF Injection, IsInjective
  <1>5. Cardinality(1 .. n) = n BY FS_Interval
  <1>6. s \in Surjection(1 .. n, S) BY <1>1, <1>4, <1>5, FS_Injection
  <1>7. \A x \in S : \E i \in 1 .. n : s[i] = x BY <1>6 DEF Surjection
  <1>8. Range(s) = S
    <2>1. \A x : x \in Range(s) <=> \E i \in 1 .. n : s[i] = x BY <1>3, Occurs
    <2>2. \A i \in 1 .. n : s[i] \in S BY <1>2
    <2>3. \A x : x \in Range(s) <=> x \in S BY <1>7, <2>1, <2>2
    <2> QED BY <2>3
  <1> QED BY <1>1, <1>2, <1>3, <1>8

\* A list on which nobody stands twice is as long as its members are many.
LEMMA OnceCounts ==
  ASSUME NEW S, NEW s \in Seq(S), \A i, j \in 1 .. Len(s) : s[i] = s[j] => i = j
  PROVE  IsFiniteSet(Range(s)) /\ Cardinality(Range(s)) = Len(s)
  <1>1. PICK n \in Nat : n = Len(s) BY LenProperties
  <1>2. \A x : x \in Range(s) <=> \E i \in 1 .. n : s[i] = x BY <1>1, Occurs
  <1>3. s \in [1 .. n -> Range(s)]
    <2>1. s \in [1 .. n -> S] BY <1>1, LenProperties
    <2> QED BY <1>2, <2>1
  <1>4. s \in Bijection(1 .. n, Range(s))
    BY <1>1, <1>2, <1>3 DEF Bijection, Injection, Surjection, IsInjective
  <1>5. ExistsBijection(1 .. n, Range(s)) BY <1>4 DEF ExistsBijection
  <1>6. IsFiniteSet(1 .. n) /\ Cardinality(1 .. n) = n BY FS_Interval
  <1> QED BY <1>1, <1>5, <1>6, FS_Bijection

\* The pool starts with every block in the list once.
LEMMA AllocatorStarts == Init => AllocatorInv
  <1> SUFFICES ASSUME Init PROVE AllocatorInv
    OBVIOUS
  <1>1. free_list \in SetToSeqs(Blocks) /\ count = <<>> /\ held = [b \in Blocks |-> 0] BY DEF Init
  <1>2. /\ free_list \in Seq(Blocks) /\ Range(free_list) = Blocks
        /\ \A i, j \in 1 .. Len(free_list) : free_list[i] = free_list[j] => i = j
    BY <1>1, AllocatorAssumption, ListsOf
  <1>5. DOMAIN count = {} BY <1>1
  <1>6. count \in Counts
    <2>1. count \in [DOMAIN count -> Nat] BY <1>1, <1>5
    <2> QED BY <1>5, <2>1, CountsAre
  <1>7. AllocatorTypes BY <1>1, <1>2, <1>6 DEF AllocatorTypes
  <1>8. \A b \in Blocks : RefCount(b) = held[b] /\ (b \in Range(free_list) <=> held[b] = 0)
    BY <1>1, <1>2, <1>5 DEF RefCount
  <1> QED BY <1>2, <1>7, <1>8 DEF AllocatorInv, FreeListExact

\* allocate() keeps the list exact, and takes distinct blocks of it.
LEMMA AllocateExact ==
  ASSUME AllocatorInv, NEW n \in Nat, Allocate(n)
  PROVE  AllocatorInv'
  <1>1. PICK t : t = Popped(n) OBVIOUS
  <1>2. PICK rest : rest = SubSeq(free_list, 1, Len(free_list) - n) OBVIOUS
  <1>3. /\ free_list' = rest
        /\ count' = [b \in DOMAIN count \cup Range(t) |-> IF b \in Range(t) THEN 1 ELSE count[b]]
        /\ held' = [b \in Blocks |-> held[b] + IF b \in Range(t) THEN 1 ELSE 0]
    BY <1>1, <1>2 DEF Allocate
  <1>4. /\ Range(t) \subseteq Range(free_list)
        /\ rest \in Seq(Blocks) /\ \A i, j \in 1 .. Len(rest) : rest[i] = rest[j] => i = j
        /\ Range(rest) = Range(free_list) \ Range(t)
    BY <1>1, <1>2, PoppedDoes DEF Allocate
  <1>5. /\ free_list \in Seq(Blocks) /\ count \in Counts /\ held \in [Blocks -> Nat]
        /\ DOMAIN count \subseteq Blocks /\ count \in [DOMAIN count -> Nat]
    BY CountsAre DEF AllocatorInv, AllocatorTypes
  <1>6. Range(t) \subseteq Blocks
    <2>1. \A b \in Range(free_list) : b \in Blocks BY <1>5, Occurs, ElementOfSeq
    <2> QED BY <1>4, <2>1
  <1>7. PICK c : c = [b \in DOMAIN count \cup Range(t) |-> IF b \in Range(t) THEN 1 ELSE count[b]]
    OBVIOUS
  <1>8. DOMAIN c \subseteq Blocks /\ c \in [DOMAIN c -> Nat] BY <1>5, <1>6, <1>7
  <1>9. c \in Counts BY <1>8, CountsAre
  <1>10. \A b \in Blocks : held[b] \in Nat BY <1>5
  <1>11. held' \in [Blocks -> Nat] BY <1>3, <1>10
  <1>12. \A b \in Blocks : /\ RefCount(b) = held[b]
                           /\ b \in Range(free_list) <=> held[b] = 0
    BY DEF AllocatorInv, FreeListExact
  <1>13. ASSUME NEW b \in Blocks
         PROVE  (RefCount(b))' = held'[b] /\ (b \in Range(rest) <=> held'[b] = 0)
    <2>1. held'[b] = held[b] + IF b \in Range(t) THEN 1 ELSE 0 BY <1>3
    <2>2. CASE b \in Range(t)
      <3>1. held[b] = 0 BY <1>4, <1>12, <2>2
      <3>2. (RefCount(b))' = 1 BY <1>3, <2>2 DEF RefCount
      <3> QED BY <1>4, <2>1, <2>2, <3>1, <3>2
    <2>3. CASE b \notin Range(t)
      <3>1. (RefCount(b))' = RefCount(b) BY <1>3, <2>3 DEF RefCount
      <3>2. held'[b] = held[b] BY <1>10, <2>1, <2>3
      <3> QED BY <1>4, <1>12, <2>3, <3>1, <3>2
    <2> QED BY <2>2, <2>3
  <1>14. AllocatorTypes' BY <1>3, <1>4, <1>7, <1>9, <1>11 DEF AllocatorTypes
  <1>15. FreeListExact' BY <1>3, <1>4, <1>13 DEF FreeListExact
  <1> QED BY <1>14, <1>15 DEF AllocatorInv

\* share() raises the count of a block that is held, and leaves the list.
LEMMA ShareExact ==
  ASSUME AllocatorInv, NEW b \in Blocks, Share(b)
  PROVE  AllocatorInv'
  <1>1. /\ count' = [count EXCEPT ![b] = @ + 1] /\ held' = [held EXCEPT ![b] = @ + 1]
        /\ free_list' = free_list /\ held[b] \in 1 .. MaxHolders - 1
    BY DEF Share
  <1>2. /\ free_list \in Seq(Blocks) /\ held \in [Blocks -> Nat]
        /\ DOMAIN count \subseteq Blocks /\ count \in [DOMAIN count -> Nat]
    BY CountsAre DEF AllocatorInv, AllocatorTypes
  <1>3. \A a \in Blocks : /\ RefCount(a) = held[a]
                          /\ a \in Range(free_list) <=> held[a] = 0
    BY DEF AllocatorInv, FreeListExact
  <1>4. held[b] \in Nat /\ held[b] > 0 BY <1>1, <1>2
  <1>5. b \in DOMAIN count BY <1>3, <1>4 DEF RefCount
  <1>6. PICK c : c = [count EXCEPT ![b] = @ + 1] OBVIOUS
  <1>7. /\ DOMAIN c = DOMAIN count /\ c \in [DOMAIN c -> Nat]
        /\ c[b] = count[b] + 1 /\ \A a \in DOMAIN count \ {b} : c[a] = count[a]
    BY <1>2, <1>5, <1>6
  <1>8. c \in Counts BY <1>2, <1>7, CountsAre
  <1>9. /\ held' \in [Blocks -> Nat] /\ held'[b] = held[b] + 1
        /\ \A a \in Blocks \ {b} : held'[a] = held[a]
    BY <1>1, <1>2
  <1>10. ASSUME NEW a \in Blocks
         PROVE  (RefCount(a))' = held'[a] /\ (a \in Range(free_list) <=> held'[a] = 0)
    <2>1. CASE a = b
      <3>1. (RefCount(b))' = count[b] + 1 BY <1>1, <1>5, <1>6, <1>7 DEF RefCount
      <3>2. count[b] = held[b] BY <1>3, <1>5 DEF RefCount
      <3> QED BY <1>3, <1>4, <1>9, <2>1, <3>1, <3>2
    <2>2. CASE a # b
      <3>1. (RefCount(a))' = RefCount(a) BY <1>1, <1>6, <1>7, <2>2 DEF RefCount
      <3> QED BY <1>3, <1>9, <2>2, <3>1
    <2> QED BY <2>1, <2>2
  <1>11. AllocatorTypes' BY <1>1, <1>2, <1>6, <1>8, <1>9 DEF AllocatorTypes
  <1>12. FreeListExact'
    <2>1. \A i, j \in 1 .. Len(free_list) : free_list[i] = free_list[j] => i = j
      BY DEF AllocatorInv, FreeListExact
    <2> QED BY <1>1, <1>10, <2>1 DEF FreeListExact
  <1> QED BY <1>11, <1>12 DEF AllocatorInv

\* What free() leaves, for a list of distinct blocks that are held.
LEMMA FreeLeaves ==
  ASSUME AllocatorInv, NEW S \in SUBSET Blocks, NEW blocks \in SetToSeqs(S), Free(blocks)
  PROVE  /\ Range(blocks) = S /\ S \cap Range(free_list) = {}
         /\ [list |-> free_list', count |-> count'] \in PoolState
         /\ \A i, j \in 1 .. Len(free_list') : free_list'[i] = free_list'[j] => i = j
         /\ Range(free_list') = Range(free_list) \cup {b \in S : RefCount(b) <= 1}
         /\ \A b \in Blocks : (RefCount(b))' =
                IF b \notin S THEN RefCount(b)
                ELSE IF RefCount(b) <= 1 THEN 0 ELSE RefCount(b) - 1
  <1>1. IsFiniteSet(S) BY AllocatorAssumption, FS_Subset
  <1>2. /\ blocks \in Seq(S) /\ Range(blocks) = S
        /\ \A i, j \in 1 .. Len(blocks) : blocks[i] = blocks[j] => i = j
    BY <1>1, ListsOf
  <1>3. blocks \in Seq(Blocks)
    <2>1. Seq(S) \subseteq Seq(Blocks) BY SeqDef
    <2> QED BY <1>2, <2>1
  <1>4. PICK pool : pool = [list |-> free_list, count |-> count] OBVIOUS
  <1>5. pool \in PoolState /\ pool.list = free_list /\ pool.count = count
    BY <1>4 DEF PoolState, AllocatorInv, AllocatorTypes
  <1>6. \A b \in S : held[b] > 0 BY <1>2 DEF Free
  <1>7. S \cap Range(free_list) = {}
    <2>1. \A b \in S : b \in Range(free_list) <=> held[b] = 0 BY DEF AllocatorInv, FreeListExact
    <2> QED BY <1>6, <2>1
  <1>8. PICK after : after = FoldLeft(DropOne, pool, blocks) OBVIOUS
  <1>9. free_list' = after.list /\ count' = after.count BY <1>4, <1>8 DEF Free
  <1>10. \A i, j \in 1 .. Len(pool.list) : pool.list[i] = pool.list[j] => i = j
    BY <1>5 DEF AllocatorInv, FreeListExact
  <1>11. Range(blocks) \cap Range(pool.list) = {} BY <1>2, <1>5, <1>7
  <1>12. /\ after \in PoolState
         /\ \A i, j \in 1 .. Len(after.list) : after.list[i] = after.list[j] => i = j
         /\ Range(after.list) = Range(pool.list) \cup
                                    {b \in Range(blocks) : CountIn(pool.count, b) <= 1}
         /\ \A b \in Blocks : CountIn(after.count, b) =
                LET n == CountIn(pool.count, b)
                IN IF b \notin Range(blocks) THEN n ELSE IF n <= 1 THEN 0 ELSE n - 1
    BY <1>2, <1>3, <1>5, <1>8, <1>10, <1>11, FreeDoes
  <1>13. \A b : RefCount(b) = CountIn(pool.count, b) BY <1>5 DEF RefCount, CountIn
  <1>14. \A b : (RefCount(b))' = CountIn(after.count, b) BY <1>9 DEF RefCount, CountIn
  <1>15. [list |-> free_list', count |-> count'] \in PoolState BY <1>9, <1>12 DEF PoolState
  <1>16. Range(free_list') = Range(free_list) \cup {b \in S : RefCount(b) <= 1}
    BY <1>2, <1>5, <1>9, <1>12, <1>13
  <1>17. \A i, j \in 1 .. Len(free_list') : free_list'[i] = free_list'[j] => i = j
    BY <1>9, <1>12
  <1>18. ASSUME NEW b \in Blocks
         PROVE  (RefCount(b))' = IF b \notin S THEN RefCount(b)
                                 ELSE IF RefCount(b) <= 1 THEN 0 ELSE RefCount(b) - 1
    BY <1>2, <1>12, <1>13, <1>14
  <1> QED BY <1>2, <1>7, <1>15, <1>16, <1>17, <1>18

\* free() returns a block to the list when its last reference is dropped.
LEMMA FreeExact ==
  ASSUME AllocatorInv, NEW S \in SUBSET Blocks, NEW blocks \in SetToSeqs(S), Free(blocks)
  PROVE  AllocatorInv'
  <1>1. /\ Range(blocks) = S
        /\ [list |-> free_list', count |-> count'] \in PoolState
        /\ \A i, j \in 1 .. Len(free_list') : free_list'[i] = free_list'[j] => i = j
        /\ Range(free_list') = Range(free_list) \cup {b \in S : RefCount(b) <= 1}
        /\ \A b \in Blocks : (RefCount(b))' =
               IF b \notin S THEN RefCount(b)
               ELSE IF RefCount(b) <= 1 THEN 0 ELSE RefCount(b) - 1
    BY FreeLeaves
  <1>2. \A b \in Blocks : /\ RefCount(b) = held[b]
                          /\ b \in Range(free_list) <=> held[b] = 0
    BY DEF AllocatorInv, FreeListExact
  <1>3. held \in [Blocks -> Nat] BY DEF AllocatorInv, AllocatorTypes
  <1>4. held' = [b \in Blocks |-> held[b] - IF b \in S THEN 1 ELSE 0] /\ \A b \in S : held[b] > 0
    BY <1>1 DEF Free
  <1>5. \A b \in Blocks : held[b] \in Nat /\ (b \in S => held[b] - 1 \in Nat) BY <1>3, <1>4
  <1>6. held' \in [Blocks -> Nat] BY <1>4, <1>5
  <1>7. ASSUME NEW b \in Blocks
        PROVE  (RefCount(b))' = held'[b] /\ (b \in Range(free_list') <=> held'[b] = 0)
    <2>1. held'[b] = held[b] - IF b \in S THEN 1 ELSE 0 BY <1>4
    <2>2. b \in Range(free_list') <=> held[b] = 0 \/ (b \in S /\ held[b] <= 1) BY <1>1, <1>2
    <2>3. (RefCount(b))' = IF b \notin S THEN held[b]
                           ELSE IF held[b] <= 1 THEN 0 ELSE held[b] - 1
      BY <1>1, <1>2
    <2> QED BY <1>4, <1>5, <2>1, <2>2, <2>3
  <1>8. AllocatorTypes' BY <1>1, <1>6 DEF PoolState, AllocatorTypes
  <1> QED BY <1>1, <1>7, <1>8 DEF AllocatorInv, FreeListExact

\* Every step keeps the list exact.
LEMMA AllocatorSteps == AllocatorInv /\ [Next]_vars => AllocatorInv'
  <1> SUFFICES ASSUME AllocatorInv, [Next]_vars PROVE AllocatorInv'
    OBVIOUS
  <1>1. CASE \E n \in 1 .. Cardinality(Blocks) : Allocate(n)
    <2>1. PICK n \in 1 .. Cardinality(Blocks) : Allocate(n) BY <1>1
    <2>2. n \in Nat BY AllocatorAssumption, FS_CardinalityType
    <2> QED BY <2>1, <2>2, AllocateExact
  <1>2. CASE \E b \in Blocks : Share(b) BY <1>2, ShareExact
  <1>3. CASE \E S \in (SUBSET Blocks) \ {{}} : \E blocks \in SetToSeqs(S) : Free(blocks)
    BY <1>3, FreeExact
  <1>4. CASE UNCHANGED vars
    BY <1>4 DEF vars, AllocatorInv, AllocatorTypes, FreeListExact, RefCount
  <1> QED BY <1>1, <1>2, <1>3, <1>4 DEF Next

\* BlockAllocator loses no block and hands none out to two holders: the list
\* holds each block without a reference once, and no other.
THEOREM AllocatorExact == Spec => []FreeListExact
  <1>1. AllocatorInv => FreeListExact BY DEF AllocatorInv
  <1> QED BY <1>1, AllocatorStarts, AllocatorSteps, PTL DEF Spec

\* allocate() takes blocks of the pool as BlockPool says.
LEMMA AllocateIsPool ==
  ASSUME AllocatorInv, NEW n \in Nat, n > 0, Allocate(n)
  PROVE  Pool!PoolAllocate
  <1>1. PICK t : t = Popped(n) OBVIOUS
  <1>2. PICK rest : rest = SubSeq(free_list, 1, Len(free_list) - n) OBVIOUS
  <1>3. /\ free_list' = rest
        /\ count' = [b \in DOMAIN count \cup Range(t) |-> IF b \in Range(t) THEN 1 ELSE count[b]]
        /\ n <= Len(free_list)
    BY <1>1, <1>2 DEF Allocate
  <1>4. /\ t \in Seq(Blocks) /\ Len(t) = n
        /\ \A i, j \in 1 .. n : t[i] = t[j] => i = j
        /\ Range(t) \subseteq Range(free_list)
        /\ Range(rest) = Range(free_list) \ Range(t)
    BY <1>1, <1>2, <1>3, PoppedDoes
  <1>5. Cardinality(Range(free_list)) = Len(free_list)
    BY OnceCounts DEF AllocatorInv, AllocatorTypes, FreeListExact
  <1>6. Cardinality(Range(free_list)) \in Nat
    <2>1. IsFiniteSet(Range(free_list))
      BY OnceCounts DEF AllocatorInv, AllocatorTypes, FreeListExact
    <2> QED BY <2>1, FS_CardinalityType
  <1>7. n \in 1 .. Pool!NFree
    <2>1. Pool!NFree = Cardinality(Range(free_list))
      BY DEF Pool!NFree, Pool!Cardinality, Cardinality
    <2> QED BY <1>3, <1>5, <1>6, <2>1
  <1>8. t \in Pool!Takings(n)
    <2>1. \A i \in 1 .. n : t[i] \in Range(t) BY <1>4, Occurs
    <2>2. t \in [1 .. n -> Range(free_list)]
      <3>1. t \in [1 .. n -> Blocks] BY <1>4, LenProperties
      <3> QED BY <1>4, <2>1, <3>1
    <2> QED BY <1>4, <2>2 DEF Pool!Takings
  <1>9. Range(free_list') = Range(free_list) \ Range(t) BY <1>3, <1>4
  <1>10. \A b \in Blocks : (RefCount(b))' = IF b \in Range(t) THEN 1 ELSE RefCount(b)
    BY <1>3 DEF RefCount
  <1>11. [b \in Blocks |-> RefCount(b)]' = Pool!CountsTaken(t)
    BY <1>10 DEF Pool!CountsTaken, Pool!Range, Range
  <1>12. Pool!Allocate(t) BY <1>9, <1>11 DEF Pool!Allocate, Pool!Range, Range
  <1> QED BY <1>7, <1>8, <1>12 DEF Pool!PoolAllocate

\* share() counts one more holder of a block that is not free.
LEMMA ShareIsPool ==
  ASSUME AllocatorInv, NEW b \in Blocks, Share(b)
  PROVE  Pool!PoolShare
  <1>1. count' = [count EXCEPT ![b] = @ + 1] /\ free_list' = free_list /\ held[b] \in Nat \ {0}
    BY DEF Share, AllocatorInv, AllocatorTypes
  <1>2. RefCount(b) = held[b] /\ (b \in Range(free_list) <=> held[b] = 0)
    BY DEF AllocatorInv, FreeListExact
  <1>3. b \in DOMAIN count BY <1>1, <1>2 DEF RefCount
  <1>4. {b} \in SUBSET (Blocks \ Range(free_list)) BY <1>1, <1>2
  <1>5. \A a \in Blocks : (RefCount(a))' = IF a \in {b} THEN RefCount(a) + 1 ELSE RefCount(a)
    BY <1>1, <1>3 DEF RefCount
  <1>6. [a \in Blocks |-> RefCount(a)]' = Pool!Shared([a \in Blocks |-> RefCount(a)], {b})
    BY <1>5 DEF Pool!Shared
  <1> QED BY <1>1, <1>4, <1>6 DEF Pool!PoolShare

\* free() drops one reference to each block of a list as BlockPool says.
LEMMA FreeIsPool ==
  ASSUME AllocatorInv, NEW S \in SUBSET Blocks, NEW blocks \in SetToSeqs(S), Free(blocks)
  PROVE  Pool!PoolFree
  <1>1. /\ Range(blocks) = S /\ S \cap Range(free_list) = {}
        /\ Range(free_list') = Range(free_list) \cup {b \in S : RefCount(b) <= 1}
        /\ \A b \in Blocks : (RefCount(b))' =
               IF b \notin S THEN RefCount(b)
               ELSE IF RefCount(b) <= 1 THEN 0 ELSE RefCount(b) - 1
    BY FreeLeaves
  <1>2. S \in SUBSET (Blocks \ Range(free_list)) BY <1>1
  <1>3. [b \in Blocks |-> RefCount(b)]' = Pool!Dropped([b \in Blocks |-> RefCount(b)], S)
    BY <1>1 DEF Pool!Dropped
  <1>4. Pool!Returned([b \in Blocks |-> RefCount(b)], S) = {b \in S : RefCount(b) <= 1}
    BY DEF Pool!Returned
  <1>5. Pool!Free(S) BY <1>1, <1>3, <1>4 DEF Pool!Free
  <1> QED BY <1>2, <1>5 DEF Pool!PoolFree

\* The list and the dictionary of BlockAllocator implement the pool of blocks
\* with counts that the paged engines are modelled upon.
THEOREM AllocatorIsPool == Spec => ImplementsPool
  <1>1. Init => Pool!PoolInit
    <2> SUFFICES ASSUME Init PROVE Pool!PoolInit
      OBVIOUS
    <2>1. Range(free_list) = Blocks BY AllocatorAssumption, ListsOf DEF Init
    <2>2. \A b \in Blocks : RefCount(b) = 0 BY DEF Init, RefCount
    <2> QED BY <2>1, <2>2 DEF Pool!PoolInit
  <1>2. AllocatorInv /\ [Next]_vars => [Pool!PoolNext]_(Pool!poolVars)
    <2> SUFFICES ASSUME AllocatorInv, [Next]_vars
                 PROVE  Pool!PoolNext \/ UNCHANGED Pool!poolVars
      OBVIOUS
    <2>1. CASE \E n \in 1 .. Cardinality(Blocks) : Allocate(n)
      <3>1. PICK n \in 1 .. Cardinality(Blocks) : Allocate(n) BY <2>1
      <3>2. n \in Nat /\ n > 0 BY AllocatorAssumption, FS_CardinalityType
      <3> QED BY <3>1, <3>2, AllocateIsPool DEF Pool!PoolNext
    <2>2. CASE \E b \in Blocks : Share(b) BY <2>2, ShareIsPool DEF Pool!PoolNext
    <2>3. CASE \E S \in (SUBSET Blocks) \ {{}} : \E blocks \in SetToSeqs(S) : Free(blocks)
      BY <2>3, FreeIsPool DEF Pool!PoolNext
    <2>4. CASE UNCHANGED vars BY <2>4 DEF vars, Pool!poolVars, RefCount
    <2> QED BY <2>1, <2>2, <2>3, <2>4 DEF Next
  <1> QED BY <1>1, <1>2, AllocatorStarts, AllocatorSteps, PTL DEF Spec, ImplementsPool, Pool!PoolSpec

--------------------------------------------------------------------------------
(* Speculative decoding against what the target says alone. *)

\* A beginning, named by what it holds.
LEMMA Begins ==
  ASSUME NEW S, NEW s \in Seq(S), NEW t \in Seq(S), NEW n \in 0 .. Len(t),
         Len(s) = n, \A i \in 1 .. n : s[i] = t[i]
  PROVE  s = SubSeq(t, 1, n) /\ IsPrefix(s, t)
  <1>1. PICK u \in Seq(S) : u = SubSeq(t, 1, n) /\ Len(u) = n /\ \A i \in 1 .. n : u[i] = t[i]
    <2>1. /\ SubSeq(t, 1, n) \in Seq(S) /\ Len(SubSeq(t, 1, n)) = n
          /\ \A i \in 1 .. n : SubSeq(t, 1, n)[i] = t[i]
      BY Beginning
    <2> QED BY <2>1
  <1>2. PICK l \in Nat : l = Len(t) BY LenProperties
  <1>3. s = u BY <1>1, SeqEqual
  <1>4. SubSeq(s, 1, Len(s)) = s
    <2>1. PICK v \in Seq(S) : v = SubSeq(s, 1, n) /\ Len(v) = n /\ \A i \in 1 .. n : v[i] = s[i]
      BY <1>2, Beginning
    <2>2. v = s BY <2>1, SeqEqual
    <2> QED BY <2>1, <2>2
  <1> QED BY <1>1, <1>2, <1>3, <1>4 DEF IsPrefix

\* Where the target alone ends.
Ending == Min({Budget} \cup {i \in 1 .. Budget : greedy[i] \in Stops})

LEMMA EndingIs ==
  /\ Ending \in 1 .. Budget
  /\ Ending = Budget \/ greedy[Ending] \in Stops
  /\ \A i \in 1 .. Budget : greedy[i] \in Stops => Ending <= i
  /\ PlainGreedy = SubSeq(greedy, 1, Ending)
  <1>1. PICK E \in SUBSET (1 .. Budget) :
            E = {Budget} \cup {i \in 1 .. Budget : greedy[i] \in Stops}
    <2>1. PICK b \in Nat : b = Budget /\ b >= 1 BY SpeculativeAssumption
    <2>2. b \in 1 .. b BY <2>1
    <2> QED BY <2>1, <2>2
  <1>2. E # {} /\ E \in SUBSET Nat BY <1>1, SpeculativeAssumption
  <1>3. PICK e \in E : \A m \in E : e <= m BY <1>2, LeastNumber
  <1>4. Min(E) = e
    <2>1. \A x \in E : (\A m \in E : x <= m) => x = e BY <1>2, <1>3
    <2> QED BY <1>3, <2>1 DEF Min
  <1>5. Ending = e BY <1>1, <1>4 DEF Ending
  <1> QED BY <1>1, <1>3, <1>5, SpeculativeAssumption DEF PlainGreedy, Ending

Statistics == [proposed : Nat, accepted : Nat, rounds : Nat]

SpeculativeInv ==
    /\ greedy \in [1 .. Budget + K -> Tokens] /\ drafter \in {"ngram", "model"}
    /\ said \in Seq(Tokens) /\ Len(said) <= Ending
    /\ \A i \in 1 .. Len(said) : said[i] = greedy[i]
    /\ done \in BOOLEAN /\ (done <=> Len(said) = Ending)
    /\ stats \in Statistics /\ RoundsPaidFor
    /\ target_mass \in Distributions /\ draft_mass \in Distributions

\* Nobody proposes more than k tokens.
LEMMA ProposalsAre ==
  ASSUME SpeculativeInv, NEW proposed \in Proposals
  PROVE  proposed \in Seq(Tokens) /\ Len(proposed) \in 0 .. K
  <1>0. K \in Nat /\ NGram \in Nat /\ NGram >= 1 BY SpeculativeAssumption
  <1>1. CASE drafter # "ngram"
    <2>1. proposed \in [1 .. K -> Tokens] BY <1>1 DEF Proposals
    <2>2. Len(proposed) = K BY <1>0, <2>1
    <2> QED BY <1>0, <2>1, <2>2
  <1>2. CASE drafter = "ngram"
    <2>1. PICK ids \in Seq(Tokens) : ids = Context
      <3>1. SpecPrompt \in Seq(Tokens) /\ said \in Seq(Tokens) BY SpeculativeAssumption DEF SpeculativeInv
      <3> QED BY <3>1, ConcatProperties DEF Context
    <2>2. PICK l \in Nat : l = Len(ids) BY LenProperties
    <2>3. PICK starts \in SUBSET (1 .. l - NGram) :
              starts = {s \in 1 .. l - NGram : SubSeq(ids, s, s + NGram - 1) = SubSeq(ids, l - NGram + 1, l)}
      OBVIOUS
    <2>4. proposed = IF starts = {} THEN <<>>
                     ELSE SubSeq(ids, Max(starts) + NGram, Min({Max(starts) + NGram + K - 1, l}))
      BY <1>2, <2>1, <2>2, <2>3 DEF Proposals, NgramProposal
    <2>5. CASE starts = {}
      <3>1. proposed = <<>> BY <2>4, <2>5
      <3> QED BY <1>0, <3>1, EmptySeq
    <2>6. CASE starts # {}
      <3>1. PICK g \in Int : g = NGram /\ g >= 1 BY <1>0
      <3>2. l - g \in Nat
        <4>1. PICK s \in starts : TRUE BY <2>6
        <4>2. s \in 1 .. l - g BY <2>3, <3>1, <4>1
        <4> QED BY <3>1, <4>2
      <3>3. PICK m \in 1 .. l - g : m = Max(starts)
        <4>1. Max(starts) \in starts BY <2>3, <2>6, <3>1, <3>2, MaxOf
        <4> QED BY <2>3, <3>1, <4>1
      <3>4. PICK hi \in Int : /\ hi = Min({m + g + K - 1, l})
                              /\ hi <= l /\ hi <= m + g + K - 1 /\ (hi = l \/ hi = m + g + K - 1)
        <4>1. PICK x \in Int : x = m + g + K - 1 BY <1>0, <3>1
        <4>2. Min({x, l}) = IF x <= l THEN x ELSE l BY <4>1, MinOfTwo
        <4> QED BY <4>1, <4>2
      <3>5. PICK lo \in Nat : lo = m + g /\ lo >= 1 /\ lo <= l BY <3>1, <3>2, <3>3
      <3>6. proposed = SubSeq(ids, lo, hi) BY <2>4, <2>6, <3>1, <3>3, <3>4, <3>5
      <3>7. hi >= lo - 1 /\ hi <= l /\ hi - lo + 1 <= K
        <4>1. PICK k \in Nat : k = K BY <1>0
        <4>2. hi <= l /\ hi <= lo + k - 1 /\ (hi = l \/ hi = lo + k - 1) BY <3>3, <3>4, <3>5, <4>1
        <4> QED BY <3>5, <4>1, <4>2
      <3>8. proposed \in Seq(Tokens) /\ Len(proposed) = hi - lo + 1
        <4>1. CASE lo <= hi BY <2>2, <3>5, <3>6, <3>7, <4>1, SubSeqProperties
        <4>2. CASE lo > hi BY <2>2, <3>5, <3>6, <3>7, <4>2, SubSeqProperties
        <4> QED BY <3>5, <4>1, <4>2
      <3> QED BY <1>0, <3>5, <3>7, <3>8
    <2> QED BY <2>5, <2>6
  <1> QED BY <1>1, <1>2

\* The first i proposals are what the target says after l tokens.
Foreseen(proposed, i, l) == \A j \in 1 .. i : proposed[j] = greedy[l + j]

\* After what it would have said itself, the target says what comes next.
LEMMA RowSays ==
  ASSUME SpeculativeInv, NEW l \in Nat, l = Len(said), l < Budget,
         NEW proposed \in Seq(Tokens), NEW other,
         NEW i \in Nat, i <= Len(proposed), i <= K,
         Foreseen(proposed, i, l)
  PROVE  Row(i, proposed, other) = greedy[l + i + 1]
  <1>0. PICK k \in Nat, b \in Nat : k = K /\ b = Budget BY SpeculativeAssumption
  <1>1. greedy \in Seq(Tokens) /\ Len(greedy) = b + k
    <2>1. greedy \in [1 .. b + k -> Tokens] BY <1>0 DEF SpeculativeInv
    <2> QED BY <1>0, <2>1
  <1>2. PICK p \in Nat : p = Len(proposed) BY LenProperties
  <1>3. PICK first \in Seq(Tokens) : /\ first = SubSeq(proposed, 1, i) /\ Len(first) = i
                                     /\ \A j \in 1 .. i : first[j] = proposed[j]
    <2>1. i \in 0 .. Len(proposed) BY <1>2
    <2>2. /\ SubSeq(proposed, 1, i) \in Seq(Tokens) /\ Len(SubSeq(proposed, 1, i)) = i
          /\ \A j \in 1 .. i : SubSeq(proposed, 1, i)[j] = proposed[j]
      BY <2>1, Beginning
    <2> QED BY <2>2
  <1>4. said \in Seq(Tokens) /\ \A j \in 1 .. l : said[j] = greedy[j] BY DEF SpeculativeInv
  <1>5. PICK before \in Seq(Tokens) : /\ before = said \o first /\ Len(before) = l + i
                                      /\ \A j \in 1 .. l + i : before[j] = IF j <= l THEN said[j]
                                                                           ELSE first[j - l]
    <2>1. /\ said \o first \in Seq(Tokens) /\ Len(said \o first) = Len(said) + Len(first)
          /\ \A j \in 1 .. Len(said) + Len(first) :
                 (said \o first)[j] = IF j <= Len(said) THEN said[j] ELSE first[j - Len(said)]
      BY <1>4, ConcatProperties
    <2> QED BY <1>3, <2>1
  <1>6. \A j \in 1 .. l + i : before[j] = greedy[j]
    <2>1. ASSUME NEW j \in 1 .. l + i PROVE before[j] = greedy[j]
      <3>1. CASE j <= l BY <1>4, <1>5, <3>1
      <3>2. CASE j > l
        <4>1. PICK x : x = j - l OBVIOUS
        <4>2. x \in 1 .. i /\ l + x = j BY <3>2, <4>1
        <4>3. before[j] = first[x] BY <1>5, <3>2, <4>1
        <4> QED BY <1>3, <4>2, <4>3 DEF Foreseen
      <3> QED BY <3>1, <3>2
    <2> QED BY <2>1
  <1>7. l + i \in 0 .. Len(greedy) BY <1>0, <1>1
  <1>8. IsPrefix(before, greedy) BY <1>1, <1>5, <1>6, <1>7, Begins
  <1> QED BY <1>3, <1>5, <1>8 DEF Row

\* What is accepted is what the target would have said.
LEMMA AcceptedIs ==
  ASSUME SpeculativeInv, NEW l \in Nat, l = Len(said), l < Budget,
         NEW proposed \in Seq(Tokens), Len(proposed) \in 0 .. K, NEW other
  PROVE  /\ Accepted(proposed, other) \in 0 .. Len(proposed)
         /\ Foreseen(proposed, Accepted(proposed, other), l)
  <1>1. PICK p \in Nat : p = Len(proposed) /\ p <= K BY SpeculativeAssumption
  <1>2. PICK N \in SUBSET (0 .. p) :
            N = {n \in 0 .. p : \A i \in 1 .. n : Row(i - 1, proposed, other) = proposed[i]}
    OBVIOUS
  <1>3. Accepted(proposed, other) = Max(N) BY <1>1, <1>2 DEF Accepted
  <1>4. 0 \in N BY <1>1, <1>2
  <1>5. PICK n \in Nat : n \in N /\ n = Max(N)
    <2>1. N \in SUBSET Nat /\ N # {} /\ \A i \in N : i <= p BY <1>1, <1>2, <1>4
    <2>2. \E m \in N : \A i \in N : m >= i BY <1>1, <2>1, Largest
    <2> QED BY <2>1, <2>2 DEF Max
  <1>6. n \in 0 .. p /\ \A i \in 1 .. n : Row(i - 1, proposed, other) = proposed[i]
    BY <1>2, <1>5
  <1>7. PICK W \in SUBSET Nat : W = {i \in 1 .. n : proposed[i] # greedy[l + i]}
    <2>1. PICK A \in SUBSET Nat : A = 1 .. n OBVIOUS
    <2>2. {i \in A : proposed[i] # greedy[l + i]} \in SUBSET Nat OBVIOUS
    <2> QED BY <2>1, <2>2
  <1>8. W = {}
    <2>1. SUFFICES ASSUME W # {} PROVE FALSE OBVIOUS
    <2>2. PICK i \in W : \A m \in W : i <= m BY <2>1, LeastNumber
    <2>3. i \in 1 .. n /\ proposed[i] # greedy[l + i] BY <1>7, <2>2
    <2>4. PICK h \in Nat : h = i - 1 /\ h + 1 = i /\ h <= p BY <1>6, <2>3
    <2>5. \A j \in 1 .. h : proposed[j] = greedy[l + j]
      <3>1. ASSUME NEW j \in 1 .. h, proposed[j] # greedy[l + j] PROVE FALSE
        <4>1. j \in 1 .. n /\ j < i BY <1>6, <2>3, <2>4
        <4>2. j \in W BY <1>7, <3>1, <4>1
        <4> QED BY <1>6, <2>2, <2>3, <4>1, <4>2
      <3> QED BY <3>1
    <2>6. h <= K BY <1>1, <2>4, SpeculativeAssumption
    <2>7. Row(h, proposed, other) = greedy[l + h + 1]
      <3>1. Foreseen(proposed, h, l) BY <2>5 DEF Foreseen
      <3>2. h <= Len(proposed) BY <1>1, <2>4
      <3> QED BY <2>6, <3>1, <3>2, RowSays
    <2>8. Row(h, proposed, other) = proposed[i] BY <1>6, <2>3, <2>4
    <2>9. l + h + 1 = l + i BY <2>4
    <2> QED BY <2>3, <2>7, <2>8, <2>9
  <1>9. \A i \in 1 .. n : proposed[i] = greedy[l + i] BY <1>7, <1>8
  <1> QED BY <1>1, <1>3, <1>5, <1>6, <1>9 DEF Foreseen

\* What of r tokens, said after l others, is kept.
KeptUpTo(tokens, c, r, l) ==
    /\ Cut(tokens) = SubSeq(tokens, 1, c)
    /\ l + c <= Ending
    /\ l + c # Ending => c = r
    /\ greedy[l + c] \in Stops \/ l + c >= Budget <=> l + c = Ending

\* All of a round is kept, or what is left until the end.
LEMMA CutAt ==
  ASSUME SpeculativeInv, NEW l \in Nat, l = Len(said), l < Ending,
         NEW tokens \in Seq(Tokens), NEW r \in Nat, r >= 1, r = Len(tokens),
         Foreseen(tokens, r, l)
  PROVE  \E c \in 1 .. r : KeptUpTo(tokens, c, r, l)
  <1>1. PICK b \in Nat, e \in Nat : b = Budget /\ e = Ending /\ 1 <= e /\ e <= b
    BY SpeculativeAssumption, EndingIs
  <1>2. e = b \/ greedy[e] \in Stops BY <1>1, EndingIs
  <1>3. \A i \in 1 .. b : greedy[i] \in Stops => e <= i BY <1>1, EndingIs
  <1>4. PICK stops \in SUBSET Nat : stops = {i \in 1 .. r : tokens[i] \in Stops}
    <2>1. PICK A \in SUBSET Nat : A = 1 .. r OBVIOUS
    <2>2. {i \in A : tokens[i] \in Stops} \in SUBSET Nat OBVIOUS
    <2> QED BY <2>1, <2>2
  <1>5. \A i \in 1 .. r : i \in stops <=> greedy[l + i] \in Stops BY <1>4 DEF Foreseen
  <1>6. PICK left \in Nat : left = b - l /\ left >= 1 BY <1>1
  <1>7. PICK ends \in SUBSET Nat : ends = {r, left} \cup stops OBVIOUS
  <1>8. PICK c \in ends : \A m \in ends : c <= m
    <2>1. ends # {} BY <1>7
    <2> QED BY <2>1, LeastNumber
  <1>9. Cut(tokens) = SubSeq(tokens, 1, c)
    <2>1. Min(ends) = c
      <3>1. \A x \in ends : (\A m \in ends : x <= m) => x = c BY <1>8
      <3> QED BY <1>8, <3>1 DEF Min
    <2>2. Cut(tokens) = SubSeq(tokens, 1, Min({r, Budget - l} \cup stops)) BY <1>4 DEF Cut
    <2>3. Budget - l = left BY <1>1, <1>6
    <2> QED BY <1>7, <2>1, <2>2, <2>3
  <1>10. c <= r /\ c <= left /\ \A i \in stops : c <= i BY <1>7, <1>8
  <1>11. c = r \/ c = left \/ c \in stops BY <1>7, <1>8
  <1>12. c \in 1 .. r
    <2>1. \A i \in stops : i \in 1 .. r BY <1>4
    <2> QED BY <1>6, <1>10, <1>11, <2>1
  <1>13. PICK d \in 1 .. r : d = c BY <1>12
  <1>14. l + d <= e
    <2>1. SUFFICES ASSUME e < l + d PROVE FALSE BY <1>1
    <2>2. e # b BY <1>6, <1>10, <1>13, <2>1
    <2>3. PICK x : x = e - l OBVIOUS
    <2>4. x \in 1 .. r /\ l + x = e /\ x < d BY <1>1, <1>13, <2>1, <2>3
    <2>5. x \in stops BY <1>2, <1>5, <2>2, <2>4
    <2> QED BY <1>10, <1>13, <2>4, <2>5
  <1>15. ASSUME l + d # e PROVE d = r /\ greedy[l + d] \notin Stops /\ l + d < b
    <2>1. l + d < e BY <1>1, <1>14, <1>15
    <2>2. l + d \in 1 .. b BY <1>1, <2>1
    <2>3. greedy[l + d] \notin Stops BY <1>1, <1>3, <2>1, <2>2
    <2>4. d \notin stops BY <1>5, <2>3
    <2>5. d # left BY <1>1, <1>6, <2>1
    <2> QED BY <1>1, <1>11, <1>13, <2>1, <2>3, <2>4, <2>5
  <1>16. ASSUME l + d = e PROVE greedy[l + d] \in Stops \/ l + d >= b BY <1>1, <1>2, <1>16
  <1> QED BY <1>1, <1>9, <1>13, <1>14, <1>15, <1>16 DEF KeptUpTo

\* What one round adds is what comes next of the target's own output.
LEMMA RoundSays ==
  ASSUME SpeculativeInv, ~done, NEW proposed \in Proposals, NEW other,
         NEW n, n = Accepted(proposed, other),
         NEW round, round = Cut(Append(SubSeq(proposed, 1, n), Row(n, proposed, other)))
  PROVE  \E c \in Nat : /\ c >= 1 /\ c <= n + 1 /\ n \in 0 .. Len(proposed)
                        /\ round \in Seq(Tokens) /\ Len(round) = c
                        /\ Foreseen(round, c, Len(said)) /\ Last(round) = greedy[Len(said) + c]
                        /\ Len(said) + c <= Ending
                        /\ Len(said) + c # Ending => c = n + 1
                        /\ greedy[Len(said) + c] \in Stops \/ Len(said) + c >= Budget
                               <=> Len(said) + c = Ending
  <1>1. PICK b \in Nat, k \in Nat : b = Budget /\ k = K BY SpeculativeAssumption
  <1>2. PICK l \in Nat : l = Len(said) /\ l < Ending /\ Ending <= b
    <2>1. said \in Seq(Tokens) /\ Len(said) <= Ending /\ Len(said) # Ending BY DEF SpeculativeInv
    <2> QED BY <1>1, <2>1, LenProperties, EndingIs
  <1>3. Ending \in Nat BY <1>1, EndingIs
  <1>4. l < Budget BY <1>1, <1>2, <1>3
  <1>5. PICK q \in Seq(Tokens), p \in Nat : q = proposed /\ p = Len(q) /\ p <= k
    BY <1>1, ProposalsAre
  <1>6. PICK a \in 0 .. p : a = n /\ Foreseen(q, a, l)
    <2>1. Len(q) \in 0 .. K BY <1>1, <1>5
    <2> QED BY <1>2, <1>4, <1>5, <2>1, AcceptedIs
  <1>7. Row(a, proposed, other) = greedy[l + a + 1]
    <2>1. a \in Nat /\ a <= Len(q) /\ a <= K BY <1>1, <1>5, <1>6
    <2> QED BY <1>2, <1>4, <1>5, <1>6, <2>1, RowSays
  <1>8. l + a + 1 \in 1 .. b + k BY <1>1, <1>2, <1>3, <1>5, <1>6
  <1>9. greedy[l + a + 1] \in Tokens BY <1>1, <1>8 DEF SpeculativeInv
  <1>10. PICK s \in Seq(Tokens) : s = SubSeq(q, 1, a) /\ Len(s) = a /\ \A j \in 1 .. a : s[j] = q[j]
    <2>1. /\ SubSeq(q, 1, a) \in Seq(Tokens) /\ Len(SubSeq(q, 1, a)) = a
          /\ \A j \in 1 .. a : SubSeq(q, 1, a)[j] = q[j]
      BY <1>5, Beginning
    <2> QED BY <2>1
  <1>11. PICK t \in Seq(Tokens) : /\ t = Append(s, greedy[l + a + 1]) /\ Len(t) = a + 1
                                  /\ \A j \in 1 .. a : t[j] = s[j]
                                  /\ t[a + 1] = greedy[l + a + 1]
    <2>1. PICK g \in Tokens : g = greedy[l + a + 1] BY <1>9
    <2>2. /\ Append(s, g) \in Seq(Tokens) /\ Len(Append(s, g)) = Len(s) + 1
          /\ \A j \in 1 .. Len(s) : Append(s, g)[j] = s[j]
          /\ Append(s, g)[Len(s) + 1] = g
      BY AppendProperties
    <2> QED BY <1>10, <2>1, <2>2
  <1>12. round = Cut(t) BY <1>5, <1>6, <1>7, <1>10, <1>11
  <1>13. Foreseen(t, a + 1, l)
    <2>1. ASSUME NEW j \in 1 .. a + 1 PROVE t[j] = greedy[l + j]
      <3>1. CASE j <= a BY <1>6, <1>10, <1>11, <3>1 DEF Foreseen
      <3>2. CASE j > a
        <4>1. j = a + 1 /\ l + j = l + a + 1 BY <3>2
        <4> QED BY <1>11, <4>1
      <3> QED BY <3>1, <3>2
    <2> QED BY <2>1 DEF Foreseen
  <1>14. PICK c \in 1 .. a + 1 : KeptUpTo(t, c, a + 1, l)
    <2>1. PICK r \in Nat : r = a + 1 /\ r >= 1 /\ r = Len(t) BY <1>11
    <2>2. Foreseen(t, r, l) BY <1>13, <2>1
    <2>3. \E c \in 1 .. r : KeptUpTo(t, c, r, l) BY <1>2, <1>11, <2>1, <2>2, CutAt
    <2> QED BY <2>1, <2>3
  <1>15. /\ SubSeq(t, 1, c) \in Seq(Tokens) /\ Len(SubSeq(t, 1, c)) = c
         /\ \A j \in 1 .. c : SubSeq(t, 1, c)[j] = t[j]
    <2>1. c \in 0 .. Len(t) BY <1>11
    <2> QED BY <2>1, Beginning
  <1>16. round = SubSeq(t, 1, c) BY <1>12, <1>14 DEF KeptUpTo
  <1>17. Foreseen(round, c, l)
    <2>1. \A j \in 1 .. c : j \in 1 .. a + 1 OBVIOUS
    <2> QED BY <1>13, <1>15, <1>16, <2>1 DEF Foreseen
  <1>18. Last(round) = greedy[l + c]
    <2>1. c \in 1 .. c OBVIOUS
    <2> QED BY <1>15, <1>16, <1>17, <2>1 DEF Last, Foreseen
  <1>19. c \in Nat /\ c >= 1 /\ c <= n + 1 /\ n \in 0 .. Len(proposed) BY <1>5, <1>6
  <1> QED BY <1>2, <1>6, <1>14, <1>15, <1>16, <1>17, <1>18, <1>19 DEF KeptUpTo

LEMMA RoundKeeps ==
  ASSUME SpeculativeInv, Round
  PROVE  SpeculativeInv'
  <1>1. PICK proposed \in Proposals, other \in [0 .. K -> Tokens] :
            LET n == Accepted(proposed, other)
                round == Cut(Append(SubSeq(proposed, 1, n), Row(n, proposed, other)))
            IN /\ said' = said \o round
               /\ done' = (Last(round) \in Stops \/ Len(said') >= Budget)
               /\ stats' = [proposed |-> stats.proposed + Len(proposed),
                            accepted |-> stats.accepted + n,
                            rounds |-> stats.rounds + 1]
    BY DEF Round
  <1>2. PICK n, round :
            /\ n = Accepted(proposed, other)
            /\ round = Cut(Append(SubSeq(proposed, 1, n), Row(n, proposed, other)))
            /\ said' = said \o round
            /\ done' = (Last(round) \in Stops \/ Len(said') >= Budget)
            /\ stats' = [proposed |-> stats.proposed + Len(proposed),
                         accepted |-> stats.accepted + n, rounds |-> stats.rounds + 1]
    BY <1>1
  <1>3. ~done /\ UNCHANGED <<greedy, drafter, target_mass, draft_mass>> BY DEF Round
  <1>4. PICK c \in Nat : /\ c >= 1 /\ c <= n + 1 /\ n \in 0 .. Len(proposed)
                         /\ round \in Seq(Tokens) /\ Len(round) = c
                         /\ Foreseen(round, c, Len(said)) /\ Last(round) = greedy[Len(said) + c]
                         /\ Len(said) + c <= Ending
                         /\ Len(said) + c # Ending => c = n + 1
                         /\ greedy[Len(said) + c] \in Stops \/ Len(said) + c >= Budget
                                <=> Len(said) + c = Ending
    BY <1>2, <1>3, RoundSays
  <1>5. PICK l \in Nat : l = Len(said) /\ said \in Seq(Tokens)
    <2>1. said \in Seq(Tokens) BY DEF SpeculativeInv
    <2> QED BY <2>1, LenProperties
  <1>6. /\ said' \in Seq(Tokens) /\ Len(said') = l + c
        /\ \A i \in 1 .. l + c : said'[i] = IF i <= l THEN said[i] ELSE round[i - l]
    <2>1. /\ said \o round \in Seq(Tokens) /\ Len(said \o round) = Len(said) + Len(round)
          /\ \A i \in 1 .. Len(said) + Len(round) :
                 (said \o round)[i] = IF i <= Len(said) THEN said[i] ELSE round[i - Len(said)]
      BY <1>4, <1>5, ConcatProperties
    <2> QED BY <1>2, <1>4, <1>5, <2>1
  <1>7. \A i \in 1 .. l + c : said'[i] = greedy[i]
    <2>1. ASSUME NEW i \in 1 .. l + c PROVE said'[i] = greedy[i]
      <3>1. CASE i <= l
        <4>1. \A j \in 1 .. l : said[j] = greedy[j] BY <1>5 DEF SpeculativeInv
        <4> QED BY <1>6, <3>1, <4>1
      <3>2. CASE i > l
        <4>1. PICK x : x = i - l OBVIOUS
        <4>2. x \in 1 .. c /\ l + x = i BY <3>2, <4>1
        <4>3. said'[i] = round[x] BY <1>6, <3>2, <4>1
        <4> QED BY <1>4, <1>5, <4>2, <4>3 DEF Foreseen
      <3> QED BY <3>1, <3>2
    <2> QED BY <2>1
  <1>8. Ending' = Ending /\ Ending \in Nat
    <2>1. Ending' = Ending BY <1>3 DEF Ending
    <2> QED BY <2>1, EndingIs
  <1>9. done' \in BOOLEAN /\ (done' <=> Len(said') = Ending)
    <2>1. done' = (greedy[l + c] \in Stops \/ l + c >= Budget) BY <1>2, <1>4, <1>5, <1>6
    <2>2. greedy[l + c] \in Stops \/ l + c >= Budget <=> l + c = Ending BY <1>4, <1>5
    <2> QED BY <1>6, <2>1, <2>2
  <1>10. PICK p \in Nat : p = Len(proposed) /\ p <= K /\ K \in Nat
    BY SpeculativeAssumption, ProposalsAre
  <1>11. PICK a \in Nat : a = n /\ a <= p BY <1>4, <1>10
  <1>12. PICK x \in Nat, y \in Nat, z \in Nat :
             stats.proposed = x /\ stats.accepted = y /\ stats.rounds = z
    BY DEF SpeculativeInv, Statistics
  <1>13. stats' = [proposed |-> x + p, accepted |-> y + a, rounds |-> z + 1]
    BY <1>2, <1>10, <1>11, <1>12
  <1>14. stats' \in Statistics BY <1>13 DEF Statistics
  <1>15. z <= l /\ y + z - l = 0
    <2>1. stats.rounds <= Len(said) /\ stats.accepted + stats.rounds - Len(said) \in 0 .. 0
      BY <1>3 DEF SpeculativeInv, RoundsPaidFor
    <2>2. z <= l /\ y + z - l \in 0 .. 0 BY <1>5, <1>12, <2>1
    <2> QED BY <2>2
  <1>16. stats'.accepted = y + a /\ stats'.rounds = z + 1 BY <1>13
  <1>17. RoundsPaidFor'
    <2>1. z + 1 <= l + c BY <1>4, <1>15
    <2>2. (y + a) + (z + 1) - (l + c) = a + 1 - c BY <1>15
    <2>3. CASE done'
      <3>1. a + 1 - c \in 0 .. K BY <1>4, <1>10, <1>11
      <3> QED BY <1>6, <1>16, <2>1, <2>2, <2>3, <3>1 DEF RoundsPaidFor
    <2>4. CASE ~done'
      <3>1. c = a + 1 BY <1>4, <1>5, <1>6, <1>9, <1>11, <2>4
      <3>2. a + 1 - c \in 0 .. 0 BY <3>1
      <3> QED BY <1>6, <1>16, <2>1, <2>2, <2>4, <3>2 DEF RoundsPaidFor
    <2> QED BY <2>3, <2>4
  <1>18. /\ greedy' \in [1 .. Budget + K -> Tokens] /\ drafter' \in {"ngram", "model"}
         /\ target_mass' \in Distributions /\ draft_mass' \in Distributions
    BY <1>3 DEF SpeculativeInv
  <1>19. Len(said') <= Ending BY <1>4, <1>5, <1>6
  <1>20. \A i \in 1 .. Len(said') : said'[i] = greedy'[i] BY <1>3, <1>6, <1>7
  <1> QED BY <1>6, <1>8, <1>9, <1>14, <1>17, <1>18, <1>19, <1>20 DEF SpeculativeInv

\* Accepting and resampling add up to the target: of what is at hand for a token,
\* the smaller of two masses and what the target has beyond the draft.
LEMMA MassesAddUp ==
  ASSUME target_mass \in Distributions, draft_mass \in Distributions
  PROVE  SampledExactly
  <1>1. /\ target_mass \in [Tokens -> 0 .. Mass] /\ draft_mass \in [Tokens -> 0 .. Mass]
        /\ SumFunction(target_mass) = Mass
    BY DEF Distributions
  <1>2. Mass \in Nat /\ IsFiniteSet(Tokens) BY SpeculativeAssumption
  <1>3. ASSUME NEW t \in Tokens
        PROVE  \E x \in Nat, y \in Nat :
                   /\ x = target_mass[t] /\ y = draft_mass[t]
                   /\ AcceptedMass(t) = IF x <= y THEN x ELSE y
                   /\ Residual(t) = IF x <= y THEN 0 ELSE x - y
    <2>1. PICK x \in Nat : x = target_mass[t] BY <1>1, <1>2
    <2>2. PICK y \in Nat : y = draft_mass[t] BY <1>1, <1>2
    <2>3. Min({x, y}) = IF x <= y THEN x ELSE y BY MinOfTwo
    <2>4. PICK d \in Int : d = x - y OBVIOUS
    <2>5. Max({d, 0}) = IF d <= 0 THEN 0 ELSE d BY MaxOfTwo
    <2>6. AcceptedMass(t) = IF x <= y THEN x ELSE y BY <2>1, <2>2, <2>3 DEF AcceptedMass
    <2>7. Residual(t) = IF d <= 0 THEN 0 ELSE d BY <2>1, <2>2, <2>4, <2>5 DEF Residual
    <2>8. d <= 0 <=> x <= y BY <2>4
    <2> QED BY <2>1, <2>2, <2>4, <2>6, <2>7, <2>8
  <1>4. PICK f : f = [t \in Tokens |-> AcceptedMass(t)] OBVIOUS
  <1>5. PICK g : g = [t \in Tokens |-> Residual(t)] OBVIOUS
  <1>6. f \in [Tokens -> Int] /\ g \in [Tokens -> Int] /\ target_mass \in [Tokens -> Int]
        /\ \A t \in Tokens : f[t] >= 0 /\ g[t] >= 0 /\ target_mass[t] = f[t] + g[t]
    <2>1. ASSUME NEW t \in Tokens
          PROVE  /\ f[t] \in Nat /\ g[t] \in Nat /\ target_mass[t] \in Nat
                 /\ target_mass[t] = f[t] + g[t]
      <3>1. PICK x \in Nat, y \in Nat :
                /\ x = target_mass[t] /\ y = draft_mass[t]
                /\ AcceptedMass(t) = IF x <= y THEN x ELSE y
                /\ Residual(t) = IF x <= y THEN 0 ELSE x - y
        BY <1>3
      <3>2. f[t] = (IF x <= y THEN x ELSE y) /\ g[t] = IF x <= y THEN 0 ELSE x - y
        BY <1>4, <1>5, <3>1
      <3> QED BY <3>1, <3>2
    <2>2. \A t \in Tokens : f[t] \in Int /\ g[t] \in Int /\ target_mass[t] \in Int BY <2>1
    <2>3. \A t \in Tokens : f[t] >= 0 /\ g[t] >= 0 BY <2>1
    <2>4. f \in [Tokens -> Int] BY <1>4, <2>2
    <2>5. g \in [Tokens -> Int] BY <1>5, <2>2
    <2>6. target_mass \in [Tokens -> Int] BY <1>1, <2>2
    <2> QED BY <2>1, <2>3, <2>4, <2>5, <2>6
  <1>7. SumFunctionOnSet(target_mass, Tokens) = SumFunctionOnSet(f, Tokens) + SumFunctionOnSet(g, Tokens)
    BY <1>2, <1>6, SumPlus
  <1>8. SumFunctionOnSet(target_mass, Tokens) = Mass
    <2>1. DOMAIN target_mass = Tokens BY <1>1
    <2> QED BY <1>1, <2>1 DEF SumFunction
  <1>9. RejectedMass = Mass - SumFunctionOnSet(f, Tokens)
    <2>1. DOMAIN f = Tokens BY <1>4
    <2>2. RejectedMass = Mass - SumFunction(f) BY <1>4 DEF RejectedMass
    <2> QED BY <2>1, <2>2 DEF SumFunction
  <1>10. ResidualTotal = SumFunctionOnSet(g, Tokens)
    <2>1. DOMAIN g = Tokens BY <1>5
    <2>2. ResidualTotal = SumFunction(g) BY <1>5 DEF ResidualTotal
    <2> QED BY <2>1, <2>2 DEF SumFunction
  <1>11. PICK F \in Int : F = SumFunctionOnSet(f, Tokens) BY <1>2, <1>6, SumPart
  <1>12. PICK R \in Int : R = SumFunctionOnSet(g, Tokens) BY <1>2, <1>6, SumPart
  <1>13. RejectedMass = R /\ ResidualTotal = R BY <1>2, <1>7, <1>8, <1>9, <1>10, <1>11, <1>12
  <1>14. ASSUME NEW t \in Tokens
         PROVE  IF R = 0 THEN AcceptedMass(t) = target_mass[t]
                ELSE AcceptedMass(t) * R + R * Residual(t) = target_mass[t] * R
    <2>1. PICK a \in Int, r \in Int : a = f[t] /\ r = g[t] /\ r >= 0 BY <1>6
    <2>2. AcceptedMass(t) = a /\ Residual(t) = r BY <1>4, <1>5, <2>1
    <2>3. PICK x \in Int : x = target_mass[t] /\ x = a + r BY <1>6, <2>1
    <2>4. CASE R = 0
      <3>1. g[t] <= R BY <1>2, <1>6, <1>12, SumTerm
      <3>2. r = 0 BY <2>1, <2>4, <3>1
      <3> QED BY <2>2, <2>3, <2>4, <3>2
    <2>5. CASE R # 0
      <3>1. (a + r) * R = a * R + R * r BY SMT
      <3> QED BY <2>2, <2>3, <2>5, <3>1
    <2> QED BY <2>4, <2>5
  <1> QED BY <1>13, <1>14 DEF SampledExactly

LEMMA SpeculativeStays == SpeculativeInv /\ [SpeculativeNext]_speculativeVars => SpeculativeInv'
  <1> SUFFICES ASSUME SpeculativeInv, [SpeculativeNext]_speculativeVars PROVE SpeculativeInv'
    OBVIOUS
  <1>1. CASE Round BY <1>1, RoundKeeps
  <1>2. CASE UNCHANGED speculativeVars
    <2>1. UNCHANGED <<greedy, drafter, said, done, stats, target_mass, draft_mass>>
      BY <1>2 DEF speculativeVars
    <2>2. Ending' = Ending BY <2>1 DEF Ending
    <2>3. RoundsPaidFor' = RoundsPaidFor BY <2>1 DEF RoundsPaidFor
    <2>4. (\A i \in 1 .. Len(said) : said[i] = greedy[i])' BY <2>1 DEF SpeculativeInv
    <2> QED BY <2>1, <2>2, <2>3, <2>4 DEF SpeculativeInv
  <1> QED BY <1>1, <1>2 DEF SpeculativeNext

LEMMA SpeculativeSays == SpeculativeInv => SpeculationIsInvisible
  <1> SUFFICES ASSUME SpeculativeInv PROVE SpeculationIsInvisible
    OBVIOUS
  <1>1. PICK b \in Nat, k \in Nat : b = Budget /\ k = K BY SpeculativeAssumption
  <1>2. PICK e \in Nat : e = Ending /\ e <= b /\ PlainGreedy = SubSeq(greedy, 1, e) BY <1>1, EndingIs
  <1>3. greedy \in Seq(Tokens) /\ Len(greedy) = b + k
    <2>1. greedy \in [1 .. b + k -> Tokens] BY <1>1 DEF SpeculativeInv
    <2> QED BY <1>1, <2>1
  <1>4. PICK plain \in Seq(Tokens) : /\ plain = PlainGreedy /\ Len(plain) = e
                                     /\ \A i \in 1 .. e : plain[i] = greedy[i]
    <2>1. e \in 0 .. Len(greedy) BY <1>1, <1>2, <1>3
    <2>2. /\ SubSeq(greedy, 1, e) \in Seq(Tokens) /\ Len(SubSeq(greedy, 1, e)) = e
          /\ \A i \in 1 .. e : SubSeq(greedy, 1, e)[i] = greedy[i]
      BY <1>3, <2>1, Beginning
    <2> QED BY <1>2, <2>2
  <1>5. PICK l \in Nat : l = Len(said) /\ said \in Seq(Tokens) /\ l <= e
                         /\ \A i \in 1 .. l : said[i] = greedy[i]
    <2>1. /\ said \in Seq(Tokens) /\ Len(said) <= Ending
          /\ \A i \in 1 .. Len(said) : said[i] = greedy[i]
      BY DEF SpeculativeInv
    <2> QED BY <1>2, <2>1, LenProperties
  <1>6. IsPrefix(said, PlainGreedy)
    <2>1. l \in 0 .. Len(plain) BY <1>4, <1>5
    <2>2. \A i \in 1 .. l : said[i] = plain[i] BY <1>4, <1>5
    <2> QED BY <1>4, <1>5, <2>1, <2>2, Begins
  <1>7. done <=> said = PlainGreedy
    <2>1. ASSUME l = e PROVE said = plain
      <3>1. Len(said) = Len(plain) /\ \A i \in 1 .. Len(said) : said[i] = plain[i]
        BY <1>4, <1>5, <2>1
      <3> QED BY <1>4, <1>5, <3>1, SeqEqual
    <2>2. ASSUME said = plain PROVE l = e BY <1>4, <1>5, <2>2
    <2>3. done <=> l = e BY <1>2, <1>5 DEF SpeculativeInv
    <2> QED BY <1>4, <2>1, <2>2, <2>3
  <1>8. RoundsPaidFor BY DEF SpeculativeInv
  <1>9. SampledExactly BY MassesAddUp DEF SpeculativeInv
  <1> QED BY <1>6, <1>7, <1>8, <1>9 DEF SpeculationIsInvisible, SameAsGreedy

\* Whatever a drafter proposes: the tokens are those that the target says alone,
\* the rounds are accounted for, and sampling draws from the target.
THEOREM SpeculationUnseen ==
    SpeculativeInit /\ [][SpeculativeNext]_speculativeVars => []SpeculationIsInvisible
  <1>1. SpeculativeInit => SpeculativeInv
    <2> SUFFICES ASSUME SpeculativeInit PROVE SpeculativeInv
      OBVIOUS
    <2>1. /\ greedy \in [1 .. Budget + K -> Tokens] /\ drafter \in {"ngram", "model"}
          /\ said = <<>> /\ done = FALSE
          /\ stats = [proposed |-> 0, accepted |-> 0, rounds |-> 0]
          /\ target_mass \in Distributions /\ draft_mass \in Distributions
      BY DEF SpeculativeInit
    <2>2. said \in Seq(Tokens) /\ Len(said) = 0 BY <2>1, EmptySeq
    <2>3. Ending \in Nat /\ Ending >= 1
      <3>1. PICK b \in Nat : b = Budget BY SpeculativeAssumption
      <3> QED BY <3>1, EndingIs
    <2>4. stats \in Statistics BY <2>1 DEF Statistics
    <2>5. stats.accepted = 0 /\ stats.rounds = 0 BY <2>1
    <2>6. RoundsPaidFor
      <3>1. 0 + 0 - 0 \in 0 .. 0 OBVIOUS
      <3> QED BY <2>1, <2>2, <2>5, <3>1 DEF RoundsPaidFor
    <2>7. \A i \in 1 .. Len(said) : said[i] = greedy[i]
      <3>1. \A i \in 1 .. 0 : FALSE OBVIOUS
      <3> QED BY <2>2, <3>1
    <2>8. Len(said) <= Ending /\ ~done /\ Len(said) # Ending BY <2>1, <2>2, <2>3
    <2> QED BY <2>1, <2>2, <2>4, <2>6, <2>7, <2>8 DEF SpeculativeInv
  <1> QED BY <1>1, SpeculativeStays, SpeculativeSays, PTL

--------------------------------------------------------------------------------
(* The window of the cache: evicting a token at a time. *)

\* Picking everything changes nothing.
LEMMA PickedAll ==
  ASSUME NEW S, NEW s \in Seq(S)
  PROVE  Picked(s, 1 .. Len(s)) = s
  <1>1. PICK n \in Nat : n = Len(s) BY LenProperties
  <1>2. PICK P \in SUBSET (1 .. n) : P = 1 .. n OBVIOUS
  <1>3. Cardinality(P) = n BY <1>2, FS_Interval
  <1>4. ASSUME NEW k \in 1 .. n PROVE InOrder(P)[k] = k
    <2>1. ASSUME NEW i \in P PROVE Cardinality({j \in P : j <= i}) = i
      <3>1. {j \in P : j <= i} = 1 .. i BY <1>2, <2>1
      <3>2. i \in Nat /\ i >= 1 BY <1>2, <2>1
      <3>3. Cardinality(1 .. i) = i BY <3>2, FS_Interval
      <3> QED BY <3>1, <3>3
    <2>2. InOrder(P)[k] = CHOOSE i \in P : Cardinality({j \in P : j <= i}) = k
      BY <1>3 DEF InOrder
    <2>3. k \in P BY <1>2
    <2>4. \A i \in P : Cardinality({j \in P : j <= i}) = k <=> i = k BY <2>1
    <2> QED BY <2>2, <2>3, <2>4
  <1>5. P \in SUBSET (1 .. Len(s)) BY <1>1
  <1>6. PICK t \in Seq(S) : /\ t = Picked(s, P) /\ Len(t) = n
                            /\ \A k \in 1 .. n : t[k] = s[InOrder(P)[k]]
    BY <1>3, <1>5, PickedType
  <1>7. \A k \in 1 .. n : t[k] = s[k] BY <1>4, <1>6
  <1>8. t = s BY <1>1, <1>6, <1>7, SeqEqual
  <1> QED BY <1>1, <1>2, <1>6, <1>8

\* The largest of a finite set of numbers.
LEMMA MaxOfFinite ==
  ASSUME NEW S \in SUBSET Nat, IsFiniteSet(S), S # {}
  PROVE  Max(S) \in S /\ \A i \in S : i <= Max(S)
  <1>1. PICK n \in Nat : \A i \in S : i <= n
    <2>1. PICK T : T = {C \in SUBSET S : \E n \in Nat : \A i \in C : i <= n} OBVIOUS
    <2>2. {} \in T BY <2>1
    <2>3. ASSUME NEW C \in SUBSET S, NEW x \in S, C \in T PROVE C \cup {x} \in T
      <3>1. PICK n \in Nat : \A i \in C : i <= n BY <2>1, <2>3
      <3>2. PICK y \in Nat : y = x OBVIOUS
      <3>3. PICK m \in Nat : n <= m /\ y <= m
        <4>1. n <= n + y /\ y <= n + y /\ n + y \in Nat OBVIOUS
        <4> QED BY <4>1
      <3>4. \A i \in C \cup {x} : i <= m BY <3>1, <3>2, <3>3
      <3> QED BY <2>1, <3>3, <3>4
    <2>4. S \in T BY <2>2, <2>3, FiniteInduction
    <2> QED BY <2>1, <2>4
  <1>2. \E m \in S : \A i \in S : m >= i BY <1>1, Largest
  <1> QED BY <1>2 DEF Max

\* Which block a position is in.
LEMMA BlockOf ==
  ASSUME NEW W \in Nat, W >= 1, NEW n \in Nat
  PROVE  /\ \A p \in 0 .. n - 1 : p \div W \in 0 .. ((n + W - 1) \div W) - 1
         /\ \A k \in 0 .. ((n + W - 1) \div W) - 1 : \E p \in 0 .. n - 1 : p \div W = k
  <1>1. PICK q \in Int, r \in Int : n + W - 1 = W * q + r /\ 0 <= r /\ r < W
                                    /\ q = (n + W - 1) \div W
    <2>1. PICK x \in Nat : x = n + W - 1 OBVIOUS
    <2>2. PICK q \in Int : q = x \div W OBVIOUS
    <2>3. PICK r \in Int : r = x % W OBVIOUS
    <2>4. x = W * q + r /\ 0 <= r /\ r < W BY <2>2, <2>3
    <2> QED BY <2>1, <2>2, <2>4
  <1>2. ASSUME NEW p \in 0 .. n - 1 PROVE p \div W \in 0 .. q - 1
    <2>1. PICK a \in Int : a = p \div W OBVIOUS
    <2>2. PICK b \in Int : b = p % W OBVIOUS
    <2>3. p = W * a + b /\ 0 <= b /\ b < W BY <2>1, <2>2
    <2>4. a >= 0
      <3>1. SUFFICES ASSUME a <= -1 PROVE FALSE OBVIOUS
      <3>2. W * a <= W * (-1) BY <3>1
      <3>3. W * (-1) = -W OBVIOUS
      <3> QED BY <2>3, <3>2, <3>3
    <2>5. a <= q - 1
      <3>1. SUFFICES ASSUME a >= q PROVE FALSE OBVIOUS
      <3>2. W * a >= W * q BY <3>1
      <3>3. p + W <= n + W - 1 OBVIOUS
      <3> QED BY <1>1, <2>3, <3>2, <3>3
    <2> QED BY <2>1, <2>4, <2>5
  <1>3. ASSUME NEW k \in 0 .. q - 1 PROVE \E p \in 0 .. n - 1 : p \div W = k
    <2>1. PICK p \in Int : p = W * k OBVIOUS
    <2>2. p >= 0 BY <2>1
    <2>3. W * (k + 1) <= W * q BY <1>3
    <2>4. W * (k + 1) = W * k + W OBVIOUS
    <2>5. p + W <= n + W - 1 BY <1>1, <2>1, <2>3, <2>4
    <2>6. p \div W = k BY <2>1
    <2>7. p \in 0 .. n - 1 BY <2>2, <2>5
    <2> QED BY <2>6, <2>7
  <1> QED BY <1>1, <1>2, <1>3

\* What a policy of a window w and s sinks keeps of n tokens.
KeptOf(w, s, n) == [i \in 1 .. (IF n <= w + s THEN n ELSE w + s) |->
                       IF i <= s \/ n <= w + s THEN i - 1 ELSE i - 1 + (n - (w + s))]

\* keep(), position by position.
LEMMA KeepIs ==
  ASSUME NEW w \in Nat, NEW s \in Nat, Policy.window = w, Policy.sinks = s, NEW n \in Nat
  PROVE  /\ Keep(n) = KeptOf(w, s, n) /\ Keep(n) \in Seq(Int)
         /\ Len(Keep(n)) = IF n <= w + s THEN n ELSE w + s
  <1>1. budget = w + s BY DEF budget
  <1>2. CASE n <= w + s
    <2>1. Keep(n) = Upto(0, n) BY <1>1, <1>2 DEF Keep
    <2>2. Upto(0, n) = [i \in 1 .. n |-> i - 1]
      <3>1. n - 0 = n /\ \A i \in 1 .. n : 0 + i - 1 = i - 1 OBVIOUS
      <3> QED BY <3>1 DEF Upto
    <2>3. KeptOf(w, s, n) = [i \in 1 .. n |-> i - 1] BY <1>2 DEF KeptOf
    <2>4. [i \in 1 .. n |-> i - 1] \in Seq(Int) /\ Len([i \in 1 .. n |-> i - 1]) = n OBVIOUS
    <2> QED BY <1>2, <2>1, <2>2, <2>3, <2>4
  <1>3. CASE n > w + s
    <2>1. Min({s, n}) = s
      <3>1. s <= n BY <1>3
      <3> QED BY <3>1, MinOfTwo
    <2>2. Keep(n) = Upto(0, s) \o Upto(n - w, n)
      <3>1. ~(n <= budget) BY <1>1, <1>3
      <3> QED BY <2>1, <3>1 DEF Keep
    <2>3. PICK a \in Seq(Int) : a = Upto(0, s) /\ Len(a) = s /\ \A i \in 1 .. s : a[i] = i - 1
      <3>1. Upto(0, s) = [i \in 1 .. s |-> i - 1]
        <4>1. s - 0 = s /\ \A i \in 1 .. s : 0 + i - 1 = i - 1 OBVIOUS
        <4> QED BY <4>1 DEF Upto
      <3>2. [i \in 1 .. s |-> i - 1] \in Seq(Int) /\ Len([i \in 1 .. s |-> i - 1]) = s OBVIOUS
      <3> QED BY <3>1, <3>2
    <2>4. PICK b \in Seq(Int) : /\ b = Upto(n - w, n) /\ Len(b) = w
                                /\ \A i \in 1 .. w : b[i] = n - w + i - 1
      <3>1. Upto(n - w, n) = [i \in 1 .. w |-> n - w + i - 1]
        <4>1. n - (n - w) = w OBVIOUS
        <4> QED BY <4>1 DEF Upto
      <3>2. /\ [i \in 1 .. w |-> n - w + i - 1] \in Seq(Int)
            /\ Len([i \in 1 .. w |-> n - w + i - 1]) = w
        OBVIOUS
      <3> QED BY <3>1, <3>2
    <2>5. PICK c \in Seq(Int) : /\ c = a \o b /\ Len(c) = s + w
                                /\ \A i \in 1 .. s + w : c[i] = IF i <= s THEN a[i] ELSE b[i - s]
      <3>1. /\ a \o b \in Seq(Int) /\ Len(a \o b) = Len(a) + Len(b)
            /\ \A i \in 1 .. Len(a) + Len(b) : (a \o b)[i] = IF i <= Len(a) THEN a[i] ELSE b[i - Len(a)]
        BY <2>3, <2>4, ConcatProperties
      <3>2. Len(a) = s /\ Len(b) = w BY <2>3, <2>4
      <3>3. PICK c : c = a \o b OBVIOUS
      <3>4. c \in Seq(Int) /\ Len(c) = s + w BY <3>1, <3>2, <3>3
      <3>5. \A i \in 1 .. s + w : c[i] = IF i <= s THEN a[i] ELSE b[i - s] BY <3>1, <3>2, <3>3
      <3> QED BY <3>3, <3>4, <3>5
    <2>6. PICK d : d = KeptOf(w, s, n) OBVIOUS
    <2>7. /\ d = [i \in 1 .. w + s |-> IF i <= s THEN i - 1 ELSE i - 1 + (n - (w + s))]
      <3>1. ~(n <= w + s) BY <1>3
      <3> QED BY <2>6, <3>1 DEF KeptOf
    <2>8. d \in Seq(Int) /\ Len(d) = w + s
      <3>1. \A i \in 1 .. w + s : (IF i <= s THEN i - 1 ELSE i - 1 + (n - (w + s))) \in Int OBVIOUS
      <3>2. d \in [1 .. w + s -> Int] BY <2>7, <3>1
      <3> QED BY <3>2
    <2>9. ASSUME NEW i \in 1 .. w + s PROVE c[i] = d[i]
      <3>1. CASE i <= s
        <4>1. c[i] = i - 1 BY <2>3, <2>5, <3>1
        <4> QED BY <2>7, <3>1, <4>1
      <3>2. CASE i > s
        <4>1. i - s \in 1 .. w BY <3>2
        <4>2. c[i] = b[i - s]
          <5>1. ~(i <= s) BY <3>2
          <5> QED BY <2>5, <5>1
        <4>3. c[i] = n - w + (i - s) - 1 BY <2>4, <4>1, <4>2
        <4>4. d[i] = i - 1 + (n - (w + s)) BY <2>7, <3>2
        <4>5. n - w + (i - s) - 1 = i - 1 + (n - (w + s)) OBVIOUS
        <4> QED BY <4>3, <4>4, <4>5
      <3> QED BY <3>1, <3>2
    <2>10. c = d
      <3>1. Len(c) = Len(d) /\ \A i \in 1 .. Len(c) : c[i] = d[i] BY <2>5, <2>8, <2>9, SMTT(30)
      <3> QED BY <2>5, <2>8, <3>1, SeqEqual
    <2>11. Keep(n) = d /\ Keep(n) = KeptOf(w, s, n) BY <2>2, <2>3, <2>4, <2>5, <2>6, <2>10
    <2>12. ~(n <= w + s) BY <1>3
    <2> QED BY <2>8, <2>11, <2>12
  <1> QED BY <1>2, <1>3

\* What is left of the cache after a token, in Pass.
Evicted(stored, keep) ==
    IF Len(stored) <= budget THEN stored
    ELSE Picked(keep, {i \in DOMAIN keep : keep[i] \in Range(stored)})

\* Of a cache that holds what the policy keeps of n tokens, one token later is
\* kept what the policy keeps of them all.
LEMMA OneLater ==
  ASSUME Policy.window \in Nat, Policy.window >= 1, Policy.sinks \in Nat, NEW n \in Nat
  PROVE  Evicted(Append(Keep(n), n), Keep(n + 1)) = Keep(n + 1)
  <1> PICK w \in Nat, s \in Nat : w >= 1 /\ Policy.window = w /\ Policy.sinks = s OBVIOUS
  <1> PICK stored, keep : stored = Append(Keep(n), n) /\ keep = Keep(n + 1) OBVIOUS
  <1>1. budget = w + s BY DEF budget
  <1>2. PICK a \in Seq(Int) : /\ a = Keep(n) /\ a = KeptOf(w, s, n)
                              /\ Len(a) = IF n <= w + s THEN n ELSE w + s
    BY KeepIs
  <1>3. n + 1 \in Nat OBVIOUS
  <1>4. /\ keep \in Seq(Int) /\ keep = KeptOf(w, s, n + 1)
        /\ Len(keep) = IF n + 1 <= w + s THEN n + 1 ELSE w + s
    BY <1>3, KeepIs, SMTT(30)
  <1>5. /\ stored \in Seq(Int) /\ Len(stored) = Len(a) + 1
        /\ \A i \in 1 .. Len(a) : stored[i] = a[i]
        /\ stored[Len(a) + 1] = n
    BY <1>2, AppendProperties
  <1>6. CASE n + 1 <= w + s
    <2>1. Len(a) = n /\ Len(stored) = n + 1 /\ Len(keep) = n + 1 BY <1>2, <1>4, <1>5, <1>6
    <2>2. a = [i \in 1 .. n |-> i - 1]
      <3>1. n <= w + s BY <1>6
      <3> QED BY <1>2, <3>1 DEF KeptOf
    <2>3. keep = [i \in 1 .. n + 1 |-> i - 1] BY <1>4, <1>6 DEF KeptOf
    <2>4. ASSUME NEW i \in 1 .. n + 1 PROVE stored[i] = keep[i]
      <3>1. CASE i <= n BY <1>5, <2>1, <2>2, <2>3, <3>1
      <3>2. CASE i > n
        <4>1. i = n + 1 BY <3>2
        <4>2. stored[i] = n BY <1>5, <2>1, <4>1
        <4>3. keep[i] = i - 1 BY <2>3
        <4> QED BY <4>1, <4>2, <4>3
      <3>3. i <= n \/ i > n OBVIOUS
      <3> QED BY <3>1, <3>2, <3>3
    <2>5. stored = keep
      <3>1. Len(stored) = Len(keep) /\ \A i \in 1 .. Len(stored) : stored[i] = keep[i] BY <2>1, <2>4
      <3> QED BY <1>4, <1>5, <3>1, SeqEqual
    <2> QED BY <1>1, <1>6, <2>1, <2>5 DEF Evicted
  <1>7. CASE n + 1 > w + s
    <2>1. PICK b \in Nat : b = w + s OBVIOUS
    <2>2. n >= b /\ Len(a) = b /\ Len(stored) = b + 1 /\ Len(keep) = b
      BY <1>2, <1>4, <1>5, <1>7, <2>1
    <2>3. \A i \in 1 .. b : a[i] = IF i <= s \/ n <= b THEN i - 1 ELSE i - 1 + (n - b)
      <3>1. (IF n <= b THEN n ELSE b) = b BY <2>2
      <3> QED BY <1>2, <2>1, <3>1 DEF KeptOf
    <2>4. \A i \in 1 .. b : keep[i] = IF i <= s THEN i - 1 ELSE i - 1 + (n + 1 - b)
      <3>1. ~(n + 1 <= w + s) BY <1>7
      <3> QED BY <1>4, <2>1, <3>1 DEF KeptOf
    <2>5. ASSUME NEW i \in 1 .. b PROVE keep[i] \in Range(stored)
      <3>1. CASE i <= s
        <4>1. a[i] = i - 1 /\ keep[i] = i - 1 BY <2>3, <2>4, <3>1
        <4>2. stored[i] = i - 1 BY <1>5, <2>2, <4>1
        <4>3. i \in 1 .. Len(stored) BY <2>2
        <4> QED BY <1>5, <4>1, <4>2, <4>3, Occurs
      <3>2. CASE i > s /\ i < b
        <4>1. PICK j \in Int : j = i + 1 OBVIOUS
        <4>2. j \in 1 .. b /\ ~(j <= s) BY <3>2, <4>1
        <4>3. a[j] = j - 1 + (n - b)
          <5>1. CASE n <= b
            <6>1. n - b = 0 BY <2>2, <5>1
            <6>2. a[j] = j - 1 BY <2>3, <4>2, <5>1
            <6> QED BY <4>1, <6>1, <6>2
          <5>2. CASE ~(n <= b) BY <2>3, <4>2, <5>2
          <5> QED BY <5>1, <5>2
        <4>4. keep[i] = i - 1 + (n + 1 - b) BY <2>4, <3>2
        <4>5. stored[j] = keep[i]
          <5>1. j - 1 + (n - b) = i - 1 + (n + 1 - b) BY <4>1
          <5>2. stored[j] = a[j] BY <1>5, <2>2, <4>2
          <5> QED BY <4>3, <4>4, <5>1, <5>2
        <4>6. j \in 1 .. Len(stored) BY <2>2, <4>2
        <4> QED BY <1>5, <4>5, <4>6, Occurs
      <3>3. CASE i > s /\ i = b
        <4>1. keep[i] = i - 1 + (n + 1 - b) BY <2>4, <3>3
        <4>2. keep[i] = n BY <3>3, <4>1
        <4>3. stored[b + 1] = n /\ b + 1 \in 1 .. Len(stored) BY <1>5, <2>2
        <4> QED BY <1>5, <4>2, <4>3, Occurs
      <3> QED BY <3>1, <3>2, <3>3
    <2>6. DOMAIN keep = 1 .. b BY <1>4, <2>2
    <2>7. {i \in DOMAIN keep : keep[i] \in Range(stored)} = 1 .. b BY <2>5, <2>6
    <2>8. Picked(keep, 1 .. b) = keep BY <1>4, <2>2, PickedAll
    <2>9. ~(Len(stored) <= budget) BY <1>1, <2>1, <2>2
    <2> QED BY <2>7, <2>8, <2>9 DEF Evicted
  <1>8. Evicted(stored, keep) = keep BY <1>6, <1>7
  <1> QED BY <1>8

Policies == [window : Nat, sinks : Nat]
QualityRows == [failed : BOOLEAN, tokens : Nat, policy : Policies, held : Nat, baseline : Nat]

\* What a configuration holds of n tokens.
HeldOf(i, n) == LET b == Configurations[i].window + Configurations[i].sinks
                IN IF n <= b THEN n ELSE b

\* The rows tell the same of every configuration, the first of them the best.
RowsAgree == \A i \in 1 .. Len(quality) :
    /\ quality[i].failed = (text_length - 1 > RotaryTable)
    /\ ~quality[i].failed => /\ quality[i].baseline = 1
                             /\ quality[i].held = HeldOf(i, text_length - 1)

WindowInv ==
    /\ window \in Nat /\ window >= 1 /\ sinks \in Nat /\ text_length \in TextLengths
    /\ position \in Nat /\ position <= text_length - 1 /\ position <= RotaryTable
    /\ quality \in Seq(QualityRows) /\ Len(quality) <= 3
    /\ kept_slots = Keep(position)
    /\ RowsAgree

\* The three configurations.
LEMMA ConfigurationsAre ==
  ASSUME window \in Nat, window >= 1, sinks \in Nat, text_length \in TextLengths
  PROVE  /\ Len(Configurations) = 3
         /\ \A i \in 1 .. 3 : /\ Configurations[i] \in Policies
                              /\ Configurations[i].window \in Nat /\ Configurations[i].window >= 1
                              /\ Configurations[i].sinks \in Nat
         /\ Configurations[1].window >= text_length /\ Configurations[1].sinks = 0
  <1>1. TextLengths \in SUBSET Nat /\ IsFiniteSet(TextLengths) /\ TextLengths # {} BY WindowAssumption
  <1>2. PICK m \in Nat : m = Max(TextLengths) /\ m >= text_length
    <2>1. Max(TextLengths) \in TextLengths /\ \A i \in TextLengths : i <= Max(TextLengths)
      BY <1>1, MaxOfFinite
    <2> QED BY <1>1, <2>1
  <1>3. PICK x \in Nat : x = text_length /\ x >= 1 BY <1>1, WindowAssumption
  <1>4. PICK a, b, c : /\ a = [window |-> m, sinks |-> 0] /\ b = [window |-> window, sinks |-> 0]
                       /\ c = [window |-> window, sinks |-> sinks]
    OBVIOUS
  <1>5. Configurations = <<a, b, c>> BY <1>2, <1>4 DEF Configurations
  <1>6. /\ a \in Policies /\ a.window = m /\ a.sinks = 0 BY <1>4 DEF Policies
  <1>7. /\ b \in Policies /\ b.window = window /\ b.sinks = 0 BY <1>4 DEF Policies
  <1>8. /\ c \in Policies /\ c.window = window /\ c.sinks = sinks BY <1>4 DEF Policies
  <1>9. Len(Configurations) = 3 /\ Configurations[1] = a /\ Configurations[2] = b /\ Configurations[3] = c
    BY <1>5
  <1>10. \A i \in 1 .. 3 : i = 1 \/ i = 2 \/ i = 3 OBVIOUS
  <1>11. m >= 1 BY <1>2, <1>3
  <1> QED BY <1>2, <1>3, <1>6, <1>7, <1>8, <1>9, <1>10, <1>11

\* The policy in force is that of the next row.
LEMMA PolicyIs ==
  ASSUME window \in Nat, window >= 1, sinks \in Nat, text_length \in TextLengths,
         NEW n \in Nat, n = Len(quality)
  PROVE  /\ n < 3 => Policy = Configurations[n + 1]
         /\ \E i \in 1 .. 3 : Policy = Configurations[i]
         /\ \E w \in Nat, s \in Nat : w >= 1 /\ Policy.window = w /\ Policy.sinks = s
         /\ Policy \in Policies
  <1>1. PICK m \in Nat : m = n + 1 OBVIOUS
  <1>2. Min({m, 3}) = IF m <= 3 THEN m ELSE 3 BY MinOfTwo
  <1>3. PICK i \in 1 .. 3 : i = Min({m, 3}) /\ (n < 3 => i = n + 1) BY <1>1, <1>2
  <1>4. Policy = Configurations[i] BY <1>1, <1>3 DEF Policy
  <1>5. /\ Configurations[i] \in Policies
        /\ Configurations[i].window \in Nat /\ Configurations[i].window >= 1
        /\ Configurations[i].sinks \in Nat
    BY ConfigurationsAre
  <1> QED BY <1>3, <1>4, <1>5

LEMMA WindowKeeps ==
  ASSUME WindowInv
  PROVE  KeepsPromised /\ Range(kept_slots) \subseteq 0 .. position - 1 /\ Len(kept_slots) <= budget
  <1>1. PICK n \in Nat : n = position BY DEF WindowInv
  <1>2. PICK w \in Nat, s \in Nat : w >= 1 /\ Policy.window = w /\ Policy.sinks = s
    <2>1. quality \in Seq(QualityRows) BY DEF WindowInv
    <2>2. Len(quality) \in Nat BY <2>1, LenProperties
    <2> QED BY <2>2, PolicyIs DEF WindowInv
  <1>3. budget = w + s BY <1>2 DEF budget
  <1>4. PICK b \in Nat : b = IF n <= w + s THEN n ELSE w + s OBVIOUS
  <1>5. PICK a \in Seq(Int) : /\ a = kept_slots /\ a = Keep(n) /\ a = KeptOf(w, s, n) /\ Len(a) = b
    BY <1>1, <1>2, <1>4, KeepIs, SMTT(30) DEF WindowInv
  <1>6. \A i \in 1 .. b : a[i] = IF i <= s \/ n <= w + s THEN i - 1 ELSE i - 1 + (n - (w + s))
    BY <1>4, <1>5 DEF KeptOf
  <1>7. PICK V \in SUBSET Int : V = {p \in 0 .. n - 1 : p < s \/ p >= n - w}
    <2>1. 0 .. n - 1 \in SUBSET Int OBVIOUS
    <2> QED BY <2>1
  <1>8. Promised = V BY <1>1, <1>2, <1>7 DEF Promised
  <1>9. ASSUME NEW i \in 1 .. b PROVE a[i] \in V
    <2>1. CASE i <= s \/ n <= w + s
      <3>1. a[i] = i - 1 BY <1>6, <2>1
      <3>2. i - 1 \in 0 .. n - 1 BY <1>4
      <3>3. i - 1 < s \/ i - 1 >= n - w BY <1>4, <2>1
      <3> QED BY <1>7, <3>1, <3>2, <3>3
    <2>2. CASE ~(i <= s \/ n <= w + s)
      <3>1. a[i] = i - 1 + (n - (w + s)) BY <1>6, <2>2
      <3>2. PICK p \in Int : p = i - 1 + (n - (w + s)) OBVIOUS
      <3>3. p \in 0 .. n - 1 /\ p >= n - w BY <1>4, <2>2, <3>2
      <3> QED BY <1>7, <3>1, <3>2, <3>3
    <2> QED BY <2>1, <2>2
  <1>10. ASSUME NEW p \in V PROVE \E i \in 1 .. b : a[i] = p
    <2>1. p \in 0 .. n - 1 /\ (p < s \/ p >= n - w) BY <1>7
    <2>2. CASE n <= w + s
      <3>1. p + 1 \in 1 .. b BY <1>4, <2>1, <2>2
      <3>2. a[p + 1] = p + 1 - 1 BY <1>6, <2>2, <3>1
      <3> QED BY <2>1, <3>1, <3>2
    <2>3. CASE n > w + s /\ p < s
      <3>1. p + 1 \in 1 .. b /\ p + 1 <= s BY <1>4, <2>1, <2>3
      <3>2. a[p + 1] = p + 1 - 1 BY <1>6, <3>1
      <3> QED BY <2>1, <3>1, <3>2
    <2>4. CASE n > w + s /\ p >= s
      <3>1. PICK i \in Int : i = p + 1 - (n - (w + s)) BY <2>1
      <3>2. i \in 1 .. b /\ ~(i <= s \/ n <= w + s) BY <1>4, <2>1, <2>4, <3>1
      <3>3. a[i] = i - 1 + (n - (w + s)) BY <1>6, <3>2
      <3>4. i - 1 + (n - (w + s)) = p BY <2>1, <3>1
      <3> QED BY <3>2, <3>3, <3>4
    <2> QED BY <2>1, <2>2, <2>3, <2>4
  <1>11. Range(a) = V
    <2>1. \A x : x \in Range(a) <=> \E i \in 1 .. b : a[i] = x BY <1>5, Occurs
    <2> QED BY <1>9, <1>10, <2>1
  <1>12. ASSUME NEW i \in 2 .. b PROVE a[i - 1] < a[i]
    <2>1. PICK h \in Int : h = i - 1 OBVIOUS
    <2>2. h \in 1 .. b /\ i \in 1 .. b /\ h < i BY <2>1
    <2>3. a[h] = IF h <= s \/ n <= w + s THEN h - 1 ELSE h - 1 + (n - (w + s)) BY <1>6, <2>2
    <2>4. a[i] = IF i <= s \/ n <= w + s THEN i - 1 ELSE i - 1 + (n - (w + s)) BY <1>6, <2>2
    <2>5. a[h] < a[i] BY <2>2, <2>3, <2>4
    <2> QED BY <2>1, <2>5
  <1>13. BoundedTokens(position) = b
    <2>1. Min({n, w + s}) = IF n <= w + s THEN n ELSE w + s BY MinOfTwo
    <2> QED BY <1>1, <1>3, <1>4, <2>1 DEF BoundedTokens
  <1>14. PICK W \in Nat : W = WindowBlock /\ W >= 1 BY WindowAssumption
  <1>15. /\ \A p \in V : p \div W \in BlocksToKeep(n)
         /\ \A k \in BlocksToKeep(n) : \E p \in V : p \div W = k
    <2>1. CASE n <= w + s
      <3>1. BlocksToKeep(n) = 0 .. ((n + W - 1) \div W) - 1 BY <1>3, <1>14, <2>1 DEF BlocksToKeep
      <3>2. V = 0 .. n - 1
        <4>1. \A p \in 0 .. n - 1 : p < s \/ p >= n - w BY <2>1
        <4> QED BY <1>7, <4>1
      <3>3. /\ \A p \in 0 .. n - 1 : p \div W \in 0 .. ((n + W - 1) \div W) - 1
            /\ \A k \in 0 .. ((n + W - 1) \div W) - 1 : \E p \in 0 .. n - 1 : p \div W = k
        BY <1>14, BlockOf
      <3> QED BY <3>1, <3>2, <3>3
    <2>2. CASE ~(n <= w + s)
      <3>1. BlocksToKeep(n) = {p \div W : p \in V} BY <1>3, <1>5, <1>11, <1>14, <2>2 DEF BlocksToKeep
      <3> QED BY <3>1
    <2> QED BY <2>1, <2>2
  <1>16. KeepsPromised BY <1>1, <1>5, <1>8, <1>11, <1>12, <1>13, <1>14, <1>15 DEF KeepsPromised
  <1>17. V \subseteq 0 .. n - 1 BY <1>7
  <1>18. b <= w + s BY <1>4
  <1> QED BY <1>1, <1>3, <1>5, <1>11, <1>16, <1>17, <1>18

LEMMA PositionsRunOut == WindowInv => RunsOutTogether
  <1> SUFFICES ASSUME WindowInv PROVE RunsOutTogether
    OBVIOUS
  <1>1. PICK n \in Nat, R \in Nat : n = position /\ R = RotaryTable /\ n <= R
    BY WindowAssumption DEF WindowInv
  <1>2. Range(PositionsFor(kept_slots, FALSE)) \subseteq 0 .. R - 1
    <2>1. Range(kept_slots) \subseteq 0 .. n - 1 BY <1>1, WindowKeeps
    <2>2. 0 .. n - 1 \subseteq 0 .. R - 1 BY <1>1
    <2> QED BY <2>1, <2>2 DEF PositionsFor
  <1>3. PICK w \in Nat, s \in Nat : w >= 1 /\ Policy.window = w /\ Policy.sinks = s
    <2>1. quality \in Seq(QualityRows) BY DEF WindowInv
    <2>2. Len(quality) \in Nat BY <2>1, LenProperties
    <2> QED BY <2>2, PolicyIs DEF WindowInv
  <1>4. PICK b \in Nat : b = budget BY <1>3 DEF budget
  <1>5. PICK l \in Nat : l = Len(kept_slots) /\ l <= b
    <2>1. Keep(n) \in Seq(Int) BY <1>3, KeepIs
    <2>2. Len(kept_slots) \in Nat BY <1>1, <2>1, LenProperties DEF WindowInv
    <2> QED BY <1>4, <2>2, WindowKeeps
  <1>6. Range(PositionsFor(kept_slots, TRUE)) \subseteq 0 .. b - 1
    <2>1. PICK u : u = [i \in 1 .. l |-> i - 1] OBVIOUS
    <2>2. PositionsFor(kept_slots, TRUE) = u
      <3>1. l - 0 = l /\ \A i \in 1 .. l : 0 + i - 1 = i - 1 OBVIOUS
      <3>2. PositionsFor(kept_slots, TRUE) = Upto(0, l) BY <1>5 DEF PositionsFor
      <3> QED BY <2>1, <3>1, <3>2 DEF Upto
    <2>3. ASSUME NEW x \in Range(u) PROVE x \in 0 .. b - 1
      <3>1. PICK i \in 1 .. l : x = u[i] BY <2>1, <2>3 DEF Range
      <3> QED BY <1>5, <2>1, <3>1
    <2> QED BY <2>2, <2>3
  <1>7. PICK N \in Nat : N = Len(quality) /\ DOMAIN quality = 1 .. N
    <2>1. quality \in Seq(QualityRows) BY DEF WindowInv
    <2> QED BY <2>1, LenProperties
  <1>8. RowsAgree /\ N <= 3 BY <1>7 DEF WindowInv
  <1>9. ASSUME NEW i \in 1 .. N
        PROVE  /\ quality[i].failed = (text_length - 1 > RotaryTable)
               /\ ~quality[i].failed => quality[i].baseline = 1
               /\ ~quality[i].failed /\ i > 1 => quality[i].held <= quality[1].held
    <2>1. /\ quality[i].failed = (text_length - 1 > RotaryTable)
          /\ ~quality[i].failed => /\ quality[i].baseline = 1
                                   /\ quality[i].held = HeldOf(i, text_length - 1)
      BY <1>7, <1>8 DEF RowsAgree
    <2>2. ASSUME ~quality[i].failed PROVE quality[i].held <= quality[1].held
      <3>1. 1 \in 1 .. N OBVIOUS
      <3>2. ~quality[1].failed /\ quality[1].held = HeldOf(1, text_length - 1)
        BY <1>7, <1>8, <2>1, <2>2, <3>1 DEF RowsAgree
      <3>3. PICK x \in Nat : x = text_length - 1
        <4>1. text_length \in Nat /\ text_length >= 1 BY WindowAssumption DEF WindowInv
        <4> QED BY <4>1
      <3>4. PICK c \in Nat : c = Configurations[i].window + Configurations[i].sinks
        BY <1>8, ConfigurationsAre DEF WindowInv
      <3>5. PICK a \in Nat : a = Configurations[1].window + Configurations[1].sinks /\ x <= a
        <4>1. 1 \in 1 .. 3 OBVIOUS
        <4>2. /\ Configurations[1].window \in Nat /\ Configurations[1].sinks = 0
              /\ Configurations[1].window >= text_length
          BY <4>1, ConfigurationsAre DEF WindowInv
        <4>3. PICK y \in Nat : y = Configurations[1].window BY <4>2
        <4>4. text_length \in Nat BY WindowAssumption DEF WindowInv
        <4>5. y + 0 = y /\ x <= y BY <3>3, <4>2, <4>3, <4>4
        <4> QED BY <4>2, <4>3, <4>5
      <3>6. HeldOf(1, x) = x BY <3>5 DEF HeldOf
      <3>7. HeldOf(i, x) = IF x <= c THEN x ELSE c BY <3>4 DEF HeldOf
      <3>8. HeldOf(i, x) <= x BY <3>7
      <3> QED BY <2>1, <2>2, <3>2, <3>3, <3>6, <3>8
    <2> QED BY <2>1, <2>2
  <1> QED BY <1>1, <1>2, <1>4, <1>6, <1>7, <1>9 DEF RunsOutTogether

LEMMA PassKeeps ==
  ASSUME WindowInv, Pass
  PROVE  WindowInv'
  <1>1. /\ position < text_length - 1 /\ position < RotaryTable /\ position' = position + 1
        /\ UNCHANGED <<window, sinks, text_length, quality>>
        /\ kept_slots' =
               LET stored == Append(kept_slots, position)
                   keep == Keep(position + 1)
               IN IF Len(stored) <= budget THEN stored
                  ELSE Picked(keep, {i \in DOMAIN keep : keep[i] \in Range(stored)})
    BY DEF Pass
  <1>2. PICK n \in Nat, T \in Nat, R \in Nat :
            n = position /\ T = text_length /\ R = RotaryTable
    BY WindowAssumption DEF WindowInv
  <1>3. PICK w \in Nat, s \in Nat : w >= 1 /\ Policy.window = w /\ Policy.sinks = s
    <2>1. quality \in Seq(QualityRows) BY DEF WindowInv
    <2>2. Len(quality) \in Nat BY <2>1, LenProperties
    <2> QED BY <2>2, PolicyIs DEF WindowInv
  <1>4. kept_slots' = Keep(n + 1)
    <2>1. PICK stored, keep : stored = Append(Keep(n), n) /\ keep = Keep(n + 1) OBVIOUS
    <2>2. Evicted(stored, keep) = keep BY <1>3, <2>1, OneLater
    <2>3. kept_slots = Keep(n) BY <1>2 DEF WindowInv
    <2>4. kept_slots' = Evicted(stored, keep) BY <1>1, <1>2, <2>1, <2>3 DEF Evicted
    <2> QED BY <2>1, <2>2, <2>4
  <1>5. Policy' = Policy
    <2>1. Configurations' = Configurations BY <1>1 DEF Configurations
    <2> QED BY <1>1, <2>1 DEF Policy
  <1>6. Keep(n + 1)' = Keep(n + 1) BY <1>5 DEF Keep, budget, Upto
  <1>7. position' = n + 1 BY <1>1, <1>2
  <1>8. kept_slots' = Keep(position)'
    <2>1. Keep(position)' = Keep(n + 1)' BY <1>7 DEF Keep
    <2> QED BY <1>4, <1>6, <2>1
  <1>9. RowsAgree'
    <2>1. RowsAgree BY DEF WindowInv
    <2>2. \A i, x : HeldOf(i, x)' = HeldOf(i, x)
      <3>1. Configurations' = Configurations BY <1>1 DEF Configurations
      <3> QED BY <3>1 DEF HeldOf
    <2> QED BY <1>1, <2>1, <2>2 DEF RowsAgree
  <1>10. n + 1 \in Nat /\ n + 1 <= T - 1 /\ n + 1 <= R BY <1>1, <1>2
  <1> QED BY <1>1, <1>2, <1>7, <1>8, <1>9, <1>10 DEF WindowInv

\* Before the first token nothing is kept, under any policy.
LEMMA KeepNothing ==
  ASSUME NEW w \in Nat, w >= 1, NEW s \in Nat, Policy.window = w, Policy.sinks = s
  PROVE  Keep(0) = <<>>
  <1>1. Keep(0) \in Seq(Int) /\ Len(Keep(0)) = IF 0 <= w + s THEN 0 ELSE w + s BY KeepIs
  <1>2. Len(Keep(0)) = 0 BY <1>1
  <1> QED BY <1>1, <1>2, EmptySeq

WindowOpens == /\ window \in Nat /\ window >= 1 /\ sinks \in Nat
               /\ text_length \in TextLengths /\ Len(quality) \in Nat

LEMMA FirstKept == WindowOpens => Keep(0) = <<>>
  <1> SUFFICES ASSUME WindowOpens PROVE Keep(0) = <<>>
    OBVIOUS
  <1>1. PICK w \in Nat, s \in Nat : w >= 1 /\ Policy.window = w /\ Policy.sinks = s
    BY PolicyIs DEF WindowOpens
  <1> QED BY <1>1, KeepNothing

\* The row that is recorded tells what the rows before it tell.
LEMMA RecordKeeps ==
  ASSUME WindowInv, Record
  PROVE  WindowInv'
  <1>1. /\ Measuring /\ (position = text_length - 1 \/ Failed)
        /\ quality' = Append(quality,
               [failed |-> Failed, tokens |-> text_length, policy |-> Policy,
                held |-> Len(kept_slots),
                baseline |-> IF Failed THEN 0 ELSE Min(Succeeded \cup {Len(quality) + 1})])
        /\ position' = 0 /\ kept_slots' = <<>> /\ UNCHANGED <<window, sinks, text_length>>
    BY DEF Record
  <1>2. PICK n \in Nat, T \in Nat, R \in Nat :
            n = position /\ T = text_length /\ R = RotaryTable /\ T >= 1
    BY WindowAssumption DEF WindowInv
  <1>3. PICK N \in Nat : N = Len(quality) /\ quality \in Seq(QualityRows) /\ DOMAIN quality = 1 .. N
    <2>1. quality \in Seq(QualityRows) BY DEF WindowInv
    <2> QED BY <2>1, LenProperties
  <1>4. N < 3
    <2>1. Len(Configurations) = 3 BY ConfigurationsAre DEF WindowInv
    <2> QED BY <1>1, <1>3, <2>1 DEF Measuring
  <1>5. Policy = Configurations[N + 1] /\ Policy \in Policies BY <1>3, <1>4, PolicyIs DEF WindowInv
  <1>6. PICK w \in Nat, s \in Nat : w >= 1 /\ Policy.window = w /\ Policy.sinks = s
    BY <1>3, PolicyIs DEF WindowInv
  <1>7. Len(kept_slots) = HeldOf(N + 1, n) /\ Len(kept_slots) \in Nat
    <2>1. Len(Keep(n)) = IF n <= w + s THEN n ELSE w + s BY <1>6, KeepIs
    <2>2. kept_slots = Keep(n) BY <1>2 DEF WindowInv
    <2>3. HeldOf(N + 1, n) = IF n <= w + s THEN n ELSE w + s BY <1>5, <1>6 DEF HeldOf
    <2> QED BY <2>1, <2>2, <2>3
  <1>8. Failed = (T - 1 > R) /\ (~Failed => n = T - 1)
    <2>1. n <= T - 1 /\ n <= R BY <1>2 DEF WindowInv
    <2>2. Failed <=> n < T - 1 /\ n = R BY <1>2 DEF Failed
    <2>3. n = T - 1 \/ Failed BY <1>1, <1>2
    <2>4. Failed <=> T - 1 > R BY <2>1, <2>2, <2>3
    <2>5. Failed \in BOOLEAN BY DEF Failed
    <2> QED BY <2>3, <2>4, <2>5
  <1>9. RowsAgree BY DEF WindowInv
  <1>10. ASSUME ~Failed PROVE Min(Succeeded \cup {N + 1}) = 1
    <2>1. ASSUME NEW i \in 1 .. N PROVE ~quality[i].failed
      <3>1. quality[i].failed = (T - 1 > R) BY <1>2, <1>3, <1>9 DEF RowsAgree
      <3> QED BY <1>8, <1>10, <3>1
    <2>2. Succeeded = 1 .. N BY <1>3, <2>1 DEF Succeeded
    <2>3. PICK S \in SUBSET Nat : S = 1 .. N + 1 OBVIOUS
    <2>4. Succeeded \cup {N + 1} = S BY <2>2, <2>3
    <2>5. 1 \in S /\ \A m \in S : 1 <= m BY <2>3
    <2>6. \A x \in S : (\A m \in S : x <= m) => x = 1 BY <2>5
    <2>7. Min(S) = 1 BY <2>5, <2>6 DEF Min
    <2> QED BY <2>4, <2>7
  <1>11. PICK base \in Nat : /\ base = IF Failed THEN 0 ELSE Min(Succeeded \cup {N + 1})
                             /\ ~Failed => base = 1
    BY <1>10
  <1>12. PICK row : row = [failed |-> Failed, tokens |-> T, policy |-> Policy,
                           held |-> Len(kept_slots), baseline |-> base]
    OBVIOUS
  <1>13. row \in QualityRows BY <1>5, <1>7, <1>8, <1>12 DEF QualityRows
  <1>14. quality' = Append(quality, row) BY <1>1, <1>2, <1>3, <1>11, <1>12
  <1>15. /\ quality' \in Seq(QualityRows) /\ Len(quality') = N + 1
         /\ \A i \in 1 .. N : quality'[i] = quality[i]
         /\ quality'[N + 1] = row
    BY <1>3, <1>13, <1>14, AppendProperties
  <1>16. row.failed = Failed /\ row.held = Len(kept_slots) /\ row.baseline = base BY <1>12
  <1>17. \A i, x : HeldOf(i, x)' = HeldOf(i, x)
    <2>1. Configurations' = Configurations BY <1>1 DEF Configurations
    <2> QED BY <2>1 DEF HeldOf
  <1>18. RowsAgree'
    <2>1. ASSUME NEW i \in 1 .. N + 1
          PROVE  /\ quality'[i].failed = (T - 1 > R)
                 /\ ~quality'[i].failed => /\ quality'[i].baseline = 1
                                           /\ quality'[i].held = HeldOf(i, T - 1)
      <3>1. CASE i <= N
        <4>1. i \in 1 .. N BY <3>1
        <4> QED BY <1>2, <1>3, <1>9, <1>15, <4>1 DEF RowsAgree
      <3>2. CASE i = N + 1
        <4>1. quality'[i] = row BY <1>15, <3>2
        <4> QED BY <1>7, <1>8, <1>11, <1>16, <3>2, <4>1
      <3> QED BY <3>1, <3>2
    <2>2. text_length' = T BY <1>1, <1>2
    <2> QED BY <1>2, <1>15, <1>17, <2>1, <2>2 DEF RowsAgree
  <1>19. kept_slots' = Keep(position)'
    <2>1. WindowOpens'
      <3>1. Len(quality') \in Nat BY <1>15
      <3> QED BY <1>1, <3>1 DEF WindowInv, WindowOpens
    <2>2. Keep(0)' = <<>>
      <3>1. (WindowOpens => Keep(0) = <<>>)' BY FirstKept, PTL
      <3> QED BY <2>1, <3>1
    <2>3. Keep(position)' = Keep(0)' BY <1>1 DEF Keep
    <2> QED BY <1>1, <2>2, <2>3
  <1>20. N + 1 <= 3 BY <1>4
  <1>21. /\ window' \in Nat /\ window' >= 1 /\ sinks' \in Nat /\ text_length' \in TextLengths
    BY <1>1 DEF WindowInv
  <1>22. position' \in Nat /\ position' <= text_length' - 1 /\ position' <= RotaryTable
    BY <1>1, <1>2, WindowAssumption
  <1> QED BY <1>15, <1>18, <1>19, <1>20, <1>21, <1>22 DEF WindowInv

\* However long the text and whatever the window: what the policy promises is
\* held, and every configuration runs out of positions at the same token.
THEOREM WindowHolds == WindowInit /\ [][WindowNext]_windowVars => []WindowHeld
  <1>1. WindowInit => WindowInv
    <2> SUFFICES ASSUME WindowInit PROVE WindowInv
      OBVIOUS
    <2>1. /\ window \in 1 .. MaxWindow /\ sinks \in 0 .. MaxSinks /\ text_length \in TextLengths
          /\ position = 0 /\ kept_slots = <<>> /\ quality = <<>>
      BY DEF WindowInit
    <2>2. window \in Nat /\ window >= 1 /\ sinks \in Nat BY <2>1, WindowAssumption
    <2>3. quality \in Seq(QualityRows) /\ Len(quality) = 0 BY <2>1, EmptySeq
    <2>4. kept_slots = Keep(position)
      <3>1. Keep(0) = <<>> BY <2>1, <2>2, <2>3, FirstKept DEF WindowOpens
      <3> QED BY <2>1, <3>1
    <2>5. RowsAgree BY <2>3 DEF RowsAgree
    <2>6. text_length \in Nat /\ text_length >= 1 BY <2>1, WindowAssumption
    <2>7. position \in Nat /\ position <= text_length - 1 /\ position <= RotaryTable
      BY <2>1, <2>6, WindowAssumption
    <2> QED BY <2>1, <2>2, <2>3, <2>4, <2>5, <2>7 DEF WindowInv
  <1>2. WindowInv /\ [WindowNext]_windowVars => WindowInv'
    <2> SUFFICES ASSUME WindowInv, [WindowNext]_windowVars PROVE WindowInv'
      OBVIOUS
    <2>1. CASE Pass BY <2>1, PassKeeps
    <2>2. CASE Record BY <2>2, RecordKeeps
    <2>3. CASE UNCHANGED windowVars
      <3>1. UNCHANGED <<window, sinks, text_length, position, kept_slots, quality>>
        BY <2>3 DEF windowVars
      <3>2. Configurations' = Configurations BY <3>1 DEF Configurations
      <3>3. Policy' = Policy BY <3>1, <3>2 DEF Policy
      <3>4. Keep(position)' = Keep(position) BY <3>1, <3>3 DEF Keep, budget, Upto
      <3>5. RowsAgree' = RowsAgree BY <3>1, <3>2 DEF RowsAgree, HeldOf
      <3> QED BY <3>1, <3>4, <3>5 DEF WindowInv
    <2> QED BY <2>1, <2>2, <2>3 DEF WindowNext
  <1>3. WindowInv => WindowHeld BY WindowKeeps, PositionsRunOut DEF WindowHeld
  <1> QED BY <1>1, <1>2, <1>3, PTL

--------------------------------------------------------------------------------
(* Adapters, as long as those of one scale and the same targets are attached. *)

Names == Tenants \cup {Base}
Factors == {1} \cup {Scale[t] : t \in Tenants}
Rowings == {<<>>} \cup [1 .. NRows -> Names]
Layers == [adapters : SUBSET Tenants, scale : Factors, active : Names, rows : Rowings]

AdapterTypes ==
    /\ wrapped \in {{}, handle} /\ handle \in SUBSET Modules
    /\ layer \in [Modules -> Layers] /\ folded \in [Modules -> Seq(Tenants \X Factors)]
    /\ wanted \in [1 .. NRows -> Names]

\* The layers of a handle hold the same adapters, which target exactly them and
\* share their scale, and choose among what they hold.
Alike(m) ==
    /\ \A t \in layer[m].adapters : Targets[t] = handle /\ Scale[t] = layer[m].scale
    /\ \A k \in handle : layer[k].adapters = layer[m].adapters
    /\ layer[m].active \in layer[m].adapters \cup {Base}
    /\ layer[m].rows # <<>> => \A i \in 1 .. NRows : layer[m].rows[i] \in layer[m].adapters \cup {Base}

ChosenIn(l, i) == IF l.rows = <<>> THEN l.active ELSE l.rows[i]

Obeyed == /\ \A m \in wrapped, i \in 1 .. NRows : ChosenIn(layer[m], i) = wanted[i]
          /\ wrapped = {} => wanted = Nobody

FoldedEvenly == \A t \in Tenants :
    /\ \A m \in Modules \ Targets[t] : Folds(t, m) = 0
    /\ \A m, k \in Targets[t] : Folds(t, m) = Folds(t, k)

AdapterInv == ~mixed => AdapterTypes /\ (\A m \in handle : Alike(m)) /\ Obeyed /\ FoldedEvenly

\* What nobody merges stays as it is.
LEMMA FoldedStay ==
  ASSUME FoldedEvenly, folded' = folded
  PROVE  FoldedEvenly'
  <1>1. \A t, m : Folds(t, m)' = Folds(t, m) BY DEF Folds
  <1> QED BY <1>1 DEF FoldedEvenly

LEMMA AttachKeeps ==
  ASSUME AdapterInv, NEW n \in 1 .. 2, NEW list \in [1 .. n -> Tenants], Attach(list)
  PROVE  AdapterInv'
  <1> SUFFICES ASSUME ~mixed'
               PROVE  /\ AdapterTypes' /\ (\A m \in handle' : Alike(m)') /\ Obeyed' /\ FoldedEvenly'
    BY DEF AdapterInv
  <1>1. PICK t0 \in Tenants : t0 = list[1] /\ t0 \in Range(list)
    <2>1. 1 \in 1 .. n OBVIOUS
    <2> QED BY <2>1 DEF Range
  <1>2. PICK new \in SUBSET Tenants : new = Range(list) /\ new # {}
    <2>1. DOMAIN list = 1 .. n OBVIOUS
    <2>2. ASSUME NEW t \in Range(list) PROVE t \in Tenants
      <3>1. PICK i \in DOMAIN list : t = list[i] BY <2>2 DEF Range
      <3> QED BY <2>1, <3>1
    <2> QED BY <1>1, <2>2
  <1>3. PICK target \in SUBSET Modules : target = Targets[t0] /\ target # {} BY AdapterAssumption
  <1>4. /\ \A t \in new : Scale[t] = Scale[t0] /\ Targets[t] = target
        /\ wrapped \in {{}, target} /\ \A m \in wrapped : layer[m].scale = Scale[t0]
        /\ handle' = target /\ wrapped' = wrapped \cup target
        /\ layer' = [m \in Modules |-> IF m \in target
                        THEN Layered(m, list, IF m \in wrapped THEN layer[m] ELSE Plain)
                        ELSE layer[m]]
        /\ folded' = folded /\ wanted' = wanted /\ ~mixed
    BY <1>1, <1>2, <1>3 DEF Attach
  <1>5. AdapterTypes /\ (\A m \in handle : Alike(m)) /\ Obeyed /\ FoldedEvenly BY <1>4 DEF AdapterInv
  <1>6. wrapped' = target BY <1>4
  <1>7. wrapped # {} => wrapped = handle /\ target = handle BY <1>4, <1>5 DEF AdapterTypes
  <1>8. Scale[t0] \in Factors BY DEF Factors
  <1>9. ASSUME NEW m \in target
        PROVE  /\ layer'[m] \in Layers /\ layer'[m].scale = Scale[t0]
               /\ wrapped = {} => /\ layer'[m].adapters = new
                                  /\ layer'[m].active = Base /\ layer'[m].rows = <<>>
               /\ wrapped # {} => /\ layer'[m].adapters = layer[m].adapters \cup new
                                  /\ layer'[m].active = layer[m].active
                                  /\ layer'[m].rows = layer[m].rows
    <2>1. PICK base \in Layers : base = IF m \in wrapped THEN layer[m] ELSE Plain
      <3>1. Plain \in Layers BY DEF Plain, Layers, Factors, Names, Rowings
      <3>2. m \in Modules => layer[m] \in Layers BY <1>5 DEF AdapterTypes
      <3> QED BY <1>3, <3>1, <3>2
    <2>2. {t \in Range(list) : m \in Targets[t]} = new BY <1>2, <1>4
    <2>3. layer'[m] = [base EXCEPT !.scale = Scale[t0], !.adapters = @ \cup new]
      BY <1>1, <1>3, <1>4, <2>1, <2>2 DEF Layered
    <2>4. base = [adapters |-> base.adapters, scale |-> base.scale,
                  active |-> base.active, rows |-> base.rows] BY DEF Layers
    <2>5. layer'[m] = [adapters |-> base.adapters \cup new, scale |-> Scale[t0],
                       active |-> base.active, rows |-> base.rows] BY <2>3, <2>4
    <2>6. layer'[m] \in Layers BY <1>8, <2>5 DEF Layers
    <2>7. wrapped = {} => base.adapters = {} /\ base.active = Base /\ base.rows = <<>>
      BY <2>1 DEF Plain
    <2>8. wrapped # {} => base = layer[m] BY <1>4, <2>1
    <2> QED BY <2>5, <2>6, <2>7, <2>8
  <1>10. AdapterTypes'
    <2>1. layer' \in [Modules -> Layers] BY <1>4, <1>5, <1>9 DEF AdapterTypes
    <2> QED BY <1>4, <1>5, <1>6, <2>1 DEF AdapterTypes
  <1>11. ASSUME NEW m \in target PROVE Alike(m)'
    <2>1. CASE wrapped = {} BY <1>4, <1>9, <2>1 DEF Alike
    <2>2. CASE wrapped # {}
      <3>1. target = handle /\ wrapped = handle BY <1>7, <2>2
      <3>2. Alike(m) BY <1>5, <3>1
      <3>3. layer[m].scale = Scale[t0] BY <1>4, <3>1
      <3>4. PICK known \in SUBSET Tenants : known = layer[m].adapters
        <4>1. layer[m] \in Layers BY <1>5, <3>1 DEF AdapterTypes
        <4> QED BY <4>1 DEF Layers
      <3>5. \A k \in target : layer'[k].adapters = known \cup new BY <1>9, <2>2, <3>1, <3>2, <3>4 DEF Alike
      <3>6. \A t \in known \cup new : Targets[t] = target /\ Scale[t] = Scale[t0]
        BY <1>4, <3>1, <3>2, <3>3, <3>4 DEF Alike
      <3>7. layer'[m].active = layer[m].active /\ layer'[m].rows = layer[m].rows BY <1>9, <2>2
      <3>8. layer'[m].active \in known \cup new \cup {Base} BY <3>2, <3>4, <3>7 DEF Alike
      <3>9. layer'[m].rows # <<>> => \A i \in 1 .. NRows : layer'[m].rows[i] \in known \cup new \cup {Base}
        BY <3>2, <3>4, <3>7 DEF Alike
      <3>10. layer'[m].scale = Scale[t0] BY <1>9
      <3>11. layer'[m].adapters = known \cup new BY <3>5
      <3>12. handle' = target BY <1>4
      <3> QED BY <3>5, <3>6, <3>8, <3>9, <3>10, <3>11, <3>12 DEF Alike
    <2> QED BY <2>1, <2>2
  <1>12. Obeyed'
    <2>1. ASSUME NEW m \in target, NEW i \in 1 .. NRows PROVE ChosenIn(layer'[m], i) = wanted[i]
      <3>1. CASE wrapped = {}
        <4>1. wanted = Nobody BY <1>5, <3>1 DEF Obeyed
        <4>2. wanted[i] = Base BY <4>1 DEF Nobody
        <4> QED BY <1>9, <3>1, <4>2 DEF ChosenIn
      <3>2. CASE wrapped # {}
        <4>1. ChosenIn(layer[m], i) = wanted[i] BY <1>4, <1>5, <3>2 DEF Obeyed
        <4> QED BY <1>9, <3>2, <4>1 DEF ChosenIn
      <3> QED BY <3>1, <3>2
    <2> QED BY <1>3, <1>4, <1>6, <2>1 DEF Obeyed
  <1>13. FoldedEvenly' BY <1>4, <1>5, FoldedStay
  <1> QED BY <1>4, <1>10, <1>11, <1>12, <1>13

\* A layer told what to apply.
Told(l, a, r) == [l EXCEPT !.active = a, !.rows = r]

LEMMA Choosing ==
  ASSUME NEW l \in Layers, NEW a \in Names, NEW r \in Rowings
  PROVE  /\ Told(l, a, r) \in Layers
         /\ Told(l, a, r).adapters = l.adapters /\ Told(l, a, r).scale = l.scale
         /\ Told(l, a, r).active = a /\ Told(l, a, r).rows = r
  <1>1. l = [adapters |-> l.adapters, scale |-> l.scale, active |-> l.active, rows |-> l.rows]
    BY DEF Layers
  <1>2. PICK new : new = Told(l, a, r) OBVIOUS
  <1>3. new = [l EXCEPT !.active = a, !.rows = r] BY <1>2 DEF Told
  <1>4. new = [adapters |-> l.adapters, scale |-> l.scale, active |-> a, rows |-> r] BY <1>1, <1>3
  <1>5. new \in Layers BY <1>4 DEF Layers
  <1> QED BY <1>2, <1>4, <1>5

\* Choosing, for the batch or for each row.
LEMMA ChoiceKeeps ==
  ASSUME AdapterInv, NEW active \in Names, NEW rows \in Rowings,
         \A m \in handle : active \in layer[m].adapters \cup {Base},
         rows # <<>> => \A m \in handle, i \in 1 .. NRows : rows[i] \in layer[m].adapters \cup {Base},
         layer' = [m \in Modules |-> IF m \in handle
                      THEN [layer[m] EXCEPT !.active = active, !.rows = rows] ELSE layer[m]],
         wanted' \in [1 .. NRows -> Names],
         Held # {} => \A i \in 1 .. NRows : wanted'[i] = IF rows = <<>> THEN active ELSE rows[i],
         Held = {} => wanted' = wanted,
         UNCHANGED <<wrapped, handle, folded, mixed>>
  PROVE  AdapterInv'
  <1> SUFFICES ASSUME ~mixed
               PROVE  /\ AdapterTypes' /\ (\A m \in handle' : Alike(m)') /\ Obeyed' /\ FoldedEvenly'
    BY DEF AdapterInv
  <1>1. AdapterTypes /\ (\A m \in handle : Alike(m)) /\ Obeyed /\ FoldedEvenly BY DEF AdapterInv
  <1>2. ASSUME NEW m \in handle
        PROVE  /\ layer'[m] \in Layers /\ layer'[m].scale = layer[m].scale
               /\ layer'[m].adapters = layer[m].adapters
               /\ layer'[m].active = active /\ layer'[m].rows = rows
    <2>1. PICK l \in Layers : l = layer[m] BY <1>1 DEF AdapterTypes
    <2>2. layer'[m] = Told(l, active, rows) BY <1>1, <2>1 DEF AdapterTypes, Told
    <2>3. /\ Told(l, active, rows) \in Layers
          /\ Told(l, active, rows).adapters = l.adapters /\ Told(l, active, rows).scale = l.scale
          /\ Told(l, active, rows).active = active /\ Told(l, active, rows).rows = rows
      BY <2>1, Choosing
    <2>4. /\ layer'[m] \in Layers /\ layer'[m].adapters = l.adapters /\ layer'[m].scale = l.scale
          /\ layer'[m].active = active /\ layer'[m].rows = rows
      BY <2>2, <2>3
    <2> QED BY <2>1, <2>4
  <1>3. AdapterTypes'
    <2>1. layer' \in [Modules -> Layers] BY <1>1, <1>2 DEF AdapterTypes
    <2> QED BY <1>1, <2>1 DEF AdapterTypes
  <1>4. ASSUME NEW m \in handle PROVE Alike(m)'
    <2>1. Alike(m) BY <1>1
    <2>2. PICK known \in SUBSET Tenants : known = layer[m].adapters
      <3>1. layer[m] \in Layers BY <1>1 DEF AdapterTypes
      <3> QED BY <3>1 DEF Layers
    <2>3. \A k \in handle : layer'[k].adapters = known BY <1>2, <2>1, <2>2 DEF Alike
    <2>4. \A t \in known : Targets[t] = handle /\ Scale[t] = layer[m].scale BY <2>1, <2>2 DEF Alike
    <2>5. layer'[m].active = active /\ layer'[m].rows = rows /\ layer'[m].scale = layer[m].scale BY <1>2
    <2>6. active \in known \cup {Base} BY <2>2
    <2>7. rows # <<>> => \A i \in 1 .. NRows : rows[i] \in known \cup {Base} BY <2>2
    <2> QED BY <2>3, <2>4, <2>5, <2>6, <2>7 DEF Alike
  <1>5. Obeyed'
    <2>1. Held = wrapped BY <1>1 DEF Held, AdapterTypes
    <2>2. CASE wrapped = {} BY <1>1, <2>1, <2>2 DEF Obeyed
    <2>3. CASE wrapped # {}
      <3>1. wrapped = handle BY <1>1, <2>3 DEF AdapterTypes
      <3>2. \A m \in wrapped, i \in 1 .. NRows : ChosenIn(layer'[m], i) = wanted'[i]
        BY <1>2, <2>1, <2>3, <3>1 DEF ChosenIn
      <3> QED BY <2>3, <3>2 DEF Obeyed
    <2> QED BY <2>2, <2>3
  <1>6. FoldedEvenly' BY <1>1, FoldedStay
  <1> QED BY <1>3, <1>4, <1>5, <1>6

\* What is held by one layer of the handle is held by all.
LEMMA AttachedIs ==
  ASSUME AdapterTypes, \A m \in handle : Alike(m), NEW name \in Attached
  PROVE  name \in Tenants /\ handle # {} /\ handle = Targets[name]
         /\ \A m \in handle : name \in layer[m].adapters
  BY DEF Attached, Alike

\* The folds of t among those of one projection.
FoldsIn(s, t) == Cardinality({n \in 1 .. Len(s) : s[n][1] = t})

\* One fold more in a projection.
LEMMA FoldsMore ==
  ASSUME NEW S, NEW s \in Seq(S), NEW e \in S, NEW t
  PROVE  FoldsIn(Append(s, e), t) = IF e[1] = t THEN FoldsIn(s, t) + 1 ELSE FoldsIn(s, t)
  <1>1. PICK u \in Seq(S) : /\ u = Append(s, e) /\ Len(u) = Len(s) + 1
                            /\ \A i \in 1 .. Len(s) : u[i] = s[i]
                            /\ u[Len(s) + 1] = e
    BY AppendProperties
  <1>2. PICK l \in Nat : l = Len(s) BY LenProperties
  <1>3. PICK A \in SUBSET (1 .. l) : A = {n \in 1 .. l : s[n][1] = t} OBVIOUS
  <1>4. IsFiniteSet(A) /\ l + 1 \notin A
    <2>1. IsFiniteSet(1 .. l) BY FS_Interval
    <2>2. IsFiniteSet(A) BY <2>1, FS_Subset
    <2>3. ~(l + 1 \in 1 .. l) OBVIOUS
    <2> QED BY <2>2, <2>3
  <1>5. \A n : n \in 1 .. l + 1 <=> n \in 1 .. l \/ n = l + 1 OBVIOUS
  <1>6. {n \in 1 .. l + 1 : u[n][1] = t} = IF e[1] = t THEN A \cup {l + 1} ELSE A
    BY <1>1, <1>2, <1>3, <1>5
  <1>7. Cardinality(A \cup {l + 1}) = Cardinality(A) + 1 BY <1>4, FS_AddElement
  <1>8. FoldsIn(u, t) = Cardinality({n \in 1 .. l + 1 : u[n][1] = t}) BY <1>1, <1>2 DEF FoldsIn
  <1>9. FoldsIn(s, t) = Cardinality(A) BY <1>2, <1>3 DEF FoldsIn
  <1> QED BY <1>1, <1>6, <1>7, <1>8, <1>9

LEMMA MergeKeeps ==
  ASSUME AdapterInv, NEW name \in Attached, Merge(name)
  PROVE  AdapterInv'
  <1> SUFFICES ASSUME ~mixed'
               PROVE  /\ AdapterTypes' /\ (\A m \in handle' : Alike(m)') /\ Obeyed' /\ FoldedEvenly'
    BY DEF AdapterInv
  <1>1. ~mixed BY DEF Merge
  <1>2. AdapterTypes /\ (\A m \in handle : Alike(m)) /\ Obeyed /\ FoldedEvenly BY <1>1 DEF AdapterInv
  <1>3. name \in Tenants /\ handle # {} /\ handle = Targets[name]
        /\ \A m \in handle : name \in layer[m].adapters
    BY <1>2, AttachedIs
  <1>4. {m \in handle : name \notin layer[m].adapters} = {} BY <1>3
  <1>5. {m \in handle : \A k \in {x \in handle : name \notin layer[x].adapters} : m < k} = handle
    BY <1>4
  <1>6. /\ folded' = [m \in Modules |-> IF m \in handle
                         THEN Append(folded[m], <<name, layer[m].scale>>) ELSE folded[m]]
        /\ layer' = [m \in Modules |-> IF m \notin handle THEN layer[m]
                        ELSE [layer[m] EXCEPT !.adapters = layer[m].adapters \ {name},
                                              !.active = Base, !.rows = <<>>]]
        /\ wanted' = IF Held # {} THEN Nobody ELSE wanted
        /\ wrapped' = wrapped /\ handle' = handle
    BY <1>4, <1>5 DEF Merge
  <1>7. ASSUME NEW m \in handle
        PROVE  /\ layer'[m] \in Layers /\ layer'[m].scale = layer[m].scale
               /\ layer'[m].adapters = layer[m].adapters \ {name}
               /\ layer'[m].active = Base /\ layer'[m].rows = <<>>
    <2>1. PICK base \in Layers : base = layer[m] BY <1>2 DEF AdapterTypes
    <2>2. base = [adapters |-> base.adapters, scale |-> base.scale,
                  active |-> base.active, rows |-> base.rows] BY DEF Layers
    <2>3. layer'[m] = [base EXCEPT !.adapters = base.adapters \ {name}, !.active = Base, !.rows = <<>>]
      BY <1>2, <1>6, <2>1 DEF AdapterTypes
    <2>4. layer'[m] = [adapters |-> base.adapters \ {name}, scale |-> base.scale,
                       active |-> Base, rows |-> <<>>] BY <2>2, <2>3
    <2> QED BY <2>1, <2>4 DEF Layers, Names, Rowings
  <1>8. AdapterTypes'
    <2>1. layer' \in [Modules -> Layers] BY <1>2, <1>6, <1>7 DEF AdapterTypes
    <2>2. \A m \in Modules : folded'[m] \in Seq(Tenants \X Factors)
      <3>1. ASSUME NEW m \in handle PROVE Append(folded[m], <<name, layer[m].scale>>) \in Seq(Tenants \X Factors)
        <4>1. layer[m] \in Layers /\ folded[m] \in Seq(Tenants \X Factors) BY <1>2 DEF AdapterTypes
        <4>2. <<name, layer[m].scale>> \in Tenants \X Factors BY <1>3, <4>1 DEF Layers
        <4> QED BY <4>1, <4>2, AppendProperties
      <3> QED BY <1>2, <1>6, <3>1 DEF AdapterTypes
    <2>3. Nobody \in [1 .. NRows -> Names] BY DEF Nobody, Names
    <2> QED BY <1>2, <1>6, <2>1, <2>2, <2>3 DEF AdapterTypes
  <1>9. ASSUME NEW m \in handle PROVE Alike(m)'
    <2>1. Alike(m) BY <1>2
    <2>2. PICK known \in SUBSET Tenants : known = layer[m].adapters
      <3>1. layer[m] \in Layers BY <1>2 DEF AdapterTypes
      <3> QED BY <3>1 DEF Layers
    <2>3. \A k \in handle : layer'[k].adapters = known \ {name} BY <1>7, <2>1, <2>2 DEF Alike
    <2>4. \A t \in known \ {name} : Targets[t] = handle /\ Scale[t] = layer[m].scale
      BY <2>1, <2>2 DEF Alike
    <2>5. layer'[m].active = Base /\ layer'[m].rows = <<>> /\ layer'[m].scale = layer[m].scale BY <1>7
    <2>6. handle' = handle BY <1>6
    <2> QED BY <2>3, <2>4, <2>5, <2>6 DEF Alike
  <1>10. Obeyed'
    <2>1. Held = wrapped BY <1>2 DEF Held, AdapterTypes
    <2>2. CASE wrapped = {} BY <1>2, <1>6, <2>1, <2>2 DEF Obeyed
    <2>3. CASE wrapped # {} BY <1>2, <1>6, <1>7, <2>1, <2>3 DEF Obeyed, AdapterTypes, ChosenIn, Nobody
    <2> QED BY <2>2, <2>3
  <1>11. ASSUME NEW t \in Tenants, NEW m \in Modules
         PROVE  Folds(t, m)' = Folds(t, m) + IF t = name /\ m \in handle THEN 1 ELSE 0
    <2>1. PICK s \in Seq(Tenants \X Factors) : s = folded[m] BY <1>2 DEF AdapterTypes
    <2>2. Folds(t, m) \in Nat
      <3>1. PICK l \in Nat : l = Len(s) BY LenProperties
      <3>2. IsFiniteSet(1 .. l) BY FS_Interval
      <3>3. IsFiniteSet({n \in 1 .. l : s[n][1] = t}) BY <3>2, FS_Subset
      <3> QED BY <2>1, <3>1, <3>3, FS_CardinalityType DEF Folds
    <2>3. CASE m \in handle
      <3>1. PICK e \in Tenants \X Factors : e = <<name, layer[m].scale>> /\ e[1] = name
        <4>1. layer[m] \in Layers BY <1>2 DEF AdapterTypes
        <4>2. PICK x \in Factors : x = layer[m].scale BY <4>1 DEF Layers
        <4>3. <<name, x>> \in Tenants \X Factors /\ <<name, x>>[1] = name BY <1>3
        <4> QED BY <4>2, <4>3
      <3>2. folded'[m] = Append(s, e) BY <1>6, <2>1, <2>3, <3>1
      <3>3. Folds(t, m)' = FoldsIn(Append(s, e), t) BY <3>2 DEF Folds, FoldsIn
      <3>4. Folds(t, m) = FoldsIn(s, t) BY <2>1 DEF Folds, FoldsIn
      <3>5. Folds(t, m)' = IF e[1] = t THEN Folds(t, m) + 1 ELSE Folds(t, m)
        BY <3>3, <3>4, FoldsMore
      <3>6. CASE t = name BY <2>3, <3>1, <3>5, <3>6
      <3>7. CASE t # name BY <2>3, <3>1, <3>5, <3>7, <2>2
      <3> QED BY <3>6, <3>7
    <2>4. CASE m \notin handle
      <3>1. folded'[m] = s BY <1>6, <2>1, <2>4
      <3>2. Folds(t, m)' = Folds(t, m) BY <2>1, <3>1 DEF Folds
      <3> QED BY <2>4, <2>2, <3>2
    <2> QED BY <2>3, <2>4
  <1>12. FoldedEvenly'
    <2>1. ASSUME NEW t \in Tenants
          PROVE  /\ \A m \in Modules \ Targets[t] : Folds(t, m)' = 0
                 /\ \A m, k \in Targets[t] : Folds(t, m)' = Folds(t, k)'
      <3>1. Targets[t] \subseteq Modules BY AdapterAssumption
      <3>2. /\ \A m \in Modules \ Targets[t] : Folds(t, m) = 0
            /\ \A m, k \in Targets[t] : Folds(t, m) = Folds(t, k)
        BY <1>2 DEF FoldedEvenly
      <3> QED BY <1>3, <1>11, <3>1, <3>2
    <2> QED BY <2>1 DEF FoldedEvenly
  <1> QED BY <1>6, <1>8, <1>9, <1>10, <1>12

LEMMA AdaptersStep == AdapterInv /\ [AdapterNext]_adapterVars => AdapterInv'
  <1> SUFFICES ASSUME AdapterInv, [AdapterNext]_adapterVars PROVE AdapterInv'
    OBVIOUS
  <1>1. ASSUME NEW n \in 1 .. 2, NEW list \in [1 .. n -> Tenants], Attach(list) PROVE AdapterInv'
    BY <1>1, AttachKeeps
  <1>2. CASE Detach
    <2>1. /\ wrapped' = {} /\ wanted' = Nobody /\ layer' = layer /\ handle' = handle
          /\ folded' = folded /\ mixed' = mixed
      BY <1>2 DEF Detach
    <2>2. SUFFICES ASSUME ~mixed
                   PROVE  AdapterTypes' /\ (\A m \in handle' : Alike(m)') /\ Obeyed' /\ FoldedEvenly'
      BY <2>1 DEF AdapterInv
    <2>3. AdapterTypes /\ (\A m \in handle : Alike(m)) /\ FoldedEvenly BY <2>2 DEF AdapterInv
    <2>4. AdapterTypes' BY <2>1, <2>3 DEF AdapterTypes, Nobody, Names
    <2>5. \A m \in handle' : Alike(m)' BY <2>1, <2>3 DEF Alike
    <2>6. Obeyed' BY <2>1 DEF Obeyed, Nobody
    <2>7. FoldedEvenly' BY <2>1, <2>3, FoldedStay
    <2> QED BY <2>4, <2>5, <2>6, <2>7
  <1>3. ASSUME NEW name \in Attached \cup {Base}, SetActive(name) PROVE AdapterInv'
    <2>1. SUFFICES ASSUME ~mixed' PROVE AdapterInv'
      BY DEF AdapterInv
    <2>2. AdapterTypes /\ \A m \in handle : Alike(m) BY <1>3, <2>1 DEF AdapterInv, SetActive
    <2>3. name \in Names /\ \A m \in handle : name \in layer[m].adapters \cup {Base}
      BY <2>2, AttachedIs DEF Names
    <2>4. <<>> \in Rowings BY DEF Rowings
    <2>5. wanted' \in [1 .. NRows -> Names] BY <1>3, <2>2, <2>3 DEF SetActive, AdapterTypes
    <2> QED BY <1>3, <2>3, <2>4, <2>5, ChoiceKeeps DEF SetActive
  <1>4. ASSUME NEW names \in [1 .. NRows -> Attached \cup {Base}], SetRowAdapters(names)
        PROVE  AdapterInv'
    <2>1. SUFFICES ASSUME ~mixed' PROVE AdapterInv'
      BY DEF AdapterInv
    <2>2. AdapterTypes /\ \A m \in handle : Alike(m) BY <1>4, <2>1 DEF AdapterInv, SetRowAdapters
    <2>3. \A i \in 1 .. NRows : /\ names[i] \in Names
                                /\ \A m \in handle : names[i] \in layer[m].adapters \cup {Base}
      BY <2>2, AttachedIs DEF Names
    <2>4. names \in Rowings /\ names \in [1 .. NRows -> Names] BY <2>3 DEF Rowings
    <2>5. Base \in Names BY DEF Names
    <2>6. wanted' \in [1 .. NRows -> Names] BY <1>4, <2>2, <2>4 DEF SetRowAdapters, AdapterTypes
    <2>7. names = <<>> => \A i \in 1 .. NRows : FALSE
      <3>1. ASSUME names = <<>>, NEW i \in 1 .. NRows PROVE FALSE
        <4>1. DOMAIN names = 1 .. NRows OBVIOUS
        <4>2. DOMAIN names = {} BY <3>1
        <4> QED BY <3>1, <4>1, <4>2
      <3> QED BY <3>1
    <2>8. Held # {} => \A i \in 1 .. NRows : wanted'[i] = IF names = <<>> THEN Base ELSE names[i]
      BY <1>4, <2>7 DEF SetRowAdapters
    <2> QED BY <1>4, <2>3, <2>4, <2>5, <2>6, <2>8, ChoiceKeeps DEF SetRowAdapters
  <1>5. ASSUME NEW name \in Attached, Merge(name) PROVE AdapterInv' BY <1>5, MergeKeeps
  <1>6. CASE UNCHANGED adapterVars
    <2>1. UNCHANGED <<wrapped, layer, handle, folded, wanted, mixed>> BY <1>6 DEF adapterVars
    <2>2. FoldedEvenly => FoldedEvenly' BY <2>1, FoldedStay
    <2> QED BY <2>1, <2>2 DEF AdapterInv, AdapterTypes, Alike, Obeyed
  <1> QED BY <1>1, <1>2, <1>3, <1>4, <1>5, <1>6 DEF AdapterNext

LEMMA AdaptersServe == AdapterInv => RowsServedRight
  <1> SUFFICES ASSUME AdapterInv, ~mixed
               PROVE  /\ \A m \in wrapped, i \in 1 .. NRows :
                             Applied(m, i) = IF wanted[i] = Base THEN {}
                                             ELSE {<<wanted[i], Scale[wanted[i]]>>}
                      /\ \A t \in Tenants, m \in Modules :
                             Folds(t, m) = IF m \in Targets[t] THEN Folds(t, Min(Targets[t])) ELSE 0
    BY DEF RowsServedRight
  <1>1. AdapterTypes /\ (\A m \in handle : Alike(m)) /\ Obeyed /\ FoldedEvenly BY DEF AdapterInv
  <1>2. ASSUME NEW m \in wrapped, NEW i \in 1 .. NRows
        PROVE  Applied(m, i) = IF wanted[i] = Base THEN {} ELSE {<<wanted[i], Scale[wanted[i]]>>}
    <2>1. m \in handle /\ Alike(m) BY <1>1 DEF AdapterTypes
    <2>2. ChosenIn(layer[m], i) = wanted[i] BY <1>1 DEF Obeyed
    <2>3. wanted[i] \in layer[m].adapters \cup {Base} BY <2>1, <2>2 DEF Alike, ChosenIn
    <2>4. wanted[i] # Base => Scale[wanted[i]] = layer[m].scale BY <2>1, <2>3 DEF Alike
    <2> QED BY <2>2, <2>3, <2>4 DEF Applied, ChosenIn
  <1>3. ASSUME NEW t \in Tenants PROVE Min(Targets[t]) \in Targets[t]
    <2>1. PICK S \in SUBSET Nat : S = Targets[t] /\ S # {}
      <3>1. Targets[t] \subseteq Modules /\ Targets[t] # {} BY AdapterAssumption
      <3>2. Modules \subseteq Nat BY DEF Modules
      <3> QED BY <3>1, <3>2
    <2>2. \E n \in S : \A m \in S : n <= m BY <2>1, LeastNumber
    <2>3. Min(S) \in S BY <2>2 DEF Min
    <2> QED BY <2>1, <2>3
  <1>4. ASSUME NEW t \in Tenants, NEW m \in Modules
        PROVE  Folds(t, m) = IF m \in Targets[t] THEN Folds(t, Min(Targets[t])) ELSE 0
    BY <1>1, <1>3 DEF FoldedEvenly
  <1> QED BY <1>2, <1>4

\* However adapters are attached, chosen, merged and detached: every row is
\* served with the delta it was meant for, and what is merged is merged whole.
THEOREM AdaptersServeRight == AdapterInit /\ [][AdapterNext]_adapterVars => []RowsServedRight
  <1>1. AdapterInit => AdapterInv
    <2> SUFFICES ASSUME AdapterInit PROVE AdapterInv
      OBVIOUS
    <2>1. /\ wrapped = {} /\ handle = {} /\ layer = [m \in Modules |-> Plain]
          /\ folded = [m \in Modules |-> <<>>] /\ wanted = Nobody
      BY DEF AdapterInit
    <2>2. Plain \in Layers BY DEF Plain, Layers, Factors, Names, Rowings
    <2>3. <<>> \in Seq(Tenants \X Factors) BY EmptySeq
    <2>4. AdapterTypes BY <2>1, <2>2, <2>3 DEF AdapterTypes, Nobody, Names
    <2>5. \A t \in Tenants, m \in Modules : Folds(t, m) = 0
      <3>1. {n \in 1 .. Len(<<>>) : <<>>[n][1] = Base} = {} BY EmptySeq
      <3>2. ASSUME NEW t \in Tenants, NEW m \in Modules PROVE Folds(t, m) = 0
        <4>1. Len(folded[m]) = 0 BY <2>1, EmptySeq
        <4>2. {n \in 1 .. Len(folded[m]) : folded[m][n][1] = t} = {} BY <4>1
        <4> QED BY <4>2, FS_EmptySet DEF Folds
      <3> QED BY <3>2
    <2>6. FoldedEvenly
      <3>1. \A t \in Tenants : Targets[t] \subseteq Modules BY AdapterAssumption
      <3> QED BY <2>5, <3>1 DEF FoldedEvenly
    <2>7. Obeyed BY <2>1 DEF Obeyed, Nobody
    <2> QED BY <2>1, <2>4, <2>6, <2>7 DEF AdapterInv
  <1> QED BY <1>1, AdaptersStep, AdaptersServe, PTL

--------------------------------------------------------------------------------
(* The results in the book, and what their stamps stand for. *)

\* What the work list of engine_sources takes in, round by round.
LEMMA SourcesGrow ==
  ASSUME NEW e \in Engines
  PROVE  \E within \in [Nat -> SUBSET Engines] :
             /\ within[0] = {e}
             /\ \A n \in Nat : within[n + 1] = within[n] \cup UNION {Inner[x] : x \in within[n]}
             /\ engine_sources(e) = UNION {Mro[x] : x \in within[Cardinality(Engines)]}
  <1> DEFINE Wider(g, n) == IF n = 0 THEN {e} ELSE g[n - 1] \cup UNION {Inner[x] : x \in g[n - 1]}
             mine == CHOOSE g : g = [n \in Nat |-> Wider(g, n)]
  <1>1. Inner \in [Engines -> SUBSET Engines] BY ResultsAssumption
  <1>2. PICK step : step = [S \in SUBSET Engines |-> S \cup UNION {Inner[x] : x \in S}] OBVIOUS
  <1>3. step \in [SUBSET Engines -> SUBSET Engines] BY <1>1, <1>2
  <1>4. PICK f \in [Nat -> SUBSET Engines] :
            \A n \in Nat : f[n] = IF n = 0 THEN {e} ELSE step[f[n - 1]]
    <2>1. PICK V, base : V = SUBSET Engines /\ base = {e} OBVIOUS
    <2>2. base \in V /\ step \in [V -> V] BY <1>3, <2>1
    <2>3. \E f \in [Nat -> V] : \A n \in Nat : f[n] = IF n = 0 THEN base ELSE step[f[n - 1]]
      BY <2>2, RecursionDefines
    <2> QED BY <2>1, <2>3
  <1>5. ASSUME NEW n \in Nat PROVE f[n] = Wider(f, n)
    <2>1. CASE n = 0 BY <1>4, <2>1
    <2>2. CASE n # 0
      <3>1. n - 1 \in Nat BY <2>2
      <3>2. f[n] = step[f[n - 1]] BY <1>4, <2>2
      <3> QED BY <1>2, <1>4, <2>2, <3>1, <3>2
    <2> QED BY <2>1, <2>2
  <1>6. f = [n \in Nat |-> Wider(f, n)]
    <2>1. f = [n \in Nat |-> f[n]] BY <1>4
    <2> HIDE DEF Wider
    <2> QED BY <1>5, <2>1
  <1>7. mine = [n \in Nat |-> Wider(mine, n)] BY <1>6
  <1>8. engine_sources(e) = UNION {Mro[x] : x \in mine[Cardinality(Engines)]} BY DEF engine_sources
  <1> HIDE DEF mine
  <1>9. PICK w : w = mine OBVIOUS
  <1>10. \A n \in Nat : w[n] = IF n = 0 THEN {e} ELSE w[n - 1] \cup UNION {Inner[x] : x \in w[n - 1]}
    BY <1>7, <1>9
  <1>11. w[0] = {e} BY <1>10
  <1>12. ASSUME NEW n \in Nat PROVE w[n + 1] = w[n] \cup UNION {Inner[x] : x \in w[n]}
    <2>1. PICK m \in Nat : m = n + 1 /\ m # 0 /\ m - 1 = n
      <3>1. n + 1 \in Nat /\ n + 1 # 0 /\ n + 1 - 1 = n OBVIOUS
      <3> QED BY <3>1
    <2> QED BY <1>10, <2>1
  <1>13. \A n \in Nat : w[n] \in SUBSET Engines
    <2>1. PICK T : T = {n \in Nat : w[n] \in SUBSET Engines} OBVIOUS
    <2>2. 0 \in T BY <1>11, <2>1
    <2>3. ASSUME NEW n \in Nat, n \in T PROVE n + 1 \in T
      <3>1. \A x \in w[n] : Inner[x] \in SUBSET Engines BY <1>1, <2>1, <2>3
      <3> QED BY <1>12, <2>1, <2>3, <3>1
    <2>4. Nat \subseteq T BY <2>2, <2>3, Induction
    <2> QED BY <2>1, <2>4
  <1>14. w = [n \in Nat |-> w[n]] BY <1>7, <1>9
  <1>15. w \in [Nat -> SUBSET Engines] BY <1>13, <1>14
  <1> QED BY <1>8, <1>9, <1>11, <1>12, <1>15

\* As many rounds as there are engines are enough: a round that adds none is the
\* last to change anything, and there are not engines for more of the others.
LEMMA SourcesSettle ==
  ASSUME NEW e \in Engines, NEW within \in [Nat -> SUBSET Engines], within[0] = {e},
         \A n \in Nat : within[n + 1] = within[n] \cup UNION {Inner[x] : x \in within[n]}
  PROVE  \A n \in Nat : within[n] \subseteq within[Cardinality(Engines)]
  <1>1. PICK m \in Nat : m = Cardinality(Engines) BY ResultsAssumption, FS_CardinalityType
  <1>2. ASSUME NEW n \in Nat
        PROVE  /\ IsFiniteSet(within[n]) /\ Cardinality(within[n]) \in Nat
               /\ Cardinality(within[n]) <= m
    BY <1>1, ResultsAssumption, FS_Subset, FS_CardinalityType
  <1>3. \A n \in Nat, l \in Nat : n <= l => within[n] \subseteq within[l]
    <2>1. TAKE n \in Nat
    <2>2. PICK T : T = {l \in Nat : n <= l => within[n] \subseteq within[l]} OBVIOUS
    <2>3. 0 \in T
      <3>1. n <= 0 => n = 0 OBVIOUS
      <3> QED BY <2>2, <3>1
    <2>4. ASSUME NEW l \in Nat, l \in T PROVE l + 1 \in T
      <3>1. PICK k \in Nat : k = l + 1 OBVIOUS
      <3>2. within[l] \subseteq within[k] BY <3>1
      <3>3. n <= k => n <= l \/ n = k BY <3>1
      <3>4. n <= l => within[n] \subseteq within[l] BY <2>2, <2>4
      <3>5. n <= k => within[n] \subseteq within[k] BY <3>2, <3>3, <3>4
      <3> QED BY <2>2, <3>1, <3>5
    <2>5. Nat \subseteq T BY <2>3, <2>4, Induction
    <2> QED BY <2>2, <2>5
  <1>4. \E j \in Nat : j <= m /\ within[j + 1] = within[j]
    <2>1. SUFFICES ASSUME \A j \in Nat : j <= m => within[j + 1] # within[j] PROVE FALSE
      OBVIOUS
    <2>2. PICK T : T = {k \in Nat : k <= m => Cardinality(within[k]) >= k + 1} OBVIOUS
    <2>3. 0 \in T
      <3>1. Cardinality(within[0]) = 1 BY FS_Singleton
      <3>2. PICK c : c = [k \in Nat |-> Cardinality(within[k])] OBVIOUS
      <3>3. c[0] = 1 /\ T = {k \in Nat : k <= m => c[k] >= k + 1} BY <2>2, <3>1, <3>2
      <3> QED BY <3>3
    <2>4. ASSUME NEW k \in Nat, k \in T PROVE k + 1 \in T
      <3>1. SUFFICES ASSUME k + 1 <= m PROVE Cardinality(within[k + 1]) >= k + 1 + 1
        BY <2>2
      <3>2. k <= m /\ k + 1 \in Nat BY <3>1
      <3>3. within[k + 1] # within[k] BY <2>1, <3>2
      <3>4. within[k] \in SUBSET within[k + 1] BY <1>3, <3>2
      <3>5. /\ Cardinality(within[k]) <= Cardinality(within[k + 1])
            /\ Cardinality(within[k + 1]) # Cardinality(within[k])
        BY <1>2, <3>2, <3>3, <3>4, FS_Subset
      <3>6. Cardinality(within[k]) >= k + 1 BY <2>2, <2>4, <3>2
      <3>7. Cardinality(within[k]) \in Nat /\ Cardinality(within[k + 1]) \in Nat BY <1>2, <3>2
      <3> QED BY <3>5, <3>6, <3>7
    <2>5. Nat \subseteq T BY <2>3, <2>4, Induction
    <2>6. Cardinality(within[m]) >= m + 1 BY <2>2, <2>5
    <2>7. Cardinality(within[m]) \in Nat /\ Cardinality(within[m]) <= m BY <1>2
    <2> QED BY <2>6, <2>7
  <1>5. PICK j \in Nat : j <= m /\ within[j + 1] = within[j] BY <1>4
  <1>6. \A n \in Nat : j <= n => within[n] = within[j]
    <2>1. PICK T : T = {n \in Nat : j <= n => within[n] = within[j]} OBVIOUS
    <2>2. 0 \in T
      <3>1. j <= 0 => j = 0 OBVIOUS
      <3> QED BY <2>1, <3>1
    <2>3. ASSUME NEW n \in Nat, n \in T PROVE n + 1 \in T
      <3>1. CASE j <= n
        <4>1. within[n] = within[j] BY <2>1, <2>3, <3>1
        <4>2. within[n + 1] = within[j + 1]
          <5>1. PICK S : S = within[j] OBVIOUS
          <5>2. within[j + 1] = S \cup UNION {Inner[x] : x \in S} BY <5>1
          <5>3. within[n + 1] = S \cup UNION {Inner[x] : x \in S} BY <4>1, <5>1
          <5> QED BY <5>2, <5>3
        <4>3. PICK k \in Nat : k = n + 1 OBVIOUS
        <4>4. within[k] = within[j] BY <1>5, <4>2, <4>3
        <4> QED BY <2>1, <4>3, <4>4
      <3>2. CASE ~(j <= n)
        <4>1. j <= n + 1 => j = n + 1 BY <3>2
        <4> QED BY <2>1, <4>1
      <3> QED BY <3>1, <3>2
    <2>4. Nat \subseteq T BY <2>2, <2>3, Induction
    <2> QED BY <2>1, <2>4
  <1>7. ASSUME NEW n \in Nat PROVE within[n] \subseteq within[m]
    <2>1. CASE n <= m BY <1>3, <2>1
    <2>2. CASE ~(n <= m)
      <3>1. j <= n /\ j <= m BY <1>5, <2>2
      <3> QED BY <1>6, <3>1
    <2> QED BY <2>1, <2>2
  <1> QED BY <1>1, <1>7

\* As Governs, of chains of any length: an engine may come up in one again.
Reaches(e, f) == \E n \in Nat \ {0} : \E chain \in [1 .. n -> Engines] :
                     /\ chain[1] = e /\ f \in Mro[chain[n]] \cup Core
                     /\ \A k \in 2 .. n : chain[k] \in Inner[chain[k - 1]]

\* Whatever an engine further along a chain inherits from is hashed.
LEMMA ReachedIsHashed ==
  ASSUME NEW e \in Engines, NEW f, Reaches(e, f)
  PROVE  f \in Core \cup engine_sources(e)
  <1>1. PICK within \in [Nat -> SUBSET Engines] :
            /\ within[0] = {e}
            /\ \A n \in Nat : within[n + 1] = within[n] \cup UNION {Inner[x] : x \in within[n]}
            /\ engine_sources(e) = UNION {Mro[x] : x \in within[Cardinality(Engines)]}
    BY SourcesGrow
  <1>2. PICK n \in Nat \ {0} : \E chain \in [1 .. n -> Engines] :
            /\ chain[1] = e /\ f \in Mro[chain[n]] \cup Core
            /\ \A k \in 2 .. n : chain[k] \in Inner[chain[k - 1]]
    BY DEF Reaches
  <1>3. PICK chain \in [1 .. n -> Engines] :
            /\ chain[1] = e /\ f \in Mro[chain[n]] \cup Core
            /\ \A k \in 2 .. n : chain[k] \in Inner[chain[k - 1]]
    BY <1>2
  <1>4. PICK T : T = {k \in Nat : k + 1 <= n => chain[k + 1] \in within[k]} OBVIOUS
  <1>5. 0 \in T BY <1>1, <1>3, <1>4
  <1>6. ASSUME NEW k \in Nat, k \in T PROVE k + 1 \in T
    <2>1. SUFFICES ASSUME k + 1 + 1 <= n PROVE chain[k + 1 + 1] \in within[k + 1]
      BY <1>4
    <2>2. chain[k + 1] \in within[k]
      <3>1. k + 1 <= n BY <2>1
      <3> QED BY <1>4, <1>6, <3>1
    <2>3. chain[k + 1 + 1] \in Inner[chain[k + 1]]
      <3>1. k + 1 + 1 \in 2 .. n /\ k + 1 + 1 - 1 = k + 1 BY <2>1
      <3> QED BY <1>3, <3>1
    <2>4. PICK x, y : x = chain[k + 1] /\ y = chain[k + 1 + 1] OBVIOUS
    <2>5. x \in within[k] /\ y \in Inner[x] BY <2>2, <2>3, <2>4
    <2>6. y \in within[k + 1] BY <1>1, <2>5
    <2> QED BY <2>4, <2>6
  <1>7. Nat \subseteq T BY <1>5, <1>6, Induction
  <1>8. PICK k \in Nat : k + 1 = n
    <2>1. n - 1 \in Nat /\ n - 1 + 1 = n OBVIOUS
    <2> QED BY <2>1
  <1>9. chain[n] \in within[k] BY <1>4, <1>7, <1>8
  <1>10. within[k] \subseteq within[Cardinality(Engines)] BY <1>1, SourcesSettle
  <1>11. f \in Mro[chain[n]] => f \in engine_sources(e) BY <1>1, <1>9, <1>10
  <1> QED BY <1>3, <1>11

\* A result on disk has hashed what its sources say, and those are the files
\* that code_sources names for its engine.
Hashed == \A e \in Engines : results[e] # NoResult =>
    results[e].sources = code_sources(e) /\ DOMAIN results[e].stamp = Core \cup code_sources(e)

LEMMA HashedIsKept == Hashed /\ results \in [Engines -> Range(results)] /\ [ResultsNext]_resultsVars =>
                          Hashed' /\ results' \in [Engines -> Range(results')]
  <1> SUFFICES ASSUME Hashed, DOMAIN results = Engines, results = [e \in Engines |-> results[e]],
                      [ResultsNext]_resultsVars
               PROVE  Hashed' /\ results' = [e \in Engines |-> results'[e]]
    BY DEF Range
  <1>1. CASE UNCHANGED results BY <1>1 DEF Hashed, code_sources, engine_sources
  <1>2. CASE FinishBenchmark
    <2>1. results' = [results EXCEPT ![bench.engine] = Stamped(bench.engine)]
      BY <1>2 DEF FinishBenchmark
    <2>2. results' = [e \in Engines |-> IF e = bench.engine THEN Stamped(e) ELSE results[e]]
      BY <2>1
    <2>3. ASSUME NEW e \in Engines, results'[e] # NoResult
          PROVE  /\ results'[e].sources = code_sources(e)
                 /\ DOMAIN results'[e].stamp = Core \cup code_sources(e)
      <3>1. CASE e # bench.engine BY <2>2, <2>3, <3>1 DEF Hashed
      <3>2. CASE e = bench.engine
        <4>1. results'[e] = Stamped(e) BY <2>2, <3>2
        <4> QED BY <4>1 DEF Stamped, code_fingerprint
      <3> QED BY <3>1, <3>2
    <2>4. Hashed' BY <2>3 DEF Hashed, code_sources, engine_sources
    <2> QED BY <2>2, <2>4
  <1>3. ASSUME NEW d, DeleteResult(d) PROVE Hashed' /\ results' = [e \in Engines |-> results'[e]]
    <2>1. results' = [e \in Engines |-> IF e = d THEN NoResult ELSE results[e]]
      BY <1>3 DEF DeleteResult
    <2>2. ASSUME NEW e \in Engines, results'[e] # NoResult
          PROVE  /\ results'[e].sources = code_sources(e)
                 /\ DOMAIN results'[e].stamp = Core \cup code_sources(e)
      BY <2>1, <2>2 DEF Hashed
    <2>3. Hashed' BY <2>2 DEF Hashed, code_sources, engine_sources
    <2> QED BY <2>1, <2>3
  <1>4. CASE \E f \in SourceFiles : Edit(f) BY <1>1, <1>4 DEF Edit
  <1>5. ASSUME NEW e, StartBenchmark(e) PROVE UNCHANGED results BY <1>5 DEF StartBenchmark
  <1>6. CASE RenderScorecards BY <1>1, <1>6 DEF RenderScorecards
  <1>7. CASE UNCHANGED resultsVars BY <1>1, <1>7 DEF resultsVars
  <1> QED BY <1>1, <1>2, <1>3, <1>4, <1>5, <1>6, <1>7 DEF ResultsNext

\* engine_sources finds every file that an engine inherits from or that any
\* engine along a chain of them does, each run by the one before, however long
\* the chain and whether or not it turns in a circle: a result has them all in
\* its stamp, unless its runner lists files by hand.
StampsReach ==
    \A e \in Engines \ DOMAIN Listed : results[e] # NoResult =>
        \A f \in SourceFiles : Reaches(e, f) => f \in DOMAIN results[e].stamp

THEOREM StampsReachAll == ResultsInit /\ [][ResultsNext]_resultsVars => []StampsReach
  <1> DEFINE Kept == Hashed /\ results \in [Engines -> Range(results)]
  <1>1. ResultsInit => Kept
    <2> SUFFICES ASSUME ResultsInit PROVE Kept
      OBVIOUS
    <2>1. results = [e \in Engines |-> NoResult] BY DEF ResultsInit
    <2>2. Hashed BY <2>1 DEF Hashed
    <2>3. results \in [Engines -> Range(results)] BY <2>1 DEF Range
    <2> QED BY <2>2, <2>3
  <1>2. Kept /\ [ResultsNext]_resultsVars => Kept' BY HashedIsKept
  <1>3. Kept => StampsReach
    <2> SUFFICES ASSUME Kept, NEW e \in Engines \ DOMAIN Listed, results[e] # NoResult,
                        NEW f \in SourceFiles, Reaches(e, f)
                 PROVE  f \in DOMAIN results[e].stamp
      BY DEF StampsReach
    <2>1. f \in Core \cup engine_sources(e) BY ReachedIsHashed
    <2>2. code_sources(e) = engine_sources(e) BY DEF code_sources
    <2> QED BY <2>1, <2>2 DEF Hashed
  <1> HIDE DEF Kept
  <1> QED BY <1>1, <1>2, <1>3, PTL

================================================================================

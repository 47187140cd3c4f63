----------------------------- MODULE PrefixProofs ------------------------------
(***************************************************************************)
(* The pool under sharing is exact, the cache is honest and every sequence *)
(* reads its own context, for every pool, batch and set of requests.       *)
(*                                                                         *)
(* The first half is about what the operations of PrefixEngine keep of its *)
(* memory: counts are exact, and every block holds what it is filed under, *)
(* in the cache and in the tables.  It does not depend on where step() is, *)
(* so the engines built on PrefixEngine use those lemmas as they are.      *)
(***************************************************************************)
EXTENDS PrefixEngine, PagedProofs

--------------------------------------------------------------------------------
(* The invariant of the memory. *)

Entry == [key : Seq(Vocab), block : Blocks]

Holders(b) == {r \in Requests : b \in Range(block_table[r])}

\* How many of its tokens have their KV in the table of r: what it shares, until
\* its own are stored.
Held(r) == IF stored[r] > 0 THEN stored[r] ELSE Len(block_table[r]) * BlockSize

\* What the i-th block of r should hold when n of its tokens are stored.
Context(r, n, i) == IF (i - 1) * BlockSize < n
                    THEN SubSeq(AllTokens(r), 1, Min({i * BlockSize, n})) ELSE <<>>

\* The content of a block that will not be written any more.
Full(content) == content # <<>> /\ \E n \in Nat : Len(content) = n * BlockSize

MemoryTypes ==
    /\ free \subseteq Blocks /\ refcount \in [Blocks -> Nat]
    /\ block_table \in [Requests -> Seq(Blocks)]
    /\ stored \in [Requests -> Nat]
    /\ output_token_ids \in [Requests -> Seq(Vocab)]
    /\ entries \in Seq(Entry)
    /\ kv \in [Blocks -> Seq(Vocab)]

CountsHold == \A b \in Blocks :
    /\ IsFiniteSet(Holders(b))
    /\ refcount[b] = Cardinality(Holders(b)) + IF b \in CachedBlocks THEN 1 ELSE 0
    /\ b \in free <=> refcount[b] = 0

TablesOnce == \A r \in Requests : \A i, j \in 1 .. Len(block_table[r]) :
                  block_table[r][i] = block_table[r][j] => i = j

EntriesOnce == \A i, j \in 1 .. Len(entries) :
    entries[i].key = entries[j].key \/ entries[i].block = entries[j].block => i = j

Honest == \A e \in Range(entries) : kv[e.block] = e.key /\ Full(e.key)

FreeClear == \A b \in free : kv[b] = <<>>

\* Only blocks that nobody writes any more have two holders.
SharedFull == \A b \in Blocks : refcount[b] > 1 => Full(kv[b])

Filed(r) == /\ Held(r) <= TotalLen(r) /\ BlocksNeeded(Held(r)) <= Len(block_table[r])
            /\ \A i \in 1 .. Len(block_table[r]) :
                   kv[block_table[r][i]] = Context(r, Held(r), i)

TablesFiled == \A r \in Requests : Filed(r)

MemInv == /\ MemoryTypes /\ CountsHold /\ TablesOnce /\ EntriesOnce
          /\ Honest /\ FreeClear /\ SharedFull /\ TablesFiled

--------------------------------------------------------------------------------
(* Arithmetic of blocks. *)

\* A block has room for at least one token.
LEMMA BlockSizes == BlockSize \in Nat /\ BlockSize > 0
  BY PoolAssumption

\* Whole blocks.
LEMMA WholeBlocks ==
  \A i, j \in Nat : /\ i * BlockSize \in Nat
                    /\ (i + 1) * BlockSize = i * BlockSize + BlockSize
                    /\ i < j => i * BlockSize + BlockSize <= j * BlockSize
                    /\ i <= j => i * BlockSize <= j * BlockSize
                    /\ i * BlockSize = 0 => i = 0
  <1> SUFFICES ASSUME NEW i \in Nat, NEW j \in Nat
               PROVE  /\ i * BlockSize \in Nat
                      /\ (i + 1) * BlockSize = i * BlockSize + BlockSize
                      /\ i < j => i * BlockSize + BlockSize <= j * BlockSize
                      /\ i <= j => i * BlockSize <= j * BlockSize
                      /\ i * BlockSize = 0 => i = 0
    OBVIOUS
  <1>1. PICK b \in Nat : b = BlockSize /\ b > 0 BY BlockSizes
  <1>2. i * b \in Nat /\ (i + 1) * b = i * b + b OBVIOUS
  <1>3. ASSUME NEW d \in Nat PROVE d * b \in Nat /\ (i + 1 + d) * b = i * b + b + d * b OBVIOUS
  <1>4. ASSUME i < j PROVE i * b + b <= j * b
    <2>1. j - i - 1 \in Nat /\ i + 1 + (j - i - 1) = j BY <1>4
    <2>2. (j - i - 1) * b \in Nat /\ j * b = i * b + b + (j - i - 1) * b BY <1>3, <2>1
    <2>3. i * b \in Nat /\ j * b \in Nat OBVIOUS
    <2> QED BY <2>2, <2>3
  <1>5. ASSUME i <= j PROVE i * b <= j * b
    <2>1. CASE i = j BY <2>1, <1>2
    <2>2. CASE i < j
      <3>1. i * b + b <= j * b BY <2>2, <1>4
      <3>2. i * b \in Nat /\ j * b \in Nat OBVIOUS
      <3> QED BY <3>1, <3>2
    <2> QED BY <2>1, <2>2, <1>5
  <1>6. i * b = 0 => i = 0
    <2> SUFFICES ASSUME i * b = 0, i > 0 PROVE FALSE
      OBVIOUS
    <2>1. i - 1 \in Nat /\ i - 1 + 1 = i OBVIOUS
    <2>2. i * b = (i - 1) * b + b /\ (i - 1) * b \in Nat BY <2>1
    <2> QED BY <2>2, <1>1
  <1> QED BY <1>1, <1>2, <1>4, <1>5, <1>6

\* Division.
LEMMA Division ==
  ASSUME NEW n \in Nat
  PROVE  /\ n \div BlockSize \in Nat
         /\ (n \div BlockSize) * BlockSize <= n
         /\ n < (n \div BlockSize) * BlockSize + BlockSize
  <1>1. PICK b \in Nat : b = BlockSize /\ b > 0 BY BlockSizes
  <1>2. n \div b \in Nat BY <1>1
  <1>3. n = b * (n \div b) + (n % b) /\ n % b \in 0 .. b - 1 BY <1>1
  <1>4. b * (n \div b) = (n \div b) * b /\ (n \div b) * b \in Nat BY <1>2
  <1>5. (n \div b) * b <= n /\ n < (n \div b) * b + b BY <1>1, <1>3, <1>4
  <1> QED BY <1>1, <1>2, <1>5

\* The blocks that n tokens need are the least number with room for them.
LEMMA Rounding ==
  ASSUME NEW n \in Nat
  PROVE  /\ BlocksNeeded(n) \in Nat
         /\ n <= BlocksNeeded(n) * BlockSize
         /\ n > 0 => BlocksNeeded(n) > 0
         /\ BlocksNeeded(0) = 0
         /\ \A i \in Nat : i < BlocksNeeded(n) <=> i * BlockSize < n
  <1> DEFINE m == n + BlockSize - 1
             k == BlocksNeeded(n)
  <1>0. BlockSize \in Nat /\ BlockSize > 0 BY BlockSizes
  <1>1. m \in Nat BY <1>0
  <1>2. k = m \div BlockSize BY DEF BlocksNeeded
  <1> HIDE DEF k
  <1>3. k \in Nat /\ k * BlockSize <= m /\ m < k * BlockSize + BlockSize
    BY <1>1, <1>2, Division
  <1>4. k * BlockSize \in Nat BY <1>3, WholeBlocks
  <1>5. n <= k * BlockSize BY <1>0, <1>3, <1>4
  <1>6. k * BlockSize < n + BlockSize BY <1>0, <1>3, <1>4
  <1>7. n > 0 => k > 0
    <2> SUFFICES ASSUME n > 0, k = 0 PROVE FALSE BY <1>3
    <2>1. 0 * BlockSize = 0 BY <1>0
    <2> QED BY <2>1, <1>5
  <1>8. BlocksNeeded(0) = 0
    <2>1. 0 + BlockSize - 1 \in Nat BY <1>0
    <2>2. PICK q \in Nat : q = (0 + BlockSize - 1) \div BlockSize /\ q * BlockSize <= 0 + BlockSize - 1
      BY <2>1, Division
    <2>3. q = 0
      <3> SUFFICES ASSUME q > 0 PROVE FALSE BY <2>2
      <3>1. 0 < q => 0 * BlockSize + BlockSize <= q * BlockSize BY <2>2, WholeBlocks
      <3>2. 0 * BlockSize = 0 /\ q * BlockSize \in Nat BY <1>0, <2>2, WholeBlocks
      <3> QED BY <1>0, <2>2, <3>1, <3>2
    <2> QED BY <2>2, <2>3 DEF BlocksNeeded
  <1>9. ASSUME NEW i \in Nat PROVE i < k <=> i * BlockSize < n
    <2>1. i * BlockSize \in Nat BY WholeBlocks
    <2>2. i < k => i * BlockSize + BlockSize <= k * BlockSize BY <1>3, WholeBlocks
    <2>3. k <= i => k * BlockSize <= i * BlockSize BY <1>3, WholeBlocks
    <2> QED BY <1>0, <1>3, <1>4, <1>5, <1>6, <2>1, <2>2, <2>3
  <1> QED BY <1>3, <1>5, <1>7, <1>8, <1>9 DEF k

\* So many blocks hold so many times the tokens of one.
LEMMA RoundingWhole ==
  ASSUME NEW i \in Nat
  PROVE  BlocksNeeded(i * BlockSize) = i
  <1>1. i * BlockSize \in Nat BY WholeBlocks
  <1>2. PICK k \in Nat : k = BlocksNeeded(i * BlockSize) BY <1>1, Rounding
  <1>3. \A j \in Nat : j < k <=> j * BlockSize < i * BlockSize BY <1>1, <1>2, Rounding
  <1>4. ~(i < k) BY <1>1, <1>3
  <1>5. ~(k < i)
    <2> SUFFICES ASSUME k < i PROVE FALSE
      OBVIOUS
    <2>1. k * BlockSize + BlockSize <= i * BlockSize /\ k * BlockSize \in Nat BY <1>2, WholeBlocks
    <2>2. k * BlockSize < i * BlockSize BY <2>1, <1>1, BlockSizes
    <2> QED BY <1>2, <1>3, <2>2
  <1> QED BY <1>2, <1>4, <1>5

--------------------------------------------------------------------------------
(* Tokens, keys and contexts. *)

\* The tokens of a request and their number.
LEMMA TokensType ==
  ASSUME output_token_ids \in [Requests -> Seq(Vocab)], NEW r \in Requests
  PROVE  /\ AllTokens(r) \in Seq(Vocab) /\ Len(AllTokens(r)) = TotalLen(r)
         /\ TotalLen(r) \in Nat /\ TotalLen(r) > 0
  <1>1. Prompt[r] \in Seq(Vocab) /\ Prompt[r] # <<>> /\ output_token_ids[r] \in Seq(Vocab)
    BY EngineAssumption
  <1> DEFINE p == Prompt[r]
             o == output_token_ids[r]
  <1>2. p \in Seq(Vocab) /\ o \in Seq(Vocab) BY <1>1
  <1>3. Len(p) \in Nat \ {0} /\ Len(o) \in Nat BY <1>1, EmptySeq, LenProperties
  <1>4. AllTokens(r) = p \o o /\ TotalLen(r) = Len(p) + Len(o) BY DEF AllTokens, TotalLen
  <1> HIDE DEF p, o
  <1>5. p \o o \in Seq(Vocab) /\ Len(p \o o) = Len(p) + Len(o) BY <1>2, ConcatProperties
  <1> QED BY <1>3, <1>4, <1>5

\* Full blocks of a list of tokens, and their keys.
LEMMA KeyType ==
  ASSUME NEW tokens \in Seq(Vocab)
  PROVE  /\ FullBlocks(tokens) \in Nat
         /\ FullBlocks(tokens) * BlockSize <= Len(tokens)
         /\ \A i \in Nat : i <= FullBlocks(tokens) <=> i * BlockSize <= Len(tokens)
         /\ \A i \in 1 .. FullBlocks(tokens) :
                /\ Key(tokens, i) \in Seq(Vocab)
                /\ Len(Key(tokens, i)) = i * BlockSize
                /\ Full(Key(tokens, i))
         /\ \A i, j \in 1 .. FullBlocks(tokens) : Key(tokens, i) = Key(tokens, j) => i = j
  <1> DEFINE n == Len(tokens)
             k == FullBlocks(tokens)
  <1>0. BlockSize \in Nat /\ BlockSize > 0 /\ n \in Nat BY BlockSizes, LenProperties
  <1>1. k \in Nat /\ k * BlockSize <= n /\ n < k * BlockSize + BlockSize
    BY <1>0, Division DEF FullBlocks
  <1> HIDE DEF k
  <1>2. ASSUME NEW i \in Nat PROVE i <= k <=> i * BlockSize <= n
    <2>1. i * BlockSize \in Nat /\ k * BlockSize \in Nat BY <1>1, WholeBlocks
    <2>2. /\ i <= k => i * BlockSize <= k * BlockSize
          /\ k < i => k * BlockSize + BlockSize <= i * BlockSize BY <1>1, WholeBlocks
    <2> QED BY <1>0, <1>1, <2>1, <2>2
  <1>3. ASSUME NEW i \in 1 .. k
        PROVE  /\ Key(tokens, i) \in Seq(Vocab)
               /\ Len(Key(tokens, i)) = i * BlockSize
               /\ Full(Key(tokens, i))
    <2>1. i \in Nat /\ i * BlockSize \in Nat /\ i * BlockSize <= n
      <3>1. i \in Nat /\ i <= k BY <1>1
      <3> QED BY <3>1, <1>2, WholeBlocks
    <2>2. i * BlockSize \in 0 .. Len(tokens) BY <2>1
    <2>3. Key(tokens, i) \in Seq(Vocab) /\ Len(Key(tokens, i)) = i * BlockSize
      BY <2>2, Beginning DEF Key
    <2>4. i * BlockSize # 0 BY <2>1, WholeBlocks
    <2>5. Key(tokens, i) # <<>> BY <2>3, <2>4, EmptySeq
    <2> QED BY <2>1, <2>3, <2>5 DEF Full
  <1>4. ASSUME NEW i \in 1 .. k, NEW j \in 1 .. k, Key(tokens, i) = Key(tokens, j) PROVE i = j
    <2>1. i * BlockSize = j * BlockSize BY <1>3, <1>4
    <2>2. /\ i < j => i * BlockSize + BlockSize <= j * BlockSize
          /\ j < i => j * BlockSize + BlockSize <= i * BlockSize
          /\ i * BlockSize \in Nat
      <3>1. i \in Nat /\ j \in Nat BY <1>1
      <3> QED BY <3>1, WholeBlocks
    <2> QED BY <1>0, <1>1, <2>1, <2>2
  <1> QED BY <1>1, <1>2, <1>3, <1>4 DEF k

\* What the blocks of a request should hold.
LEMMA ContextType ==
  ASSUME output_token_ids \in [Requests -> Seq(Vocab)], NEW r \in Requests,
         NEW n \in Nat, n <= TotalLen(r), NEW i \in Nat, i > 0
  PROVE  /\ Context(r, n, i) \in Seq(Vocab)
         /\ i <= BlocksNeeded(n) =>
                Context(r, n, i) = SubSeq(AllTokens(r), 1, Min({i * BlockSize, n}))
         /\ i > BlocksNeeded(n) => Context(r, n, i) = <<>>
         /\ i * BlockSize <= n => Context(r, n, i) = Key(AllTokens(r), i)
         /\ (i - 1) * BlockSize < n /\ n < i * BlockSize =>
                Context(r, n, i) = SubSeq(AllTokens(r), 1, n) /\ Len(Context(r, n, i)) = n
  <1>1. /\ AllTokens(r) \in Seq(Vocab) /\ Len(AllTokens(r)) = TotalLen(r) /\ TotalLen(r) \in Nat
    BY TokensType
  <1>2. i - 1 \in Nat /\ i * BlockSize \in Nat /\ (i - 1) * BlockSize \in Nat
    <2>1. i - 1 \in Nat OBVIOUS
    <2> QED BY <2>1, WholeBlocks
  <1>3. i * BlockSize = (i - 1) * BlockSize + BlockSize /\ BlockSize \in Nat /\ BlockSize > 0
    <2>1. i - 1 + 1 = i BY <1>2
    <2> QED BY <1>2, <2>1, WholeBlocks, BlockSizes
  <1>4. i - 1 < BlocksNeeded(n) <=> (i - 1) * BlockSize < n BY <1>2, Rounding
  <1>5. Min({i * BlockSize, n}) = IF i * BlockSize <= n THEN i * BlockSize ELSE n
    BY <1>2, MinOfTwo
  <1>6. BlocksNeeded(n) \in Nat BY Rounding
  <1>7. i <= BlocksNeeded(n) <=> (i - 1) * BlockSize < n BY <1>4, <1>6
  <1>8. Min({i * BlockSize, n}) \in 0 .. Len(AllTokens(r)) BY <1>1, <1>2, <1>5
  <1>9. /\ SubSeq(AllTokens(r), 1, Min({i * BlockSize, n})) \in Seq(Vocab)
        /\ Len(SubSeq(AllTokens(r), 1, Min({i * BlockSize, n}))) = Min({i * BlockSize, n})
    BY <1>1, <1>8, Beginning
  <1>10. Context(r, n, i) = IF i <= BlocksNeeded(n)
                            THEN SubSeq(AllTokens(r), 1, Min({i * BlockSize, n})) ELSE <<>>
    BY <1>7 DEF Context
  <1>11. Context(r, n, i) \in Seq(Vocab) BY <1>9, <1>10, EmptySeq
  <1>12. i > BlocksNeeded(n) => Context(r, n, i) = <<>> BY <1>6, <1>10
  <1>13. ASSUME i * BlockSize <= n PROVE Context(r, n, i) = Key(AllTokens(r), i)
    <2>1. (i - 1) * BlockSize < n BY <1>13, <1>2, <1>3
    <2>2. Min({i * BlockSize, n}) = i * BlockSize BY <1>13, <1>5
    <2> QED BY <2>1, <2>2, <1>7, <1>10 DEF Key
  <1>14. ASSUME (i - 1) * BlockSize < n, n < i * BlockSize
         PROVE  Context(r, n, i) = SubSeq(AllTokens(r), 1, n) /\ Len(Context(r, n, i)) = n
    <2>1. Min({i * BlockSize, n}) = n BY <1>14, <1>2, <1>5
    <2> QED BY <1>14, <1>7, <1>9, <1>10, <2>1
  <1> QED BY <1>10, <1>11, <1>12, <1>13, <1>14

--------------------------------------------------------------------------------
(* Who holds a block. *)

\* What the invariant says of one block: whoever holds it counts, it is not
\* free, and with a second holder it is full.
LEMMA Holding ==
  ASSUME MemInv, NEW b \in Blocks
  PROVE  /\ refcount[b] \in Nat /\ Cardinality(Holders(b)) \in Nat
         /\ Holders(b) # {} \/ b \in CachedBlocks => refcount[b] > 0 /\ b \notin free
         /\ b \in free => Holders(b) = {} /\ b \notin CachedBlocks /\ kv[b] = <<>>
         /\ \A r \in Holders(b) : refcount[b] = 1 => Holders(b) = {r} /\ b \notin CachedBlocks
         /\ b \in CachedBlocks /\ refcount[b] = 1 => Holders(b) = {}
         /\ \A r \in Holders(b) : /\ b \in CachedBlocks => refcount[b] > 1
                                  /\ \A s \in Holders(b) : s # r => refcount[b] > 1
         /\ refcount[b] > 1 => Full(kv[b])
         /\ b \notin free /\ b \notin CachedBlocks => Holders(b) # {}
  <1> DEFINE H == Holders(b)
             c == Cardinality(H)
             n == refcount[b]
  <1>1. /\ IsFiniteSet(H) /\ n = c + IF b \in CachedBlocks THEN 1 ELSE 0
        /\ b \in free <=> n = 0
        /\ b \in free => kv[b] = <<>>
        /\ n > 1 => Full(kv[b])
    BY DEF MemInv, CountsHold, FreeClear, SharedFull
  <1> HIDE DEF H
  <1>2. c \in Nat /\ (c = 0 <=> H = {}) BY <1>1, FS_CardinalityType, FS_EmptySet
  <1>3. n \in Nat BY <1>1, <1>2
  <1>4. ASSUME NEW r \in H
        PROVE  /\ c > 0
               /\ c = 1 => H = {r}
               /\ \A s \in H : s # r => c > 1
    <2>1. IsFiniteSet(H \ {r}) /\ Cardinality(H \ {r}) = c - 1 BY <1>1, FS_RemoveElement
    <2>2. Cardinality(H \ {r}) = 0 <=> H \ {r} = {} BY <2>1, FS_EmptySet
    <2>3. Cardinality(H \ {r}) \in Nat BY <2>1, FS_CardinalityType
    <2>4. c > 0 BY <1>2, <2>1, <2>3
    <2>5. c = 1 => H \ {r} = {} BY <2>1, <2>2
    <2>6. \A s \in H : s # r => c # 1 BY <2>5
    <2> QED BY <1>2, <2>4, <2>5, <2>6
  <1> HIDE DEF c, n
  <1>5. ASSUME NEW r \in H
        PROVE  /\ n = 1 => H = {r} /\ b \notin CachedBlocks
               /\ b \in CachedBlocks => n > 1
               /\ \A s \in H : s # r => n > 1
    <2>1. /\ c > 0 /\ (c = 1 => H = {r}) /\ \A s \in H : s # r => c > 1 BY <1>4
    <2>2. n >= c /\ (b \in CachedBlocks => n = c + 1) /\ (b \notin CachedBlocks => n = c)
      BY <1>1, <1>2 DEF c, n, H
    <2> QED BY <1>2, <1>3, <2>1, <2>2
  <1>6. H # {} \/ b \in CachedBlocks => n > 0 /\ b \notin free
    BY <1>1, <1>2, <1>3 DEF c, n, H
  <1>7. b \in CachedBlocks /\ n = 1 => H = {}
    BY <1>5
  <1>8. b \notin free /\ b \notin CachedBlocks => H # {}
    BY <1>1, <1>2, <1>3 DEF c, n, H
  <1>9. /\ n \in Nat /\ c \in Nat
        /\ b \in free => H = {} /\ b \notin CachedBlocks
    BY <1>2, <1>3, <1>6
  <1> QED BY <1>1, <1>5, <1>6, <1>7, <1>8, <1>9 DEF H, c, n

\* The tables of MemInv, by position.
LEMMA TableType ==
  ASSUME MemInv, NEW r \in Requests
  PROVE  /\ block_table[r] \in Seq(Blocks) /\ Len(block_table[r]) \in Nat
         /\ Range(block_table[r]) \subseteq Blocks \ free
         /\ \A i \in 1 .. Len(block_table[r]) :
                /\ block_table[r][i] \in Blocks \ free
                /\ r \in Holders(block_table[r][i])
                /\ kv[block_table[r][i]] = Context(r, Held(r), i)
         /\ \A i, j \in 1 .. Len(block_table[r]) : block_table[r][i] = block_table[r][j] => i = j
         /\ stored[r] \in Nat /\ Held(r) \in Nat /\ Held(r) <= TotalLen(r)
         /\ BlocksNeeded(Held(r)) <= Len(block_table[r])
         /\ AllTokens(r) \in Seq(Vocab) /\ Len(AllTokens(r)) = TotalLen(r)
         /\ TotalLen(r) \in Nat /\ TotalLen(r) > 0
  <1>1. block_table[r] \in Seq(Blocks) /\ stored[r] \in Nat BY DEF MemInv, MemoryTypes
  <1>2. Len(block_table[r]) \in Nat BY <1>1, LenProperties
  <1>3. \A b : b \in Range(block_table[r]) <=> \E i \in 1 .. Len(block_table[r]) : block_table[r][i] = b
    BY <1>1, RangeMembers
  <1>4. Range(block_table[r]) \subseteq Blocks BY <1>1, RangeOfSeq
  <1>5. \A b \in Range(block_table[r]) : r \in Holders(b) BY DEF Holders
  <1>6. \A b \in Range(block_table[r]) : b \notin free BY <1>4, <1>5, Holding
  <1>7. Len(block_table[r]) * BlockSize \in Nat BY <1>2, WholeBlocks
  <1>8. Held(r) \in Nat BY <1>1, <1>7 DEF Held
  <1>9. Filed(r) BY DEF MemInv, TablesFiled
  <1>10. output_token_ids \in [Requests -> Seq(Vocab)] BY DEF MemInv, MemoryTypes
  <1>11. /\ AllTokens(r) \in Seq(Vocab) /\ Len(AllTokens(r)) = TotalLen(r)
         /\ TotalLen(r) \in Nat /\ TotalLen(r) > 0 BY <1>10, TokensType
  <1>12. \A i, j \in 1 .. Len(block_table[r]) : block_table[r][i] = block_table[r][j] => i = j
    BY DEF MemInv, TablesOnce
  <1>13. \A i \in 1 .. Len(block_table[r]) :
             /\ block_table[r][i] \in Blocks \ free
             /\ r \in Holders(block_table[r][i])
    BY <1>3, <1>4, <1>5, <1>6
  <1>14. /\ Held(r) <= TotalLen(r) /\ BlocksNeeded(Held(r)) <= Len(block_table[r])
         /\ \A i \in 1 .. Len(block_table[r]) : kv[block_table[r][i]] = Context(r, Held(r), i)
    BY <1>9 DEF Filed
  <1> QED BY <1>1, <1>2, <1>4, <1>6, <1>8, <1>11, <1>12, <1>13, <1>14

\* The entries of MemInv, by position.
LEMMA EntriesType ==
  ASSUME MemInv
  PROVE  /\ entries \in Seq(Entry) /\ Len(entries) \in Nat
         /\ \A e \in Range(entries) : /\ e \in Entry /\ e.key \in Seq(Vocab) /\ e.block \in Blocks \ free
                                      /\ e.block \in CachedBlocks /\ e.key \in Keys
                                      /\ kv[e.block] = e.key /\ Full(e.key)
         /\ \A i \in 1 .. Len(entries) : entries[i] \in Range(entries)
         /\ \A e \in Range(entries) : \E i \in 1 .. Len(entries) : entries[i] = e
         /\ \A e, f \in Range(entries) : e.key = f.key \/ e.block = f.block => e = f
         /\ \A i, j \in 1 .. Len(entries) : entries[i] = entries[j] => i = j
         /\ CachedBlocks \subseteq Blocks
  <1>1. entries \in Seq(Entry) BY DEF MemInv, MemoryTypes
  <1>2. Len(entries) \in Nat /\ Range(entries) \subseteq Entry BY <1>1, LenProperties, RangeOfSeq
  <1>3. \A e : e \in Range(entries) <=> \E i \in 1 .. Len(entries) : entries[i] = e
    BY <1>1, RangeMembers
  <1>4. \A e \in Range(entries) : e \in Entry /\ e.key \in Seq(Vocab) /\ e.block \in Blocks
    BY <1>2 DEF Entry
  <1>5. \A e \in Range(entries) : e.block \in CachedBlocks /\ e.key \in Keys
    BY DEF CachedBlocks, Keys
  <1>6. \A e \in Range(entries) : e.block \notin free BY <1>4, <1>5, Holding
  <1>7. \A e \in Range(entries) : kv[e.block] = e.key /\ Full(e.key) BY DEF MemInv, Honest
  <1>8. CachedBlocks \subseteq Blocks BY <1>4 DEF CachedBlocks
  <1>9. \A i, j \in 1 .. Len(entries) :
            entries[i].key = entries[j].key \/ entries[i].block = entries[j].block => i = j
    BY DEF MemInv, EntriesOnce
  <1>10. \A e, f \in Range(entries) : e.key = f.key \/ e.block = f.block => e = f
    <2> SUFFICES ASSUME NEW e \in Range(entries), NEW f \in Range(entries),
                        e.key = f.key \/ e.block = f.block
                 PROVE  e = f
      OBVIOUS
    <2>1. PICK i \in 1 .. Len(entries) : entries[i] = e BY <1>3
    <2>2. PICK j \in 1 .. Len(entries) : entries[j] = f BY <1>3
    <2> QED BY <2>1, <2>2, <1>9
  <1>11. \A i, j \in 1 .. Len(entries) : entries[i] = entries[j] => i = j BY <1>9
  <1> QED BY <1>1, <1>2, <1>3, <1>4, <1>5, <1>6, <1>7, <1>8, <1>10, <1>11

--------------------------------------------------------------------------------
(* publish(). *)

\* What a list of entries must be to be added to the cache: new blocks of S
\* under new keys, each holding its key in `content`.
Addable(new, S, content) ==
    /\ entries \o new \in Seq(Entry)
    /\ Range(entries \o new) = Range(entries) \cup Range(new)
    /\ \A i, j \in 1 .. Len(entries \o new) :
           \/ (entries \o new)[i].key = (entries \o new)[j].key
           \/ (entries \o new)[i].block = (entries \o new)[j].block
           => i = j
    /\ BlocksOf(new) \subseteq S /\ BlocksOf(new) \cap CachedBlocks = {}
    /\ \A e \in Range(new) : content[e.block] = e.key /\ Full(e.key)

\* publish() adds what it may, provided that the cache is honest and that the
\* blocks of the table hold the tokens they are published under.
LEMMA NewAddable ==
  ASSUME MemInv, NEW tokens \in Seq(Vocab), NEW table \in Seq(Blocks), NEW content,
         \A i, j \in 1 .. Len(table) : table[i] = table[j] => i = j,
         \A e \in Range(entries) : content[e.block] = e.key,
         \A i \in 1 .. FullBlocks(tokens) : i <= Len(table) => content[table[i]] = Key(tokens, i)
  PROVE  Addable(New(tokens, table), Range(table), content)
  <1> DEFINE fresh == {i \in 1 .. FullBlocks(tokens) :
                           Key(tokens, i) \notin Keys /\ i <= Len(table)}
             o == InOrder(fresh)
             n == Cardinality(fresh)
             new == New(tokens, table)
             all == entries \o new
  <1>1. FullBlocks(tokens) \in Nat /\ fresh \in SUBSET (1 .. FullBlocks(tokens)) BY KeyType
  <1>2. /\ n \in Nat /\ Len(o) = n /\ o \in [1 .. n -> fresh]
        /\ \A k, l \in 1 .. n : k < l => o[k] < o[l]
    BY <1>1, InOrderType
  <1>3. new = [k \in 1 .. n |-> [key |-> Key(tokens, o[k]), block |-> table[o[k]]]]
    BY <1>2 DEF New
  <1>4. \A i \in fresh : /\ i \in 1 .. FullBlocks(tokens) /\ i \in 1 .. Len(table)
                         /\ i \in Nat /\ Key(tokens, i) \notin Keys
    BY <1>1, LenProperties
  <1> HIDE DEF fresh, new
  <1>5. \A k, l \in 1 .. n : o[k] = o[l] => k = l
    <2> SUFFICES ASSUME NEW k \in 1 .. n, NEW l \in 1 .. n, o[k] = o[l] PROVE k = l
      OBVIOUS
    <2>1. (k < l => o[k] < o[l]) /\ (l < k => o[l] < o[k]) BY <1>2
    <2>2. o[k] \in Nat /\ o[l] \in Nat BY <1>2, <1>4
    <2> QED BY <1>2, <2>1, <2>2
  <1> HIDE DEF o, n
  <1>6. ASSUME NEW k \in 1 .. n
        PROVE  /\ new[k] \in Entry
               /\ o[k] \in fresh
               /\ new[k].key = Key(tokens, o[k]) /\ new[k].block = table[o[k]]
               /\ content[new[k].block] = new[k].key /\ Full(new[k].key)
               /\ new[k].key \notin Keys /\ new[k].block \in Range(table)
    <2>1. /\ o[k] \in fresh /\ o[k] \in 1 .. FullBlocks(tokens) /\ o[k] \in 1 .. Len(table)
          /\ o[k] <= Len(table) /\ Key(tokens, o[k]) \notin Keys
      BY <1>2, <1>4, LenProperties
    <2>2. Key(tokens, o[k]) \in Seq(Vocab) /\ Full(Key(tokens, o[k])) BY <2>1, KeyType
    <2>3. table[o[k]] \in Blocks BY <2>1, ElementOfSeq
    <2>4. table[o[k]] \in Range(table) BY <2>1, RangeMembers
    <2>5. content[table[o[k]]] = Key(tokens, o[k]) BY <2>1
    <2>6. new[k].key = Key(tokens, o[k]) /\ new[k].block = table[o[k]] BY <1>3
    <2>7. new[k] \in Entry BY <2>2, <2>3, <1>3 DEF Entry
    <2> QED BY <2>1, <2>2, <2>4, <2>5, <2>6, <2>7
  <1>7. ASSUME NEW k \in 1 .. n, NEW l \in 1 .. n,
               new[k].key = new[l].key \/ new[k].block = new[l].block
        PROVE  k = l
    <2>1. /\ o[k] \in 1 .. FullBlocks(tokens) /\ o[l] \in 1 .. FullBlocks(tokens)
          /\ o[k] \in 1 .. Len(table) /\ o[l] \in 1 .. Len(table)
      BY <1>4, <1>6
    <2>2. Key(tokens, o[k]) = Key(tokens, o[l]) => o[k] = o[l] BY <2>1, KeyType
    <2>3. table[o[k]] = table[o[l]] => o[k] = o[l] BY <2>1
    <2>4. o[k] = o[l] BY <1>6, <1>7, <2>2, <2>3
    <2> QED BY <2>4, <1>5
  <1>8. new \in Seq(Entry) /\ Len(new) = n
    <2>1. new \in [1 .. n -> Entry] BY <1>3, <1>6
    <2> QED BY <2>1, <1>2, LenProperties
  <1>9. /\ entries \in Seq(Entry) /\ Len(entries) \in Nat
        /\ \A e \in Range(entries) : e.key \in Keys /\ kv[e.block] = e.key
        /\ \A i \in 1 .. Len(entries) : entries[i] \in Range(entries)
        /\ \A e, f \in Range(entries) : e.key = f.key \/ e.block = f.block => e = f
        /\ \A i, j \in 1 .. Len(entries) : entries[i] = entries[j] => i = j
    BY EntriesType
  <1>10. ASSUME NEW k \in 1 .. n, NEW e \in Range(entries)
         PROVE  new[k].key # e.key /\ new[k].block # e.block
    <2>1. new[k].key \notin Keys /\ content[new[k].block] = new[k].key BY <1>6
    <2>2. e.key \in Keys /\ content[e.block] = e.key BY <1>9
    <2> QED BY <2>1, <2>2
  <1>11. /\ all \in Seq(Entry) /\ Len(all) = Len(entries) + n
         /\ \A i \in 1 .. Len(entries) + n :
                all[i] = IF i <= Len(entries) THEN entries[i] ELSE new[i - Len(entries)]
    <2>1. entries \in Seq(Entry) /\ new \in Seq(Entry) BY <1>8, <1>9
    <2>2. all \in Seq(Entry) /\ Len(all) = Len(entries) + Len(new) BY <2>1, ConcatProperties
    <2>3. \A i \in 1 .. Len(entries) + Len(new) :
              all[i] = IF i <= Len(entries) THEN entries[i] ELSE new[i - Len(entries)]
      BY <2>1, ConcatProperties
    <2> HIDE DEF all
    <2> QED BY <2>2, <2>3, <1>8
  <1>12. Range(all) = Range(entries) \cup Range(new) BY <1>8, <1>9, RangeConcatenation
  <1> HIDE DEF all
  <1>13. ASSUME NEW i \in 1 .. Len(all), NEW j \in 1 .. Len(all),
                all[i].key = all[j].key \/ all[i].block = all[j].block
         PROVE  i = j
    <2>1. /\ Len(entries) \in Nat /\ n \in Nat
          /\ i \in 1 .. Len(entries) + n /\ j \in 1 .. Len(entries) + n
      BY <1>2, <1>9, <1>11
    <2>2. CASE i <= Len(entries) /\ j <= Len(entries)
      <3>1. i \in 1 .. Len(entries) /\ j \in 1 .. Len(entries) BY <2>1, <2>2
      <3>2. all[i] = entries[i] /\ all[j] = entries[j] BY <2>1, <2>2, <1>11
      <3> QED BY <3>1, <3>2, <1>9, <1>13
    <2>3. CASE ~(i <= Len(entries)) /\ ~(j <= Len(entries))
      <3>1. i - Len(entries) \in 1 .. n /\ j - Len(entries) \in 1 .. n BY <2>1, <2>3
      <3>2. all[i] = new[i - Len(entries)] /\ all[j] = new[j - Len(entries)]
        BY <2>1, <2>3, <1>11
      <3>3. i - Len(entries) = j - Len(entries) BY <3>1, <3>2, <1>7, <1>13
      <3> QED BY <2>1, <3>3
    <2>4. CASE i <= Len(entries) /\ ~(j <= Len(entries))
      <3>1. i \in 1 .. Len(entries) /\ j - Len(entries) \in 1 .. n BY <2>1, <2>4
      <3>2. all[i] = entries[i] /\ all[j] = new[j - Len(entries)] BY <2>1, <2>4, <1>11
      <3> QED BY <3>1, <3>2, <1>9, <1>10, <1>13
    <2>5. CASE ~(i <= Len(entries)) /\ j <= Len(entries)
      <3>1. j \in 1 .. Len(entries) /\ i - Len(entries) \in 1 .. n BY <2>1, <2>5
      <3>2. all[j] = entries[j] /\ all[i] = new[i - Len(entries)] BY <2>1, <2>5, <1>11
      <3> QED BY <3>1, <3>2, <1>9, <1>10, <1>13
    <2> QED BY <2>2, <2>3, <2>4, <2>5
  <1>14. \A e \in Range(new) : \E k \in 1 .. n : new[k] = e BY <1>8, RangeMembers
  <1>15. \A e \in Range(new) : /\ content[e.block] = e.key /\ Full(e.key)
                               /\ e.block \in Range(table)
                               /\ \A f \in Range(entries) : e.block # f.block
    BY <1>6, <1>10, <1>14
  <1>16. BlocksOf(new) \subseteq Range(table) BY <1>15 DEF BlocksOf
  <1>17. BlocksOf(new) \cap CachedBlocks = {} BY <1>15 DEF BlocksOf, CachedBlocks
  <1> QED BY <1>11, <1>12, <1>13, <1>15, <1>16, <1>17 DEF Addable, all, new

\* Nothing can always be added.
LEMMA NothingAddable ==
  ASSUME MemInv, NEW S, NEW content
  PROVE  Addable(<<>>, S, content) /\ BlocksOf(<<>>) = {}
  <1>1. entries \in Seq(Entry) BY EntriesType
  <1>2. entries \o <<>> = entries BY <1>1, ConcatEmptySeq
  <1>3. Range(<<>>) = {} BY NobodyListed
  <1>4. BlocksOf(<<>>) = {} BY <1>3 DEF BlocksOf
  <1> QED BY <1>1, <1>2, <1>3, <1>4 DEF Addable, MemInv, EntriesOnce

--------------------------------------------------------------------------------
(* Tables that an operation leaves alone, and tables it empties. *)

\* A table whose blocks keep their contents still holds its context.
LEMMA FiledFrame ==
  ASSUME NEW s \in Requests, Filed(s),
         block_table'[s] = block_table[s], stored'[s] = stored[s],
         output_token_ids'[s] = output_token_ids[s],
         \A i \in 1 .. Len(block_table[s]) : kv'[block_table[s][i]] = kv[block_table[s][i]]
  PROVE  Filed(s)'
  <1>1. Held(s)' = Held(s) BY DEF Held
  <1>2. TotalLen(s)' = TotalLen(s) /\ AllTokens(s)' = AllTokens(s) BY DEF TotalLen, AllTokens
  <1>3. \A n, i : Context(s, n, i)' = Context(s, n, i) BY <1>2 DEF Context
  <1>4. \A n : BlocksNeeded(n)' = BlocksNeeded(n) BY DEF BlocksNeeded
  <1> QED BY <1>1, <1>2, <1>3, <1>4 DEF Filed

\* An empty table holds the context of no token.
LEMMA FiledEmpty ==
  ASSUME NEW r \in Requests, output_token_ids' \in [Requests -> Seq(Vocab)],
         block_table'[r] = <<>>, stored'[r] = 0
  PROVE  Filed(r)'
  <1>1. Len(<<>>) = 0 BY NobodyListed
  <1>2. Held(r)' = 0
    <2>1. BlockSize \in Nat BY BlockSizes
    <2>2. 0 * BlockSize = 0 BY <2>1
    <2> QED BY <1>1, <2>2 DEF Held
  <1>3. TotalLen(r)' \in Nat
    <2>1. Prompt[r] \in Seq(Vocab) /\ output_token_ids'[r] \in Seq(Vocab) BY EngineAssumption
    <2>2. Len(Prompt[r]) \in Nat /\ Len(output_token_ids'[r]) \in Nat BY <2>1, LenProperties
    <2> QED BY <2>2 DEF TotalLen
  <1>4. BlocksNeeded(Held(r))' = 0
    <2>1. BlocksNeeded(0) = 0 BY Rounding
    <2> QED BY <1>2, <2>1 DEF BlocksNeeded
  <1> QED BY <1>1, <1>2, <1>3, <1>4 DEF Filed

--------------------------------------------------------------------------------
(* _release(): a table is dropped, after its full blocks have been published. *)

\* _release(): the references of a table are dropped, after its full blocks have
\* been published.  Nobody else loses a block, and no free block is lost.
LEMMA ReleaseMemory ==
  ASSUME MemInv, NEW r \in Requests, PrefixRelease(r),
         output_token_ids' \in [Requests -> Seq(Vocab)],
         \A s \in Requests : s # r => output_token_ids'[s] = output_token_ids[s]
  PROVE  MemInv' /\ free \subseteq free' /\ Keys \subseteq Keys'
  <1> DEFINE table == block_table[r]
             tokens == SubSeq(AllTokens(r), 1, stored[r])
             new == IF table # <<>> /\ stored[r] > 0 THEN New(tokens, table) ELSE <<>>
             count == Shared(refcount, BlocksOf(new))
             gone == Returned(count, Range(table))
  <1>1. /\ entries' = entries \o new /\ free' = free \cup gone
        /\ refcount' = Dropped(count, Range(table))
        /\ kv' = Cleared(kv, gone)
        /\ block_table' = [block_table EXCEPT ![r] = <<>>]
        /\ stored' = [stored EXCEPT ![r] = 0]
    BY DEF PrefixRelease
  <1>2. /\ table \in Seq(Blocks) /\ Len(table) \in Nat /\ Range(table) \subseteq Blocks \ free
        /\ \A i \in 1 .. Len(table) : kv[table[i]] = Context(r, Held(r), i)
        /\ \A i, j \in 1 .. Len(table) : table[i] = table[j] => i = j
        /\ stored[r] \in Nat /\ Held(r) \in Nat /\ Held(r) <= TotalLen(r)
        /\ AllTokens(r) \in Seq(Vocab) /\ Len(AllTokens(r)) = TotalLen(r)
        /\ TotalLen(r) \in Nat
    BY TableType
  <1>3. Addable(new, Range(table), kv)
    <2>1. CASE table # <<>> /\ stored[r] > 0
      <3>1. Held(r) = stored[r] BY <2>1 DEF Held
      <3>2. stored[r] \in 0 .. Len(AllTokens(r)) BY <1>2, <3>1
      <3>3. tokens \in Seq(Vocab) /\ Len(tokens) = stored[r] BY <1>2, <3>2, Beginning
      <3> HIDE DEF table
      <3>4. ASSUME NEW i \in 1 .. FullBlocks(tokens), i <= Len(table)
            PROVE  kv[table[i]] = Key(tokens, i)
        <4>1. i \in Nat /\ i > 0 /\ i <= FullBlocks(tokens) /\ i \in 1 .. Len(table)
          BY <1>2, <3>3, <3>4, KeyType
        <4>2. i * BlockSize \in Nat /\ i * BlockSize <= stored[r] BY <3>3, <4>1, KeyType, WholeBlocks
        <4>3. i * BlockSize \in 0 .. stored[r] BY <4>2
        <4>4. Key(tokens, i) = Key(AllTokens(r), i) BY <1>2, <3>2, <4>3, BeginningTwice DEF Key
        <4>5. output_token_ids \in [Requests -> Seq(Vocab)] BY DEF MemInv, MemoryTypes
        <4>7. Held(r) \in Nat /\ Held(r) <= TotalLen(r) /\ i * BlockSize <= Held(r)
          BY <1>2, <3>1, <4>2
        <4>6. Context(r, Held(r), i) = Key(AllTokens(r), i)
          BY <4>1, <4>5, <4>7, ContextType
        <4> QED BY <1>2, <4>1, <4>4, <4>6
      <3>5. \A e \in Range(entries) : kv[e.block] = e.key BY EntriesType
      <3> HIDE DEF tokens
      <3>6. Addable(New(tokens, table), Range(table), kv) BY <1>2, <3>3, <3>4, <3>5, NewAddable
      <3> QED BY <2>1, <3>6 DEF table
    <2>2. CASE ~(table # <<>> /\ stored[r] > 0) BY <2>2, NothingAddable
    <2> QED BY <2>1, <2>2
  <1>4. MemoryTypes /\ CountsHold /\ Honest /\ FreeClear /\ SharedFull /\ TablesFiled /\ TablesOnce
    BY DEF MemInv
  <1>5. /\ Range(entries') = Range(entries) \cup Range(new)
        /\ \A b : b \in CachedBlocks' <=> b \in CachedBlocks \/ b \in BlocksOf(new)
        /\ BlocksOf(new) \subseteq Range(table) /\ BlocksOf(new) \cap CachedBlocks = {}
    BY <1>1, <1>3 DEF Addable, CachedBlocks, BlocksOf
  <1>6. /\ block_table'[r] = <<>> /\ stored'[r] = 0
        /\ \A s \in Requests : s # r => /\ block_table'[s] = block_table[s]
                                        /\ stored'[s] = stored[s]
    BY <1>1, <1>4 DEF MemoryTypes
  <1>7. \A b \in Blocks : /\ Holders(b)' = Holders(b) \ {r}
                          /\ r \in Holders(b) <=> b \in Range(table)
    <2>1. Range(<<>>) = {} BY NobodyListed
    <2> QED BY <1>6, <2>1 DEF Holders
  <1> HIDE DEF new
  <1>8. \A b \in Blocks :
            /\ count[b] = IF b \in BlocksOf(new) THEN refcount[b] + 1 ELSE refcount[b]
            /\ refcount'[b] = IF b \notin Range(table) THEN count[b]
                              ELSE IF count[b] <= 1 THEN 0 ELSE count[b] - 1
            /\ kv'[b] = IF b \in gone THEN <<>> ELSE kv[b]
            /\ b \in gone <=> b \in Range(table) /\ count[b] <= 1
    BY <1>1 DEF Shared, Dropped, Cleared, Returned
  <1> HIDE DEF count, gone, table
  <1>9. ASSUME NEW b \in Blocks
        PROVE  /\ refcount'[b] \in Nat
               /\ refcount'[b] <= refcount[b]
               /\ b \in gone => refcount[b] = 1 /\ refcount'[b] = 0 /\ Holders(b) = {r}
                                /\ b \notin CachedBlocks'
               /\ b \notin gone /\ b \in Range(table) => refcount'[b] > 0
               /\ b \notin Range(table) => refcount'[b] = refcount[b]
               /\ refcount'[b] = Cardinality(Holders(b)') + IF b \in CachedBlocks' THEN 1 ELSE 0
               /\ IsFiniteSet(Holders(b)')
    <2>1. /\ refcount[b] \in Nat /\ IsFiniteSet(Holders(b)) /\ Cardinality(Holders(b)) \in Nat
          /\ refcount[b] = Cardinality(Holders(b)) + IF b \in CachedBlocks THEN 1 ELSE 0
      BY <1>4, Holding DEF CountsHold
    <2>2. /\ IsFiniteSet(Holders(b)')
          /\ Cardinality(Holders(b)') = IF r \in Holders(b) THEN Cardinality(Holders(b)) - 1
                                        ELSE Cardinality(Holders(b))
      BY <1>7, <2>1, FS_RemoveElement
    <2>3. r \in Holders(b) => /\ refcount[b] > 0
                              /\ refcount[b] = 1 => Holders(b) = {r} /\ b \notin CachedBlocks
      BY Holding
    <2>4. r \in Holders(b) <=> b \in Range(table) BY <1>7
    <2> DEFINE c == Cardinality(Holders(b))
    <2>5. CASE b \notin Range(table)
      <3>1. b \notin BlocksOf(new) /\ b \notin gone /\ (b \in CachedBlocks' <=> b \in CachedBlocks)
        BY <2>5, <1>5, <1>8
      <3>2. refcount'[b] = refcount[b] BY <2>5, <3>1, <1>8
      <3> QED BY <2>1, <2>2, <2>4, <2>5, <3>1, <3>2
    <2>6. CASE b \in Range(table) /\ b \in BlocksOf(new)
      <3>1. b \notin CachedBlocks /\ b \in CachedBlocks' BY <2>6, <1>5
      <3>2. count[b] = refcount[b] + 1 /\ refcount[b] > 0 BY <2>3, <2>4, <2>6, <1>8
      <3>3. ~(count[b] <= 1) BY <2>1, <3>2
      <3>4. refcount'[b] = refcount[b] /\ b \notin gone BY <2>1, <2>6, <3>2, <3>3, <1>8
      <3>5. refcount[b] = c /\ Cardinality(Holders(b)') = c - 1 BY <2>1, <2>2, <2>4, <2>6, <3>1
      <3> HIDE DEF c
      <3>6. refcount'[b] = Cardinality(Holders(b)') + 1 BY <2>1, <3>4, <3>5
      <3> QED BY <2>1, <2>2, <2>6, <3>1, <3>2, <3>4, <3>6
    <2>7. CASE b \in Range(table) /\ b \notin BlocksOf(new)
      <3>1. b \in CachedBlocks' <=> b \in CachedBlocks BY <2>7, <1>5
      <3>2. count[b] = refcount[b] /\ refcount[b] > 0 BY <2>3, <2>4, <2>7, <1>8
      <3>3. refcount'[b] = refcount[b] - 1 BY <2>1, <2>7, <3>2, <1>8
      <3>4. b \in gone <=> refcount[b] = 1 BY <2>1, <2>7, <3>2, <1>8
      <3>5. Cardinality(Holders(b)') = c - 1 BY <2>2, <2>4, <2>7
      <3>6. refcount'[b] = Cardinality(Holders(b)') + IF b \in CachedBlocks' THEN 1 ELSE 0
        BY <2>1, <3>1, <3>3, <3>5
      <3> QED BY <2>1, <2>2, <2>3, <2>4, <2>7, <3>1, <3>2, <3>3, <3>4, <3>6
    <2> QED BY <2>5, <2>6, <2>7
  <1>10. gone \subseteq Blocks BY <1>2, <1>1 DEF gone, Returned
  <1>11. MemoryTypes'
    <2>1. free' \subseteq Blocks BY <1>1, <1>4, <1>10 DEF MemoryTypes
    <2>2. refcount' \in [Blocks -> Nat]
      <3>1. refcount' = [b \in Blocks |-> refcount'[b]] BY <1>1 DEF Dropped
      <3> QED BY <3>1, <1>9
    <2>3. <<>> \in Seq(Blocks) /\ <<>> \in Seq(Vocab) BY EmptySeq
    <2>4. /\ block_table' \in [Requests -> Seq(Blocks)]
          /\ stored' \in [Requests -> Nat]
      BY <1>1, <1>4, <2>3 DEF MemoryTypes
    <2>5. entries' \in Seq(Entry) BY <1>1, <1>3 DEF Addable
    <2>6. kv' \in [Blocks -> Seq(Vocab)] BY <1>1, <1>4, <2>3 DEF Cleared, MemoryTypes
    <2> QED BY <2>1, <2>2, <2>4, <2>5, <2>6 DEF MemoryTypes, Entry
  <1>12. CountsHold'
    <2>1. ASSUME NEW b \in Blocks PROVE b \in free' <=> refcount'[b] = 0
      <3>1. b \in free <=> refcount[b] = 0 BY <1>4 DEF CountsHold
      <3>2. CASE b \in gone BY <3>2, <1>1, <1>9
      <3>3. CASE b \notin gone /\ b \in Range(table)
        <4>1. b \notin free BY <3>3, <1>2 DEF table
        <4> QED BY <3>3, <4>1, <1>1, <1>9
      <3>4. CASE b \notin Range(table) BY <3>1, <3>4, <1>1, <1>8, <1>9
      <3> QED BY <3>2, <3>3, <3>4
    <2> QED BY <2>1, <1>9 DEF CountsHold
  <1>13. TablesOnce'
    <2>1. Len(<<>>) = 0 BY NobodyListed
    <2> QED BY <2>1, <1>4, <1>6 DEF TablesOnce
  <1>14. EntriesOnce' BY <1>1, <1>3 DEF Addable, EntriesOnce
  <1>15. Honest'
    <2>1. ASSUME NEW e \in Range(entries') PROVE kv'[e.block] = e.key /\ Full(e.key)
      <3>1. kv[e.block] = e.key /\ Full(e.key) BY <1>3, <1>4, <1>5 DEF Addable, Honest
      <3>2. e.block \in CachedBlocks' BY DEF CachedBlocks
      <3>3. e.block \in Blocks BY <1>2, <1>5, <3>2, EntriesType DEF table
      <3> QED BY <3>1, <3>2, <3>3, <1>8, <1>9
    <2> QED BY <2>1 DEF Honest, Full
  <1>16. FreeClear' BY <1>1, <1>4, <1>8, <1>10 DEF FreeClear, MemoryTypes
  <1>17. SharedFull'
    <2>1. ASSUME NEW b \in Blocks, refcount'[b] > 1 PROVE Full(kv'[b])
      <3>1. refcount[b] > 1 /\ b \notin gone
        <4>1. refcount[b] \in Nat BY <1>4 DEF MemoryTypes
        <4> QED BY <2>1, <4>1, <1>9
      <3> QED BY <3>1, <1>4, <1>8 DEF SharedFull
    <2> QED BY <2>1 DEF SharedFull, Full
  <1>18. TablesFiled'
    <2>1. ASSUME NEW s \in Requests, s # r PROVE Filed(s)'
      <3>1. ASSUME NEW i \in 1 .. Len(block_table[s])
            PROVE  kv'[block_table[s][i]] = kv[block_table[s][i]]
        <4>1. block_table[s][i] \in Blocks /\ s \in Holders(block_table[s][i]) BY TableType
        <4> QED BY <4>1, <2>1, <1>8, <1>9
      <3>2. Filed(s) BY <1>4 DEF TablesFiled
      <3> QED BY <2>1, <3>1, <3>2, <1>6, FiledFrame
    <2>2. Filed(r)' BY <1>6, FiledEmpty
    <2> QED BY <2>1, <2>2 DEF TablesFiled
  <1>19. free \subseteq free' /\ Keys \subseteq Keys' BY <1>1, <1>5 DEF Keys
  <1> QED BY <1>11, <1>12, <1>13, <1>14, <1>15, <1>16, <1>17, <1>18, <1>19 DEF MemInv

--------------------------------------------------------------------------------
(* Eviction of the oldest entry. *)

\* evict_oldest() and the free() of its block: it goes back to the pool if the
\* cache alone held it, and stays with its readers otherwise.
LEMMA EvictMemory ==
  ASSUME MemInv, entries # <<>>, EvictOldest,
         UNCHANGED <<block_table, stored, output_token_ids>>
  PROVE  MemInv' /\ free \subseteq free'
  <1> DEFINE h == Head(entries)
             v == h.block
             gone == Returned(refcount, {v})
  <1>1. /\ entries' = Tail(entries) /\ free' = free \cup gone
        /\ refcount' = Dropped(refcount, {v}) /\ kv' = Cleared(kv, gone)
    BY DEF EvictOldest, Free
  <1>2. MemoryTypes /\ CountsHold /\ Honest /\ FreeClear /\ SharedFull /\ TablesFiled /\ TablesOnce
        /\ EntriesOnce
    BY DEF MemInv
  <1>3. /\ entries \in Seq(Entry) /\ Len(entries) \in Nat
        /\ \A i \in 1 .. Len(entries) : entries[i] \in Range(entries)
        /\ \A e \in Range(entries) : /\ e.block \in Blocks \ free
                                     /\ e.block \in CachedBlocks
                                     /\ \E i \in 1 .. Len(entries) : entries[i] = e
        /\ \A i, j \in 1 .. Len(entries) : entries[i] = entries[j] => i = j
        /\ \A e, f \in Range(entries) : e.block = f.block => e = f
    BY EntriesType
  <1>4. Len(entries) \in Nat \ {0} BY <1>2, <1>3, EmptySeq
  <1>5. h = entries[1] /\ h \in Range(entries) BY <1>3, <1>4
  <1>6. /\ Tail(entries) \in Seq(Entry) /\ Len(Tail(entries)) = Len(entries) - 1
        /\ \A i \in 1 .. Len(Tail(entries)) : Tail(entries)[i] = entries[i + 1]
    BY <1>3, HeadTailProperties
  <1>7. \A e : e \in Range(entries') <=> e \in Range(entries) /\ e # h
    <2>1. \A e : e \in Range(entries') <=> \E i \in 1 .. Len(entries') : entries'[i] = e
      BY <1>1, <1>6, RangeMembers
    <2>2. ASSUME NEW i \in 1 .. Len(entries')
          PROVE  entries'[i] \in Range(entries) /\ entries'[i] # h
      <3>1. i + 1 \in 1 .. Len(entries) /\ 1 \in 1 .. Len(entries) /\ i + 1 # 1
        BY <1>1, <1>4, <1>6
      <3> QED BY <3>1, <1>1, <1>3, <1>5, <1>6
    <2>3. ASSUME NEW e \in Range(entries), e # h PROVE \E i \in 1 .. Len(entries') : entries'[i] = e
      <3>1. PICK j \in 1 .. Len(entries) : entries[j] = e BY <1>3
      <3>2. j # 1 BY <2>3, <3>1, <1>5
      <3>3. j - 1 \in 1 .. Len(entries') /\ j - 1 + 1 = j BY <3>2, <1>1, <1>4, <1>6
      <3> QED BY <3>1, <3>3, <1>1, <1>6
    <2> QED BY <2>1, <2>2, <2>3
  <1>8. v \in Blocks /\ v \in CachedBlocks /\ v \notin free BY <1>3, <1>5
  <1>9. \A b : b \in CachedBlocks' <=> b \in CachedBlocks /\ b # v
    BY <1>3, <1>5, <1>7 DEF CachedBlocks
  <1> HIDE DEF h, v
  <1>10. \A b \in Blocks : Holders(b)' = Holders(b) BY DEF Holders
  <1>11. /\ refcount[v] \in Nat /\ refcount[v] > 0
         /\ refcount[v] = 1 => Holders(v) = {}
         /\ refcount[v] = Cardinality(Holders(v)) + 1 /\ Cardinality(Holders(v)) \in Nat
    BY <1>2, <1>8, Holding DEF CountsHold
  <1>12. /\ \A b \in Blocks : b # v => refcount'[b] = refcount[b] /\ b \notin gone
         /\ refcount'[v] = refcount[v] - 1
         /\ v \in gone <=> refcount[v] = 1
         /\ gone \subseteq {v}
         /\ \A b \in Blocks : kv'[b] = IF b \in gone THEN <<>> ELSE kv[b]
    BY <1>1, <1>8, <1>11 DEF Dropped, Returned, Cleared
  <1> HIDE DEF gone
  <1>13. MemoryTypes'
    <2>1. free' \subseteq Blocks BY <1>1, <1>2, <1>8, <1>12 DEF MemoryTypes
    <2>2. refcount' \in [Blocks -> Nat]
      <3>1. refcount' = [b \in Blocks |-> refcount'[b]] BY <1>1 DEF Dropped
      <3>2. ASSUME NEW b \in Blocks PROVE refcount'[b] \in Nat
        <4>1. CASE b = v
          <5>1. refcount[v] - 1 \in Nat BY <1>11
          <5> QED BY <4>1, <5>1, <1>12
        <4>2. CASE b # v BY <4>2, <1>2, <1>12 DEF MemoryTypes
        <4> QED BY <4>1, <4>2
      <3> QED BY <3>1, <3>2
    <2>3. kv' \in [Blocks -> Seq(Vocab)]
      <3>1. <<>> \in Seq(Vocab) BY EmptySeq
      <3> QED BY <3>1, <1>1, <1>2 DEF Cleared, MemoryTypes
    <2> QED BY <2>1, <2>2, <2>3, <1>1, <1>2, <1>6 DEF MemoryTypes, Entry
  <1>14. CountsHold'
    <2>1. ASSUME NEW b \in Blocks
          PROVE  /\ IsFiniteSet(Holders(b)')
                 /\ refcount'[b] = Cardinality(Holders(b)') + IF b \in CachedBlocks' THEN 1 ELSE 0
                 /\ b \in free' <=> refcount'[b] = 0
      <3>1. /\ IsFiniteSet(Holders(b))
            /\ b \in free <=> refcount[b] = 0
            /\ refcount[b] = Cardinality(Holders(b)) + IF b \in CachedBlocks THEN 1 ELSE 0
        BY <1>2 DEF CountsHold
      <3>4. Holders(b)' = Holders(b) BY <1>10
      <3>2. CASE b = v
        <4>1. b \notin CachedBlocks' BY <3>2, <1>9
        <4>2. refcount'[b] = Cardinality(Holders(b)) BY <3>2, <1>11, <1>12
        <4>3. b \in free' <=> refcount'[b] = 0 BY <3>2, <1>1, <1>8, <1>11, <1>12
        <4>4. Cardinality(Holders(b)) \in Nat BY <3>2, <1>11
        <4> QED BY <3>1, <3>4, <4>1, <4>2, <4>3, <4>4
      <3>3. CASE b # v
        <4>1. b \in CachedBlocks' <=> b \in CachedBlocks BY <3>3, <1>9
        <4>2. refcount'[b] = refcount[b] BY <3>3, <1>12
        <4>3. b \in free' <=> b \in free BY <3>3, <1>1, <1>12
        <4> QED BY <3>1, <3>4, <4>1, <4>2, <4>3
      <3> QED BY <3>2, <3>3
    <2> QED BY <2>1 DEF CountsHold
  <1>15. TablesOnce' BY <1>2 DEF TablesOnce
  <1>16. EntriesOnce'
    <2>1. ASSUME NEW i \in 1 .. Len(entries'), NEW j \in 1 .. Len(entries'),
                 entries'[i].key = entries'[j].key \/ entries'[i].block = entries'[j].block
          PROVE  i = j
      <3>1. i + 1 \in 1 .. Len(entries) /\ j + 1 \in 1 .. Len(entries) BY <1>1, <1>4, <1>6
      <3>2. entries'[i] = entries[i + 1] /\ entries'[j] = entries[j + 1] BY <1>1, <1>6
      <3>3. i + 1 = j + 1 BY <2>1, <3>1, <3>2, <1>2 DEF EntriesOnce
      <3> QED BY <3>3
    <2> QED BY <2>1 DEF EntriesOnce
  <1>17. Honest'
    <2>1. ASSUME NEW e \in Range(entries') PROVE kv'[e.block] = e.key /\ Full(e.key)
      <3>1. e \in Range(entries) /\ e.block # v /\ e.block \in Blocks
        BY <1>3, <1>5, <1>7 DEF v
      <3> QED BY <3>1, <1>2, <1>12 DEF Honest
    <2> QED BY <2>1 DEF Honest, Full
  <1>18. FreeClear' BY <1>1, <1>2, <1>8, <1>12 DEF FreeClear, MemoryTypes
  <1>19. SharedFull'
    <2>1. ASSUME NEW b \in Blocks, refcount'[b] > 1 PROVE Full(kv'[b])
      <3>1. refcount[b] > 1 /\ b \notin gone
        <4>1. CASE b = v BY <2>1, <4>1, <1>11, <1>12
        <4>2. CASE b # v BY <2>1, <4>2, <1>12
        <4> QED BY <4>1, <4>2
      <3> QED BY <3>1, <1>2, <1>12 DEF SharedFull
    <2> QED BY <2>1 DEF SharedFull, Full
  <1>20. TablesFiled'
    <2>1. ASSUME NEW s \in Requests PROVE Filed(s)'
      <3>1. ASSUME NEW i \in 1 .. Len(block_table[s])
            PROVE  kv'[block_table[s][i]] = kv[block_table[s][i]]
        <4>1. block_table[s][i] \in Blocks /\ s \in Holders(block_table[s][i]) BY TableType
        <4>2. block_table[s][i] \notin gone BY <4>1, <1>11, <1>12
        <4> QED BY <4>1, <4>2, <1>12
      <3>2. Filed(s) BY <1>2 DEF TablesFiled
      <3> QED BY <3>1, <3>2, FiledFrame
    <2> QED BY <2>1 DEF TablesFiled
  <1>21. free \subseteq free' BY <1>1
  <1> QED BY <1>13, <1>14, <1>15, <1>16, <1>17, <1>18, <1>19, <1>20, <1>21 DEF MemInv

--------------------------------------------------------------------------------
(* A lookup, and the sharing of what it finds. *)

\* What lookup() finds for a list of tokens: an entry for each of its first
\* blocks, each once.
LEMMA HitsType ==
  ASSUME MemInv, NEW tokens \in Seq(Vocab)
  PROVE  /\ Hits(tokens) \in Seq(Entry) /\ Len(Hits(tokens)) \in Nat
         /\ Len(Hits(tokens)) <= FullBlocks(tokens)
         /\ \A i \in 1 .. Len(Hits(tokens)) : /\ Hits(tokens)[i] \in Range(entries)
                                              /\ Hits(tokens)[i].key = Key(tokens, i)
         /\ \A i, j \in 1 .. Len(Hits(tokens)) : Hits(tokens)[i] = Hits(tokens)[j] => i = j
         /\ Range(Hits(tokens)) \subseteq Range(entries)
         /\ \A h \in 0 .. FullBlocks(tokens) :
                (\A i \in 1 .. h : Key(tokens, i) \in Keys) => h <= Len(Hits(tokens))
  <1> DEFINE f == FullBlocks(tokens)
             P == {k \in 1 .. f : \A i \in 1 .. k : Key(tokens, i) \in Keys}
             n == Max({0} \cup P)
             hits == Hits(tokens)
  <1>1. f \in Nat BY KeyType
  <1> HIDE DEF f
  <1>2. n \in {0} \cup P /\ n \in Nat /\ n <= f /\ \A k \in P : k <= n
    <2>1. {0} \cup P \subseteq Nat /\ \A k \in {0} \cup P : k <= f BY <1>1
    <2>2. {0} \cup P # {} OBVIOUS
    <2>3. \E m \in {0} \cup P : \A k \in {0} \cup P : m >= k BY <1>1, <2>1, <2>2, Largest
    <2>4. n \in {0} \cup P /\ \A k \in {0} \cup P : n >= k BY <2>3 DEF Max
    <2> QED BY <2>1, <2>4
  <1>3. \A i \in 1 .. n : i \in 1 .. f /\ Key(tokens, i) \in Keys
    <2>1. CASE n = 0 BY <2>1
    <2>2. CASE n \in P BY <2>2, <1>1, <1>2
    <2> QED BY <2>1, <2>2, <1>2
  <1>l. ASSUME NEW h \in 0 .. f, \A i \in 1 .. h : Key(tokens, i) \in Keys PROVE h <= n
    <2>1. CASE h = 0 BY <2>1, <1>2
    <2>2. CASE h # 0
      <3>1. h \in 1 .. f BY <2>2, <1>1
      <3>2. h \in P BY <3>1, <1>l
      <3> QED BY <3>2, <1>2
    <2> QED BY <2>1, <2>2
  <1>4. hits = [i \in 1 .. n |-> EntryOf(Key(tokens, i))] BY DEF Hits, f
  <1> HIDE DEF n, P, hits
  <1>5. ASSUME NEW i \in 1 .. n
        PROVE  hits[i] \in Range(entries) /\ hits[i].key = Key(tokens, i) /\ hits[i] \in Entry
    <2>1. \E e \in Range(entries) : e.key = Key(tokens, i) BY <1>3 DEF Keys
    <2>2. EntryOf(Key(tokens, i)) \in Range(entries) /\ EntryOf(Key(tokens, i)).key = Key(tokens, i)
      BY <2>1 DEF EntryOf
    <2>3. hits[i] = EntryOf(Key(tokens, i)) BY <1>4
    <2>4. \A e \in Range(entries) : e \in Entry BY EntriesType
    <2> QED BY <2>2, <2>3, <2>4
  <1>6. hits \in Seq(Entry) /\ Len(hits) = n
    <2>1. hits \in [1 .. n -> Entry] BY <1>4, <1>5
    <2> QED BY <2>1, <1>2, LenProperties
  <1>7. ASSUME NEW i \in 1 .. n, NEW j \in 1 .. n, hits[i] = hits[j] PROVE i = j
    <2>1. Key(tokens, i) = Key(tokens, j) BY <1>5, <1>7
    <2>2. i \in 1 .. f /\ j \in 1 .. f BY <1>3
    <2> QED BY <2>1, <2>2, KeyType DEF f
  <1>8. \A e \in Range(hits) : \E i \in 1 .. n : hits[i] = e BY <1>6, RangeMembers
  <1>9. Range(hits) \subseteq Range(entries) BY <1>5, <1>8
  <1> QED BY <1>2, <1>l, <1>5, <1>6, <1>7, <1>9 DEF hits, f

\* Moving what was found to the end loses nothing and files nothing twice.
LEMMA TouchedType ==
  ASSUME MemInv, NEW hits \in Seq(Entry), Range(hits) \subseteq Range(entries),
         \A i, j \in 1 .. Len(hits) : hits[i] = hits[j] => i = j
  PROVE  /\ Touched(hits) \in Seq(Entry)
         /\ Range(Touched(hits)) = Range(entries)
         /\ \A i, j \in 1 .. Len(Touched(hits)) : Touched(hits)[i] = Touched(hits)[j] => i = j
  <1> DEFINE P == {k \in 1 .. Len(entries) : entries[k] \notin Range(hits)}
             o == InOrder(P)
             n == Cardinality(P)
             kept == Picked(entries, P)
  <1>1. /\ entries \in Seq(Entry)
        /\ \A i \in 1 .. Len(entries) : entries[i] \in Range(entries)
        /\ \A e \in Range(entries) : \E i \in 1 .. Len(entries) : entries[i] = e
        /\ \A i, j \in 1 .. Len(entries) : entries[i] = entries[j] => i = j
    BY EntriesType
  <1>2. P \in SUBSET (1 .. Len(entries)) OBVIOUS
  <1>3. \A k \in P : k \in 1 .. Len(entries) /\ entries[k] \notin Range(hits) OBVIOUS
  <1>4. \A k \in 1 .. Len(entries) : entries[k] \notin Range(hits) => k \in P OBVIOUS
  <1> HIDE DEF P
  <1>5. /\ kept \in Seq(Entry) /\ Len(kept) = n /\ n \in Nat
        /\ \A k \in 1 .. n : kept[k] = entries[o[k]]
        /\ \A k \in 1 .. n : o[k] \in P
        /\ \A k, l \in 1 .. n : o[k] = o[l] => k = l
        /\ \A i \in P : \E k \in 1 .. n : o[k] = i
    BY <1>1, <1>2, PickedType
  <1>6. Touched(hits) = kept \o hits BY DEF Touched, P
  <1> HIDE DEF o, n, kept
  <1>7. \A i, j \in 1 .. Len(kept) : kept[i] = kept[j] => i = j
    <2> SUFFICES ASSUME NEW i \in 1 .. n, NEW j \in 1 .. n, kept[i] = kept[j] PROVE i = j
      BY <1>5
    <2>1. o[i] \in 1 .. Len(entries) /\ o[j] \in 1 .. Len(entries) BY <1>3, <1>5
    <2>2. entries[o[i]] = entries[o[j]] BY <1>5
    <2>3. o[i] = o[j] BY <1>1, <2>1, <2>2
    <2> QED BY <1>5, <2>3
  <1>8. \A e : e \in Range(kept) <=> \E k \in 1 .. n : kept[k] = e BY <1>5, RangeMembers
  <1>9. ASSUME NEW e \in Range(kept) PROVE e \in Range(entries) /\ e \notin Range(hits)
    <2>1. PICK k \in 1 .. n : kept[k] = e BY <1>8
    <2>2. e = entries[o[k]] /\ o[k] \in P BY <1>5, <2>1
    <2> QED BY <2>2, <1>1, <1>3
  <1>10. ASSUME NEW e \in Range(entries), e \notin Range(hits) PROVE e \in Range(kept)
    <2>1. PICK i \in 1 .. Len(entries) : entries[i] = e BY <1>1
    <2>2. i \in P BY <1>4, <1>10, <2>1
    <2>3. PICK k \in 1 .. n : o[k] = i BY <1>5, <2>2
    <2> QED BY <1>5, <1>8, <2>1, <2>3
  <1>11. Range(kept) \cap Range(hits) = {} BY <1>9
  <1>12. /\ kept \o hits \in Seq(Entry)
         /\ Range(kept \o hits) = Range(kept) \cup Range(hits)
         /\ \A i, j \in 1 .. Len(kept \o hits) : (kept \o hits)[i] = (kept \o hits)[j] => i = j
    BY <1>5, <1>7, <1>11, OnceConcat
  <1>13. Range(kept) \cup Range(hits) = Range(entries) BY <1>9, <1>10
  <1> QED BY <1>6, <1>12, <1>13

--------------------------------------------------------------------------------
(* Taking up what the cache has. *)

\* The memory's part of ShareCached.
Shares(r) ==
    LET hits == Hits(AllTokens(r))
        shared == SubSeq(hits, 1, Min({Len(hits), MaxShared(AllTokens(r))}))
    IN /\ entries' = Touched(hits)
       /\ refcount' = Shared(refcount, BlocksOf(shared))
       /\ block_table' = [block_table EXCEPT ![r] = [i \in 1 .. Len(shared) |-> shared[i].block]]

\* The table of r becomes the blocks of the first entries found, at least one
\* token short of all of them.
LEMMA ShareMemory ==
  ASSUME MemInv, NEW r \in Requests, block_table[r] = <<>>, stored[r] = 0,
         Shares(r), UNCHANGED <<free, stored, output_token_ids, kv>>
  PROVE  /\ MemInv' /\ Keys' = Keys
         /\ block_table'[r] \in Seq(Blocks)
         /\ Len(block_table'[r]) = Min({Len(Hits(AllTokens(r))), MaxShared(AllTokens(r))})
  <1> DEFINE tokens == AllTokens(r)
  <1>0. PICK hits, shared :
            /\ hits = Hits(tokens)
            /\ shared = SubSeq(hits, 1, Min({Len(hits), MaxShared(tokens)}))
            /\ entries' = Touched(hits)
            /\ refcount' = Shared(refcount, BlocksOf(shared))
            /\ block_table' = [block_table EXCEPT ![r] =
                                   [i \in 1 .. Len(shared) |-> shared[i].block]]
    BY Zenon DEF Shares
  <1>1. MemoryTypes /\ CountsHold /\ Honest /\ FreeClear /\ SharedFull /\ TablesFiled /\ TablesOnce
    BY DEF MemInv
  <1>2. tokens \in Seq(Vocab) /\ Len(tokens) = TotalLen(r) /\ TotalLen(r) \in Nat /\ TotalLen(r) > 0
    BY TableType
  <1>3. /\ hits \in Seq(Entry) /\ Len(hits) \in Nat /\ Len(hits) <= FullBlocks(tokens)
        /\ \A i \in 1 .. Len(hits) : hits[i] \in Range(entries) /\ hits[i].key = Key(tokens, i)
        /\ \A i, j \in 1 .. Len(hits) : hits[i] = hits[j] => i = j
        /\ Range(hits) \subseteq Range(entries)
    BY <1>0, <1>2, HitsType
  <1>4. MaxShared(tokens) \in Nat /\ MaxShared(tokens) * BlockSize <= TotalLen(r) - 1
    <2>1. TotalLen(r) - 1 \in Nat BY <1>2
    <2> QED BY <1>2, <2>1, Division DEF MaxShared
  <1> HIDE DEF tokens
  <1>5. PICK m \in Nat : /\ m = Min({Len(hits), MaxShared(tokens)})
                         /\ m <= Len(hits) /\ m <= MaxShared(tokens)
    BY <1>3, <1>4, MinOfTwo
  <1>6. m * BlockSize \in Nat /\ m * BlockSize <= TotalLen(r)
    <2>1. m * BlockSize <= MaxShared(tokens) * BlockSize /\ m * BlockSize \in Nat
      BY <1>4, <1>5, WholeBlocks
    <2>2. MaxShared(tokens) * BlockSize \in Nat BY <1>4, WholeBlocks
    <2> QED BY <1>2, <1>4, <2>1, <2>2
  <1>7. shared \in Seq(Entry) /\ Len(shared) = m /\ \A i \in 1 .. m : shared[i] = hits[i]
    <2>1. m \in 0 .. Len(hits) BY <1>5
    <2>2. shared = SubSeq(hits, 1, m) BY <1>0, <1>5
    <2> QED BY <1>3, <2>1, <2>2, Beginning
  <1>8. \A i \in 1 .. m : /\ hits[i] \in Range(entries) /\ hits[i].key = Key(tokens, i)
                          /\ hits[i].block \in Blocks \ free
                          /\ hits[i].block \in CachedBlocks
                          /\ kv[hits[i].block] = Key(tokens, i)
                          /\ Full(Key(tokens, i))
    <2> SUFFICES ASSUME NEW i \in 1 .. m
                 PROVE  /\ hits[i] \in Range(entries) /\ hits[i].key = Key(tokens, i)
                        /\ hits[i].block \in Blocks \ free
                        /\ hits[i].block \in CachedBlocks
                        /\ kv[hits[i].block] = Key(tokens, i)
                        /\ Full(Key(tokens, i))
      OBVIOUS
    <2>1. i \in 1 .. Len(hits) BY <1>3, <1>5
    <2>2. hits[i] \in Range(entries) /\ hits[i].key = Key(tokens, i) BY <1>3, <2>1
    <2> QED BY <2>2, EntriesType
  <1>9. ASSUME NEW i \in 1 .. m, NEW j \in 1 .. m, hits[i].block = hits[j].block PROVE i = j
    <2>1. i \in 1 .. Len(hits) /\ j \in 1 .. Len(hits) BY <1>3, <1>5
    <2>2. hits[i] = hits[j] BY <1>8, <1>9, EntriesType
    <2> QED BY <1>3, <2>1, <2>2
  <1>10. PICK table \in Seq(Blocks) : /\ table = [i \in 1 .. m |-> hits[i].block]
                                      /\ Len(table) = m
                                      /\ \A i \in 1 .. m : table[i] = hits[i].block
    <2> DEFINE t == [i \in 1 .. m |-> hits[i].block]
    <2>1. t \in [1 .. m -> Blocks] BY <1>8
    <2>2. \A i \in 1 .. m : t[i] = hits[i].block OBVIOUS
    <2> HIDE DEF t
    <2>3. m \in Nat OBVIOUS
    <2>4. t \in Seq(Blocks) BY <2>1, <2>3
    <2>5. Len(t) = m BY <2>1, <2>3, <2>4, LenProperties
    <2> QED BY <2>2, <2>4, <2>5 DEF t
  <1>11. block_table' = [block_table EXCEPT ![r] = table]
    <2>1. [i \in 1 .. Len(shared) |-> shared[i].block] = table BY <1>7, <1>10
    <2> QED BY <1>0, <2>1
  <1>12. /\ block_table'[r] = table
         /\ \A s \in Requests : s # r => block_table'[s] = block_table[s]
    BY <1>1, <1>11 DEF MemoryTypes
  <1>13. \A b : b \in Range(table) <=> \E i \in 1 .. m : hits[i].block = b
    <2>1. \A b : b \in Range(table) <=> \E i \in 1 .. Len(table) : table[i] = b BY RangeMembers
    <2> QED BY <1>10, <2>1
  <1>14. BlocksOf(shared) = Range(table)
    <2>1. \A e : e \in Range(shared) <=> \E i \in 1 .. Len(shared) : shared[i] = e
      BY <1>7, RangeMembers
    <2>2. \A e : e \in Range(shared) <=> \E i \in 1 .. m : hits[i] = e BY <1>7, <2>1
    <2>3. ASSUME NEW b PROVE b \in BlocksOf(shared) <=> b \in Range(table)
      BY <1>13, <2>2, Zenon DEF BlocksOf
    <2> QED BY <2>3
  <1>15. /\ Touched(hits) \in Seq(Entry)
         /\ Range(entries') = Range(entries)
         /\ \A i, j \in 1 .. Len(entries') : entries'[i] = entries'[j] => i = j
    BY <1>0, <1>3, TouchedType
  <1>16. CachedBlocks' = CachedBlocks BY <1>15 DEF CachedBlocks
  <1>17. \A b \in Blocks : /\ b \in Range(table) => /\ kv[b] \in Seq(Vocab) /\ Full(kv[b])
                                                    /\ b \in CachedBlocks /\ refcount[b] > 0
                                                    /\ b \notin free
                           /\ r \notin Holders(b)
                           /\ Holders(b)' = IF b \in Range(table) THEN Holders(b) \cup {r}
                                            ELSE Holders(b)
                           /\ refcount'[b] = IF b \in Range(table) THEN refcount[b] + 1
                                             ELSE refcount[b]
    <2> SUFFICES ASSUME NEW b \in Blocks
                 PROVE  /\ b \in Range(table) => /\ kv[b] \in Seq(Vocab) /\ Full(kv[b])
                                                 /\ b \in CachedBlocks /\ refcount[b] > 0
                                                 /\ b \notin free
                        /\ r \notin Holders(b)
                        /\ Holders(b)' = IF b \in Range(table) THEN Holders(b) \cup {r}
                                         ELSE Holders(b)
                        /\ refcount'[b] = IF b \in Range(table) THEN refcount[b] + 1
                                          ELSE refcount[b]
      OBVIOUS
    <2>1. r \notin Holders(b) BY NobodyListed DEF Holders
    <2>2. Holders(b)' = IF b \in Range(table) THEN Holders(b) \cup {r} ELSE Holders(b)
      BY <1>12, <2>1 DEF Holders
    <2>3. refcount'[b] = IF b \in Range(table) THEN refcount[b] + 1 ELSE refcount[b]
      BY <1>0, <1>14 DEF Shared
    <2>4. b \in Range(table) => b \in CachedBlocks /\ Full(kv[b]) BY <1>8, <1>13
    <2>5. b \in CachedBlocks => refcount[b] > 0 /\ b \notin free BY Holding
    <2>6. kv[b] \in Seq(Vocab) BY <1>1 DEF MemoryTypes
    <2> QED BY <2>1, <2>2, <2>3, <2>4, <2>5, <2>6
  <1>18. MemoryTypes'
    <2>1. refcount' \in [Blocks -> Nat] BY <1>0, <1>1 DEF MemoryTypes, Shared
    <2>2. block_table' \in [Requests -> Seq(Blocks)] BY <1>1, <1>10, <1>11 DEF MemoryTypes
    <2>3. entries' \in Seq(Entry) BY <1>0, <1>15
    <2> QED BY <2>1, <2>2, <2>3, <1>1 DEF MemoryTypes, Entry
  <1>19. CountsHold'
    <2>1. ASSUME NEW b \in Blocks
          PROVE  /\ IsFiniteSet(Holders(b)')
                 /\ refcount'[b] = Cardinality(Holders(b)') + IF b \in CachedBlocks' THEN 1 ELSE 0
                 /\ b \in free' <=> refcount'[b] = 0
      <3>1. /\ IsFiniteSet(Holders(b))
            /\ b \in free <=> refcount[b] = 0
            /\ refcount[b] = Cardinality(Holders(b)) + IF b \in CachedBlocks THEN 1 ELSE 0
            /\ Cardinality(Holders(b)) \in Nat /\ refcount[b] \in Nat
        BY <1>1, Holding DEF CountsHold
      <3>2. CASE b \in Range(table)
        <4>1. /\ IsFiniteSet(Holders(b) \cup {r})
              /\ Cardinality(Holders(b) \cup {r}) = Cardinality(Holders(b)) + 1
          BY <3>1, <1>17, FS_AddElement
        <4>2. /\ Holders(b)' = Holders(b) \cup {r} /\ refcount'[b] = refcount[b] + 1
              /\ b \in CachedBlocks' /\ b \in CachedBlocks /\ b \notin free'
          BY <3>2, <1>16, <1>17
        <4> QED BY <3>1, <4>1, <4>2
      <3>3. CASE b \notin Range(table)
        <4>1. /\ Holders(b)' = Holders(b) /\ refcount'[b] = refcount[b]
              /\ b \in CachedBlocks' <=> b \in CachedBlocks
              /\ b \in free' <=> b \in free
          BY <3>3, <1>16, <1>17
        <4> QED BY <3>1, <4>1
      <3> QED BY <3>2, <3>3
    <2> QED BY <2>1 DEF CountsHold
  <1>20. TablesOnce'
    <2>1. \A i, j \in 1 .. Len(table) : table[i] = table[j] => i = j BY <1>9, <1>10
    <2>2. ASSUME NEW s \in Requests, NEW i \in 1 .. Len(block_table'[s]),
                 NEW j \in 1 .. Len(block_table'[s]), block_table'[s][i] = block_table'[s][j]
          PROVE  i = j
      <3>1. CASE s = r BY <2>1, <2>2, <3>1, <1>12
      <3>2. CASE s # r BY <2>2, <3>2, <1>1, <1>12 DEF TablesOnce
      <3> QED BY <3>1, <3>2
    <2> QED BY <2>2 DEF TablesOnce
  <1>21. EntriesOnce'
    <2>1. ASSUME NEW i \in 1 .. Len(entries'), NEW j \in 1 .. Len(entries'),
                 entries'[i].key = entries'[j].key \/ entries'[i].block = entries'[j].block
          PROVE  i = j
      <3>1. entries'[i] \in Range(entries) /\ entries'[j] \in Range(entries)
        <4>1. entries' \in Seq(Entry) BY <1>0, <1>15
        <4>2. \A k \in 1 .. Len(entries') : entries'[k] \in Range(entries') BY <4>1, RangeMembers
        <4> QED BY <4>2, <1>15
      <3>2. entries'[i] = entries'[j] BY <2>1, <3>1, EntriesType
      <3> QED BY <1>15, <3>2
    <2> QED BY <2>1 DEF EntriesOnce
  <1>22. Honest' BY <1>1, <1>15 DEF Honest, Full
  <1>23. FreeClear' BY <1>1 DEF FreeClear
  <1>24. SharedFull'
    <2>1. ASSUME NEW b \in Blocks, refcount'[b] > 1 PROVE Full(kv[b])
      BY <2>1, <1>1, <1>17 DEF SharedFull
    <2> QED BY <2>1 DEF SharedFull, Full
  <1>25. TablesFiled'
    <2>1. ASSUME NEW s \in Requests, s # r PROVE Filed(s)'
      <3>1. Filed(s) BY <1>1 DEF TablesFiled
      <3> QED BY <2>1, <3>1, <1>12, FiledFrame
    <2>2. Filed(r)'
      <3>1. Held(r)' = m * BlockSize
        <4>1. stored'[r] = 0 /\ Len(block_table'[r]) = m BY <1>10, <1>12
        <4> QED BY <4>1 DEF Held
      <3>2. TotalLen(r)' = TotalLen(r) BY DEF TotalLen
      <3>3. BlocksNeeded(m * BlockSize) = m BY <1>5, RoundingWhole
      <3>4. ASSUME NEW i \in 1 .. m PROVE kv'[table[i]] = Context(r, m * BlockSize, i)'
        <4>1. i \in Nat /\ i > 0 /\ i * BlockSize <= m * BlockSize
          <5>1. i \in Nat /\ i > 0 /\ i <= m BY <1>5
          <5> QED BY <5>1, <1>5, WholeBlocks
        <4>2. Context(r, m * BlockSize, i) = Key(tokens, i)
          <5>1. output_token_ids \in [Requests -> Seq(Vocab)] BY <1>1 DEF MemoryTypes
          <5> QED BY <4>1, <5>1, <1>6, ContextType DEF tokens
        <4>3. Context(r, m * BlockSize, i)' = Context(r, m * BlockSize, i)
          <5>1. \A n, k : Context(r, n, k)' = Context(r, n, k) BY DEF Context, AllTokens
          <5> QED BY <5>1
        <4>4. kv[table[i]] = Key(tokens, i) BY <1>8, <1>10
        <4> QED BY <4>2, <4>3, <4>4
      <3>5. Len(block_table'[r]) = m BY <1>10, <1>12
      <3>6. Held(r)' <= TotalLen(r)' BY <1>6, <3>1, <3>2
      <3>7. BlocksNeeded(Held(r))' <= Len(block_table[r])'
        <4>1. \A n : BlocksNeeded(n)' = BlocksNeeded(n) BY DEF BlocksNeeded
        <4>2. BlocksNeeded(Held(r))' = BlocksNeeded(m * BlockSize) BY <3>1, <4>1
        <4> QED BY <1>5, <3>3, <3>5, <4>2
      <3>8. \A i \in 1 .. Len(block_table[r])' :
                kv'[block_table'[r][i]] = Context(r, Held(r), i)'
        BY <1>12, <3>1, <3>4, <3>5
      <3> QED BY <3>6, <3>7, <3>8 DEF Filed
    <2> QED BY <2>1, <2>2 DEF TablesFiled
  <1>26. Keys' = Keys BY <1>15 DEF Keys
  <1>27. /\ block_table'[r] \in Seq(Blocks)
         /\ Len(block_table'[r]) = Min({Len(Hits(AllTokens(r))), MaxShared(AllTokens(r))})
    BY <1>0, <1>5, <1>10, <1>12 DEF tokens
  <1> QED BY <1>18, <1>19, <1>20, <1>21, <1>22, <1>23, <1>24, <1>25, <1>26, <1>27 DEF MemInv

--------------------------------------------------------------------------------
(* Taking free blocks. *)

\* The lists allocate(n) may return.
LEMMA TakenType ==
  ASSUME free \subseteq Blocks, NEW n \in Nat, NEW taken \in Takings(n)
  PROVE  /\ taken \in Seq(Blocks) /\ Len(taken) = n
         /\ Range(taken) \subseteq free
         /\ \A i \in 1 .. n : taken[i] \in free
         /\ \A i, j \in 1 .. n : taken[i] = taken[j] => i = j
  <1>1. taken \in [1 .. n -> free] /\ \A i, j \in 1 .. n : taken[i] = taken[j] => i = j
    BY DEF Takings
  <1>2. taken \in [1 .. n -> Blocks] BY <1>1
  <1>3. taken \in Seq(Blocks) BY <1>2
  <1>4. Len(taken) = n BY <1>2, <1>3, LenProperties
  <1>5. Range(taken) \subseteq free BY <1>1 DEF Range
  <1> QED BY <1>1, <1>3, <1>4, <1>5

\* A table with blocks of the pool added at its end.
Grown(table, old, n, taken) ==
    /\ table \in Seq(Blocks) /\ Len(table) = Len(old) + n
    /\ Range(table) = Range(old) \cup Range(taken)
    /\ Range(taken) \subseteq free /\ free \subseteq Blocks
    /\ \A i \in 1 .. Len(old) : table[i] = old[i]
    /\ \A i \in 1 .. Len(table) : i > Len(old) => table[i] \in Range(taken)
    /\ \A b \in Range(taken) : \E i \in 1 .. Len(table) : i > Len(old) /\ table[i] = b
    /\ \A i, j \in 1 .. Len(table) : table[i] = table[j] => i = j

\* A table that takes blocks of the pool names no block twice.
LEMMA LongerTable ==
  ASSUME MemInv, NEW r \in Requests, NEW n \in Nat, NEW taken \in Takings(n)
  PROVE  Grown(block_table[r] \o taken, block_table[r], n, taken)
  <1> DEFINE old == block_table[r]
             table == old \o taken
  <1>1. /\ old \in Seq(Blocks) /\ Len(old) \in Nat /\ Range(old) \subseteq Blocks \ free
        /\ \A i, j \in 1 .. Len(old) : old[i] = old[j] => i = j
    BY TableType
  <1>2. free \subseteq Blocks BY DEF MemInv, MemoryTypes
  <1>3. /\ taken \in Seq(Blocks) /\ Len(taken) = n
        /\ Range(taken) \subseteq free
        /\ \A i, j \in 1 .. n : taken[i] = taken[j] => i = j
    BY <1>2, TakenType
  <1>4. Range(old) \cap Range(taken) = {} BY <1>1, <1>3
  <1>5. \A b : b \in Range(taken) <=> \E i \in 1 .. Len(taken) : taken[i] = b BY <1>3, RangeMembers
  <1> HIDE DEF old
  <1>7. /\ table \in Seq(Blocks) /\ Len(table) = Len(old) + Len(taken)
        /\ Range(table) = Range(old) \cup Range(taken)
        /\ \A i \in 1 .. Len(table) : table[i] = IF i <= Len(old) THEN old[i] ELSE taken[i - Len(old)]
        /\ \A i, j \in 1 .. Len(table) : table[i] = table[j] => i = j
    <2>1. /\ \A i, j \in 1 .. Len(taken) : taken[i] = taken[j] => i = j
          /\ \A i, j \in 1 .. Len(old) : old[i] = old[j] => i = j
          /\ old \in Seq(Blocks) /\ taken \in Seq(Blocks)
      BY <1>1, <1>3
    <2>2. /\ old \o taken \in Seq(Blocks) /\ Len(old \o taken) = Len(old) + Len(taken)
          /\ Range(old \o taken) = Range(old) \cup Range(taken)
          /\ \A i \in 1 .. Len(old \o taken) :
                 (old \o taken)[i] = IF i <= Len(old) THEN old[i] ELSE taken[i - Len(old)]
          /\ \A i, j \in 1 .. Len(old \o taken) : (old \o taken)[i] = (old \o taken)[j] => i = j
      BY <1>4, <2>1, OnceConcat
    <2> QED BY <2>2
  <1> HIDE DEF table
  <1>8. \A i \in 1 .. Len(old) : table[i] = old[i] BY <1>1, <1>3, <1>7
  <1>9. ASSUME NEW i \in 1 .. Len(table), i > Len(old) PROVE table[i] \in Range(taken)
    <2>1. i - Len(old) \in 1 .. Len(taken) BY <1>1, <1>3, <1>7, <1>9
    <2>2. table[i] = taken[i - Len(old)] BY <1>1, <1>7, <1>9
    <2> QED BY <1>5, <2>1, <2>2
  <1>10. ASSUME NEW b \in Range(taken) PROVE \E i \in 1 .. Len(table) : i > Len(old) /\ table[i] = b
    <2>1. PICK i \in 1 .. Len(taken) : taken[i] = b BY <1>5
    <2>2. i \in Nat /\ i > 0 /\ i <= n /\ Len(old) \in Nat BY <1>1, <1>3
    <2>3. /\ i + Len(old) \in 1 .. Len(table) /\ i + Len(old) > Len(old)
          /\ i + Len(old) - Len(old) = i /\ ~(i + Len(old) <= Len(old))
      BY <1>3, <1>7, <2>2
    <2>4. PICK k \in 1 .. Len(table) : k = i + Len(old) BY <2>3
    <2>5. table[k] = IF k <= Len(old) THEN old[k] ELSE taken[k - Len(old)] BY <1>7
    <2>6. table[i + Len(old)] = taken[i] BY <2>3, <2>4, <2>5
    <2> QED BY <2>1, <2>3, <2>6
  <1>11. Len(table) = Len(old) + n BY <1>3, <1>7
  <1>12. Grown(table, old, n, taken)
    BY <1>2, <1>3, <1>7, <1>8, <1>9, <1>10, <1>11 DEF Grown
  <1> QED BY <1>12 DEF old, table

\* The memory's part of an operation that takes blocks for r and then publishes.
Takes(r, taken, new) ==
    /\ block_table' = [block_table EXCEPT ![r] = @ \o taken]
    /\ free' = free \ Range(taken)
    /\ refcount' = Shared(CountsTaken(taken), BlocksOf(new))
    /\ entries' = entries \o new

\* It keeps the invariant if it writes blocks that were free and nothing else,
\* publishes what it may and leaves in the table of r what belongs there.
LEMMA TakeMemory ==
  ASSUME MemInv, NEW r \in Requests, NEW n \in Nat, NEW taken \in Takings(n), NEW new,
         Takes(r, taken, new), UNCHANGED output_token_ids,
         stored' \in [Requests -> Nat],
         \A s \in Requests : s # r => stored'[s] = stored[s],
         kv' \in [Blocks -> Seq(Vocab)],
         \A b \in Blocks : b \notin Range(taken) => kv'[b] = kv[b],
         Addable(new, Range(block_table[r] \o taken), kv'),
         Filed(r)'
  PROVE  MemInv'
  <1>1. MemoryTypes /\ CountsHold /\ Honest /\ FreeClear /\ SharedFull /\ TablesFiled /\ TablesOnce
    BY DEF MemInv
  <1>2. PICK table : table = block_table[r] \o taken OBVIOUS
  <1>3. /\ table \in Seq(Blocks)
        /\ Range(table) = Range(block_table[r]) \cup Range(taken)
        /\ Range(taken) \subseteq free /\ free \subseteq Blocks
        /\ \A i, j \in 1 .. Len(table) : table[i] = table[j] => i = j
    <2>1. Grown(table, block_table[r], n, taken) BY <1>2, LongerTable, Zenon
    <2> QED BY <2>1, Zenon DEF Grown
  <1>4. /\ block_table' = [block_table EXCEPT ![r] = table]
        /\ free' = free \ Range(taken)
        /\ refcount' = Shared(CountsTaken(taken), BlocksOf(new))
        /\ entries' = entries \o new
    BY <1>2 DEF Takes
  <1>5. /\ block_table'[r] = table
        /\ \A s \in Requests : s # r => block_table'[s] = block_table[s]
    BY <1>1, <1>4 DEF MemoryTypes
  <1>6. /\ entries' \in Seq(Entry)
        /\ Range(entries') = Range(entries) \cup Range(new)
        /\ \A i, j \in 1 .. Len(entries') :
               entries'[i].key = entries'[j].key \/ entries'[i].block = entries'[j].block => i = j
        /\ BlocksOf(new) \subseteq Range(table) /\ BlocksOf(new) \cap CachedBlocks = {}
        /\ \A e \in Range(new) : kv'[e.block] = e.key /\ Full(e.key)
    BY <1>2, <1>4, Zenon DEF Addable
  <1>7. \A b : b \in CachedBlocks' <=> b \in CachedBlocks \/ b \in BlocksOf(new)
    BY <1>6 DEF CachedBlocks, BlocksOf
  <1>8. \A b \in Blocks : Holders(b)' = IF b \in Range(table) THEN Holders(b) \cup {r} ELSE Holders(b)
    BY <1>3, <1>5 DEF Holders
  <1>9. \A b \in Blocks :
            refcount'[b] = (IF b \in Range(taken) THEN 1 ELSE refcount[b])
                           + IF b \in BlocksOf(new) THEN 1 ELSE 0
    <2>1. \A b \in Blocks : refcount[b] \in Nat BY <1>1 DEF MemoryTypes
    <2> QED BY <2>1, <1>4 DEF Shared, CountsTaken
  <1>10. ASSUME NEW b \in Blocks
         PROVE  /\ IsFiniteSet(Holders(b)')
                /\ refcount'[b] \in Nat
                /\ refcount'[b] = Cardinality(Holders(b)') + IF b \in CachedBlocks' THEN 1 ELSE 0
                /\ b \in free' <=> refcount'[b] = 0
    <2>1. /\ IsFiniteSet(Holders(b)) /\ Cardinality(Holders(b)) \in Nat /\ refcount[b] \in Nat
          /\ refcount[b] = Cardinality(Holders(b)) + IF b \in CachedBlocks THEN 1 ELSE 0
          /\ b \in free <=> refcount[b] = 0
          /\ b \in free => Holders(b) = {} /\ b \notin CachedBlocks
      BY <1>1, Holding DEF CountsHold
    <2>2. b \in BlocksOf(new) => b \in Range(table) /\ b \notin CachedBlocks BY <1>6
    <2>3. CASE b \in Range(taken)
      <3>1. Holders(b)' = {r} /\ b \in free /\ b \notin CachedBlocks BY <2>1, <2>3, <1>3, <1>8
      <3>2. IsFiniteSet(Holders(b)') /\ Cardinality(Holders(b)') = 1
        <4>1. IsFiniteSet({r}) /\ Cardinality({r}) = 1 BY FS_Singleton
        <4> QED BY <3>1, <4>1
      <3>3. /\ refcount'[b] = 1 + (IF b \in BlocksOf(new) THEN 1 ELSE 0)
            /\ b \in CachedBlocks' <=> b \in BlocksOf(new)
            /\ b \notin free'
        BY <2>3, <3>1, <1>4, <1>7, <1>9
      <3> QED BY <3>2, <3>3
    <2>4. CASE b \notin Range(taken)
      <3>1. Holders(b)' = Holders(b)
        <4>1. b \in Range(block_table[r]) => r \in Holders(b) BY DEF Holders
        <4> QED BY <2>4, <4>1, <1>3, <1>8
      <3>2. refcount'[b] = refcount[b] + IF b \in BlocksOf(new) THEN 1 ELSE 0 BY <2>4, <1>9
      <3>3. b \in BlocksOf(new) => b \notin free /\ b \in CachedBlocks' /\ b \notin CachedBlocks
        <4>1. Range(block_table[r]) \subseteq Blocks \ free BY TableType
        <4> QED BY <2>2, <2>4, <4>1, <1>3, <1>7
      <3>4. /\ b \notin BlocksOf(new) => (b \in CachedBlocks' <=> b \in CachedBlocks)
            /\ b \in free' <=> b \in free
        BY <2>4, <1>4, <1>7
      <3>5. CASE b \in BlocksOf(new)
        <4>1. /\ refcount'[b] = refcount[b] + 1 /\ b \in CachedBlocks'
              /\ refcount[b] = Cardinality(Holders(b)) BY <3>5, <3>2, <3>3, <2>1
        <4> QED BY <4>1, <3>1, <3>3, <3>4, <3>5, <2>1
      <3>6. CASE b \notin BlocksOf(new)
        <4>1. refcount'[b] = refcount[b] BY <3>2, <3>6, <2>1
        <4> QED BY <4>1, <3>1, <3>4, <3>6, <2>1
      <3> QED BY <3>5, <3>6
    <2> QED BY <2>3, <2>4
  <1>11. MemoryTypes'
    <2>1. refcount' \in [Blocks -> Nat]
      <3>1. refcount' = [b \in Blocks |-> refcount'[b]] BY <1>4 DEF Shared
      <3> QED BY <3>1, <1>10
    <2>2. block_table' \in [Requests -> Seq(Blocks)] BY <1>1, <1>3, <1>4 DEF MemoryTypes
    <2>3. free' \subseteq Blocks BY <1>3, <1>4
    <2>4. output_token_ids' \in [Requests -> Seq(Vocab)] BY <1>1 DEF MemoryTypes
    <2> QED BY <2>1, <2>2, <2>3, <2>4, <1>6 DEF MemoryTypes, Entry
  <1>12. CountsHold' BY <1>10 DEF CountsHold
  <1>13. TablesOnce'
    <2>1. ASSUME NEW s \in Requests, NEW i \in 1 .. Len(block_table'[s]),
                 NEW j \in 1 .. Len(block_table'[s]), block_table'[s][i] = block_table'[s][j]
          PROVE  i = j
      <3>1. CASE s = r BY <2>1, <3>1, <1>3, <1>5
      <3>2. CASE s # r BY <2>1, <3>2, <1>1, <1>5 DEF TablesOnce
      <3> QED BY <3>1, <3>2
    <2> QED BY <2>1 DEF TablesOnce
  <1>14. EntriesOnce' BY <1>6 DEF EntriesOnce
  <1>15. Honest'
    <2>1. ASSUME NEW e \in Range(entries') PROVE kv'[e.block] = e.key /\ Full(e.key)
      <3>1. CASE e \in Range(new) BY <3>1, <1>6
      <3>2. CASE e \in Range(entries)
        <4>1. e.block \in Blocks \ free /\ kv[e.block] = e.key /\ Full(e.key) BY <3>2, EntriesType
        <4>2. e.block \notin Range(taken) BY <4>1, <1>3
        <4> QED BY <4>1, <4>2
      <3> QED BY <3>1, <3>2, <1>6
    <2> QED BY <2>1 DEF Honest, Full
  <1>16. FreeClear' BY <1>1, <1>3, <1>4 DEF FreeClear
  <1>17. SharedFull'
    <2>1. ASSUME NEW b \in Blocks, refcount'[b] > 1 PROVE Full(kv'[b])
      <3>1. CASE b \in BlocksOf(new) BY <3>1, <1>6 DEF BlocksOf
      <3>2. CASE b \notin BlocksOf(new)
        <4>1. refcount[b] \in Nat BY <1>1 DEF MemoryTypes
        <4>2. b \notin Range(taken) BY <2>1, <3>2, <1>9
        <4>3. refcount'[b] = refcount[b] BY <3>2, <4>1, <4>2, <1>9
        <4> QED BY <2>1, <4>2, <4>3, <1>1 DEF SharedFull
      <3> QED BY <3>1, <3>2
    <2> QED BY <2>1 DEF SharedFull, Full
  <1>18. TablesFiled'
    <2>1. ASSUME NEW s \in Requests, s # r PROVE Filed(s)'
      <3>1. ASSUME NEW i \in 1 .. Len(block_table[s])
            PROVE  kv'[block_table[s][i]] = kv[block_table[s][i]]
        <4>1. block_table[s][i] \in Blocks \ free BY TableType
        <4> QED BY <4>1, <1>3
      <3>2. Filed(s) BY <1>1 DEF TablesFiled
      <3> QED BY <2>1, <3>1, <3>2, <1>5, FiledFrame
    <2> QED BY <2>1 DEF TablesFiled
  <1> QED BY <1>11, <1>12, <1>13, <1>14, <1>15, <1>16, <1>17, <1>18 DEF MemInv

--------------------------------------------------------------------------------
(* Writing keys and values. *)

\* Whole blocks divide.
LEMMA DivisionWhole ==
  ASSUME NEW i \in Nat
  PROVE  (i * BlockSize) \div BlockSize = i
  <1>1. i * BlockSize \in Nat BY WholeBlocks
  <1>2. PICK k \in Nat : /\ k = (i * BlockSize) \div BlockSize
                         /\ k * BlockSize <= i * BlockSize
                         /\ i * BlockSize < k * BlockSize + BlockSize
    BY <1>1, Division
  <1>3. BlockSize \in Nat /\ BlockSize > 0 /\ k * BlockSize \in Nat BY BlockSizes, WholeBlocks
  <1>4. ~(i < k)
    <2>1. i < k => i * BlockSize + BlockSize <= k * BlockSize BY WholeBlocks
    <2> QED BY <1>1, <1>2, <1>3, <2>1
  <1>5. ~(k < i)
    <2>1. k < i => k * BlockSize + BlockSize <= i * BlockSize BY WholeBlocks
    <2> QED BY <1>1, <1>2, <1>3, <2>1
  <1> QED BY <1>2, <1>4, <1>5

\* The block of the token after n.
LEMMA NextBlock ==
  ASSUME NEW n \in Nat
  PROVE  BlocksNeeded(n + 1) = n \div BlockSize + 1
  <1>1. BlockSize \in Nat /\ BlockSize > 0 BY BlockSizes
  <1>2. PICK q \in Nat : /\ q = n \div BlockSize
                         /\ q * BlockSize <= n /\ n < q * BlockSize + BlockSize
    BY Division
  <1>3. n + 1 \in Nat OBVIOUS
  <1>4. PICK k \in Nat : k = BlocksNeeded(n + 1) BY <1>3, Rounding
  <1>5. \A i \in Nat : i < k <=> i * BlockSize < n + 1 BY <1>3, <1>4, Rounding
  <1>6. q * BlockSize \in Nat /\ (q + 1) * BlockSize = q * BlockSize + BlockSize BY WholeBlocks
  <1>7. q < k BY <1>2, <1>5, <1>6
  <1>8. ~(q + 1 < k)
    <2>1. q + 1 \in Nat OBVIOUS
    <2>2. q + 1 < k <=> (q + 1) * BlockSize < n + 1 BY <1>5, <2>1
    <2> QED BY <1>1, <1>2, <1>6, <2>2
  <1> QED BY <1>2, <1>4, <1>7, <1>8

\* The blocks of a table hold the first n tokens.
Past(content, tokens, table, n) ==
    \A i \in 1 .. BlocksNeeded(n) :
        content[table[i]] = SubSeq(tokens, 1, Min({i * BlockSize, n}))

\* After a write through a table, the blocks from the one of the first token
\* written on hold the tokens up to their end, and the others are untouched.
Wrote(content, tokens, table, from, to) ==
    /\ \A b \in Blocks :
           (\A i \in from \div BlockSize + 1 .. BlocksNeeded(to) : table[i] # b)
           => Written(content, tokens, table, from, to)[b] = content[b]
    /\ \A i \in from \div BlockSize + 1 .. BlocksNeeded(to) :
           /\ table[i] \in Blocks
           /\ Written(content, tokens, table, from, to)[table[i]]
              = SubSeq(tokens, 1, Min({i * BlockSize, to}))

\* So it does when the past is as it should be.
LEMMA WrittenType ==
  ASSUME NEW content, NEW tokens, NEW table \in Seq(Blocks), NEW from \in Nat, NEW to \in Nat,
         \A i, j \in 1 .. Len(table) : table[i] = table[j] => i = j,
         BlocksNeeded(to) <= Len(table),
         Past(content, tokens, table, from)
  PROVE  Wrote(content, tokens, table, from, to)
  <1> DEFINE touched == from \div BlockSize + 1 .. BlocksNeeded(to)
             past == \A i \in 1 .. BlocksNeeded(from) :
                         content[table[i]] = SubSeq(tokens, 1, Min({i * BlockSize, from}))
             value(b) == LET i == CHOOSE i \in touched : table[i] = b
                         IN IF past THEN SubSeq(tokens, 1, Min({i * BlockSize, to})) ELSE Garbage
             written == Written(content, tokens, table, from, to)
  <1>1. written = [b \in Blocks |-> IF \E i \in touched : table[i] = b THEN value(b) ELSE content[b]]
    BY Zenon DEF Written
  <1>2. past BY DEF Past
  <1>3. from \div BlockSize \in Nat /\ BlocksNeeded(to) \in Nat BY Division, Rounding
  <1>4. Len(table) \in Nat BY LenProperties
  <1>5. \A i \in touched : i \in 1 .. Len(table) BY <1>3, <1>4
  <1> HIDE DEF touched, past, written
  <1>6. ASSUME NEW i \in touched
        PROVE  /\ table[i] \in Blocks
               /\ written[table[i]] = SubSeq(tokens, 1, Min({i * BlockSize, to}))
    <2>1. table[i] \in Blocks BY <1>5, ElementOfSeq
    <2> DEFINE k == CHOOSE k \in touched : table[k] = table[i]
    <2>2. k \in touched /\ table[k] = table[i] OBVIOUS
    <2>3. k = i
      <3> HIDE DEF k
      <3>1. k \in 1 .. Len(table) /\ i \in 1 .. Len(table) BY <1>5, <2>2
      <3> QED BY <2>2, <3>1
    <2>4. value(table[i]) = SubSeq(tokens, 1, Min({i * BlockSize, to})) BY <1>2, <2>3, Zenon
    <2>5. \E l \in touched : table[l] = table[i] OBVIOUS
    <2> HIDE DEF value, k
    <2>6. written[table[i]] = value(table[i]) BY <1>1, <2>1, <2>5
    <2> QED BY <2>1, <2>4, <2>6
  <1>7. ASSUME NEW b \in Blocks, \A i \in touched : table[i] # b PROVE written[b] = content[b]
    <2> HIDE DEF value
    <2> QED BY <1>1, <1>7
  <1> QED BY <1>6, <1>7 DEF touched, written, Wrote

--------------------------------------------------------------------------------
(* _prefill() of what was not shared. *)

\* What a request that has been given what it shares still lacks.
LEMMA LackingType ==
  ASSUME MemInv, NEW r \in Requests, stored[r] = 0
  PROVE  /\ Lacking(r) \in Nat
         /\ Held(r) = Len(block_table[r]) * BlockSize
         /\ Len(block_table[r]) \in Nat /\ Len(block_table[r]) * BlockSize \in Nat
         /\ Len(block_table[r]) * BlockSize <= TotalLen(r)
         /\ Len(block_table[r]) + Lacking(r) = BlocksNeeded(TotalLen(r))
  <1>1. /\ Len(block_table[r]) \in Nat /\ TotalLen(r) \in Nat /\ Held(r) <= TotalLen(r)
    BY TableType
  <1>2. PICK k \in Nat : k = Len(block_table[r]) BY <1>1
  <1>3. Held(r) = k * BlockSize /\ k * BlockSize \in Nat BY <1>2, WholeBlocks DEF Held
  <1>4. PICK n \in Nat : n = BlocksNeeded(TotalLen(r)) BY <1>1, Rounding
  <1>5. TotalLen(r) <= n * BlockSize /\ n * BlockSize \in Nat BY <1>1, <1>4, Rounding, WholeBlocks
  <1>6. k <= n
    <2>1. n < k => n * BlockSize + BlockSize <= k * BlockSize BY WholeBlocks
    <2> QED BY <2>1, <1>1, <1>3, <1>5, BlockSizes
  <1>7. Lacking(r) = n - k BY <1>2, <1>4 DEF Lacking
  <1> QED BY <1>1, <1>2, <1>3, <1>4, <1>6, <1>7

\* The blocks for the rest are taken and written, and all full blocks published.
LEMMA FillMemory ==
  ASSUME MemInv, NEW r \in Requests, stored[r] = 0, FillRest(r), UNCHANGED output_token_ids
  PROVE  MemInv' /\ Keys \subseteq Keys'
  <1> DEFINE old == block_table[r]
             total == TotalLen(r)
  <1>1. PICK taken \in Takings(Lacking(r)) :
            /\ block_table' = [block_table EXCEPT ![r] = old \o taken]
            /\ kv' = Written(kv, AllTokens(r), old \o taken, Len(old) * BlockSize, total)
            /\ stored' = [stored EXCEPT ![r] = total]
            /\ entries' = entries \o New(AllTokens(r), old \o taken)
            /\ free' = free \ Range(taken)
            /\ refcount' = Shared(CountsTaken(taken), BlocksOf(New(AllTokens(r), old \o taken)))
    BY Zenon DEF FillRest
  <1>2. PICK n \in Nat : n = Lacking(r) BY LackingType
  <1>3. PICK k \in Nat : /\ k = Len(old) /\ k * BlockSize \in Nat /\ k * BlockSize <= total
                         /\ Held(r) = k * BlockSize /\ k + n = BlocksNeeded(total)
    BY <1>2, LackingType
  <1>4. PICK t \in Nat : t = total /\ t > 0 BY TableType
  <1>5. PICK tokens \in Seq(Vocab) : tokens = AllTokens(r) /\ Len(tokens) = t BY <1>4, TableType
  <1>6. PICK table : table = old \o taken OBVIOUS
  <1>7. /\ table \in Seq(Blocks) /\ Len(table) = k + n
        /\ Range(taken) \subseteq free /\ free \subseteq Blocks
        /\ \A i \in 1 .. k : table[i] = old[i]
        /\ \A i \in 1 .. k + n : i > k => table[i] \in Range(taken)
        /\ \A b \in Range(taken) : \E i \in 1 .. k + n : i > k /\ table[i] = b
        /\ \A i, j \in 1 .. Len(table) : table[i] = table[j] => i = j
    <2>1. taken \in Takings(n) BY <1>2
    <2>2. Grown(table, old, n, taken) BY <1>6, <2>1, LongerTable, Zenon
    <2>3. /\ table \in Seq(Blocks) /\ Len(table) = Len(old) + n
          /\ Range(taken) \subseteq free /\ free \subseteq Blocks
          /\ \A i \in 1 .. Len(old) : table[i] = old[i]
          /\ \A i \in 1 .. Len(table) : i > Len(old) => table[i] \in Range(taken)
          /\ \A b \in Range(taken) : \E i \in 1 .. Len(table) : i > Len(old) /\ table[i] = b
          /\ \A i, j \in 1 .. Len(table) : table[i] = table[j] => i = j
      BY <2>2, Zenon DEF Grown
    <2>4. Len(old) = k BY <1>3
    <2> HIDE DEF old
    <2> QED BY <2>3, <2>4, Zenon
  <1>8. output_token_ids \in [Requests -> Seq(Vocab)] /\ stored \in [Requests -> Nat]
        /\ kv \in [Blocks -> Seq(Vocab)]
    BY DEF MemInv, MemoryTypes
  <1>9. \A i \in 1 .. k : i \in Nat /\ i > 0 /\ i * BlockSize \in Nat /\ i * BlockSize <= k * BlockSize
    <2>1. \A i \in 1 .. k : i \in Nat /\ i > 0 /\ i <= k OBVIOUS
    <2> QED BY <2>1, WholeBlocks
  <1>10. \A i \in 1 .. k : kv[table[i]] = Key(tokens, i) /\ old[i] \in Blocks \ free
    <2> SUFFICES ASSUME NEW i \in 1 .. k
                 PROVE  kv[table[i]] = Key(tokens, i) /\ old[i] \in Blocks \ free
      OBVIOUS
    <2>1. i \in 1 .. Len(old) BY <1>3
    <2>2. kv[old[i]] = Context(r, Held(r), i) /\ old[i] \in Blocks \ free BY <2>1, TableType
    <2>3. Context(r, k * BlockSize, i) = Key(AllTokens(r), i)
      <3>1. PICK m \in Nat : m = k * BlockSize /\ m <= TotalLen(r) BY <1>3
      <3>2. i \in Nat /\ i > 0 /\ i * BlockSize <= m BY <1>9, <3>1
      <3>3. Context(r, m, i) = Key(AllTokens(r), i) BY <1>8, <3>1, <3>2, ContextType, Zenon
      <3> QED BY <3>1, <3>3
    <2> QED BY <2>2, <2>3, <1>3, <1>5, <1>7
  <1>11. BlocksNeeded(k * BlockSize) = k /\ (k * BlockSize) \div BlockSize = k
    BY RoundingWhole, DivisionWhole
  <1>12. \A i \in 1 .. BlocksNeeded(k * BlockSize) :
             kv[table[i]] = SubSeq(tokens, 1, Min({i * BlockSize, k * BlockSize}))
    <2> SUFFICES ASSUME NEW i \in 1 .. k
                 PROVE  kv[table[i]] = SubSeq(tokens, 1, Min({i * BlockSize, k * BlockSize}))
      BY <1>11
    <2>1. i * BlockSize \in Int /\ k * BlockSize \in Int /\ i * BlockSize <= k * BlockSize
      BY <1>3, <1>9
    <2>2. Min({i * BlockSize, k * BlockSize}) = i * BlockSize BY <2>1, MinOfTwo
    <2> QED BY <2>2, <1>10 DEF Key
  <1>13. kv' = Written(kv, tokens, table, k * BlockSize, t) BY <1>1, <1>3, <1>4, <1>5, <1>6
  <1>14. BlocksNeeded(t) = k + n /\ BlocksNeeded(t) <= Len(table) BY <1>3, <1>4, <1>7
  <1>15. /\ \A b \in Blocks : (\A i \in k + 1 .. k + n : table[i] # b) => kv'[b] = kv[b]
         /\ \A i \in k + 1 .. k + n : kv'[table[i]] = SubSeq(tokens, 1, Min({i * BlockSize, t}))
    <2>1. k * BlockSize \in Nat /\ BlocksNeeded(t) <= Len(table) BY <1>3, <1>14
    <2>3. table \in Seq(Blocks) /\ \A i, j \in 1 .. Len(table) : table[i] = table[j] => i = j
      BY <1>7
    <2>4. Past(kv, tokens, table, k * BlockSize) BY <1>12 DEF Past
    <2>2. Wrote(kv, tokens, table, k * BlockSize, t)
      BY <2>1, <2>3, <2>4, WrittenType
    <2>5. /\ \A b \in Blocks :
                 (\A i \in (k * BlockSize) \div BlockSize + 1 .. BlocksNeeded(t) : table[i] # b)
                 => Written(kv, tokens, table, k * BlockSize, t)[b] = kv[b]
          /\ \A i \in (k * BlockSize) \div BlockSize + 1 .. BlocksNeeded(t) :
                 Written(kv, tokens, table, k * BlockSize, t)[table[i]]
                 = SubSeq(tokens, 1, Min({i * BlockSize, t}))
      BY <2>2, Zenon DEF Wrote
    <2> QED BY <2>5, <1>11, <1>13, <1>14, Zenon
  <1> HIDE DEF old, total
  <1>16. \A b \in Blocks : b \notin Range(taken) => kv'[b] = kv[b]
    <2>1. \A i \in k + 1 .. k + n : i \in 1 .. k + n /\ i > k BY <1>2, <1>3
    <2> QED BY <2>1, <1>7, <1>15
  <1>17. \A i \in 1 .. k + n : kv'[table[i]] = Context(r, t, i) /\ Context(r, t, i) \in Seq(Vocab)
    <2> SUFFICES ASSUME NEW i \in 1 .. k + n
                 PROVE  kv'[table[i]] = Context(r, t, i) /\ Context(r, t, i) \in Seq(Vocab)
      OBVIOUS
    <2>1. i \in Nat /\ i > 0 /\ i <= BlocksNeeded(t) BY <1>14
    <2>2. t <= TotalLen(r) BY <1>4 DEF total
    <2>3. /\ Context(r, t, i) \in Seq(Vocab)
          /\ Context(r, t, i) = SubSeq(AllTokens(r), 1, Min({i * BlockSize, t}))
          /\ i * BlockSize <= t => Context(r, t, i) = Key(AllTokens(r), i)
      BY <2>1, <2>2, <1>8, <1>4, ContextType, Zenon
    <2>4. CASE i <= k
      <3>1. i \in 1 .. k BY <2>1, <2>4
      <3>2. i * BlockSize <= t BY <3>1, <1>3, <1>4, <1>9
      <3>3. table[i] \in Blocks /\ table[i] \notin Range(taken)
        BY <3>1, <1>7, <1>10
      <3> QED BY <3>1, <3>2, <3>3, <2>3, <1>5, <1>10, <1>16
    <2>5. CASE ~(i <= k)
      <3>1. i \in k + 1 .. k + n BY <2>1, <2>5
      <3> QED BY <3>1, <2>3, <1>5, <1>15
    <2> QED BY <2>4, <2>5
  <1>18. kv' \in [Blocks -> Seq(Vocab)]
    <2>1. \A b \in Blocks : kv'[b] \in Seq(Vocab)
      <3> SUFFICES ASSUME NEW b \in Blocks PROVE kv'[b] \in Seq(Vocab)
        OBVIOUS
      <3>1. CASE b \in Range(taken)
        <4>1. PICK i \in 1 .. k + n : table[i] = b BY <3>1, <1>7
        <4> QED BY <4>1, <1>17
      <3>2. CASE b \notin Range(taken) BY <3>2, <1>8, <1>16
      <3> QED BY <3>1, <3>2
    <2>2. kv' = [b \in Blocks |-> kv'[b]] BY <1>13, Zenon DEF Written
    <2> QED BY <2>1, <2>2
  <1>19. Addable(New(tokens, table), Range(table), kv')
    <2>1. \A e \in Range(entries) : kv'[e.block] = e.key
      <3> SUFFICES ASSUME NEW e \in Range(entries) PROVE kv'[e.block] = e.key
        OBVIOUS
      <3>1. e.block \in Blocks \ free /\ kv[e.block] = e.key BY EntriesType
      <3> QED BY <3>1, <1>7, <1>16
    <2>2. ASSUME NEW i \in 1 .. FullBlocks(tokens), i <= Len(table)
          PROVE  kv'[table[i]] = Key(tokens, i)
      <3>1. i \in Nat /\ i > 0 /\ i <= FullBlocks(tokens) BY KeyType
      <3>2. i * BlockSize <= t BY <3>1, <1>5, KeyType
      <3>3. i \in 1 .. k + n BY <2>2, <3>1, <1>7
      <3>4. t <= TotalLen(r) BY <1>4 DEF total
      <3>5. Context(r, t, i) = Key(AllTokens(r), i) BY <3>1, <3>2, <3>4, <1>8, ContextType
      <3> QED BY <3>3, <3>5, <1>5, <1>17
    <2>3. \A i, j \in 1 .. Len(table) : table[i] = table[j] => i = j BY <1>7
    <2>4. table \in Seq(Blocks) BY <1>7
    <2>5. PICK content : content = kv' OBVIOUS
    <2>6. Addable(New(tokens, table), Range(table), content)
      <3>1. /\ \A e \in Range(entries) : content[e.block] = e.key
            /\ \A i \in 1 .. FullBlocks(tokens) : i <= Len(table) => content[table[i]] = Key(tokens, i)
        BY <2>1, <2>2, <2>5
      <3> QED BY <3>1, <2>3, <2>4, NewAddable
    <2> QED BY <2>5, <2>6, Zenon
  <1>20. /\ stored'[r] = t /\ stored' \in [Requests -> Nat]
         /\ \A s \in Requests : s # r => stored'[s] = stored[s]
    BY <1>1, <1>4, <1>8
  <1>21. Filed(r)'
    <2>1. block_table'[r] = table BY <1>1, <1>6 DEF old, MemInv, MemoryTypes
    <2>2. Held(r)' = t BY <1>4, <1>20 DEF Held
    <2>3. TotalLen(r)' = t BY <1>4 DEF TotalLen, total
    <2>4. BlocksNeeded(Held(r))' <= Len(block_table[r])'
      <3>1. \A m : BlocksNeeded(m)' = BlocksNeeded(m) BY DEF BlocksNeeded
      <3>2. BlocksNeeded(Held(r))' = BlocksNeeded(t) BY <2>2, <3>1
      <3> QED BY <2>1, <3>2, <1>14
    <2>5. \A m, i : Context(r, m, i)' = Context(r, m, i) BY DEF Context, AllTokens
    <2>6. \A i \in 1 .. Len(block_table[r])' : kv'[block_table'[r][i]] = Context(r, Held(r), i)'
      <3>1. \A i \in 1 .. k + n : kv'[table[i]] = Context(r, t, i)' BY <2>5, <1>17
      <3> QED BY <2>1, <2>2, <3>1, <1>7
    <2> QED BY <2>2, <2>3, <2>4, <2>6 DEF Filed
  <1>22. Takes(r, taken, New(tokens, table)) BY <1>1, <1>5, <1>6 DEF Takes, old
  <1>23. taken \in Takings(n) BY <1>2
  <1>24. Addable(New(tokens, table), Range(block_table[r] \o taken), kv') BY <1>6, <1>19 DEF old
  <1>25. Keys \subseteq Keys'
    <2>1. Range(entries') = Range(entries) \cup Range(New(tokens, table))
      BY <1>19, <1>22, Zenon DEF Addable, Takes
    <2> QED BY <2>1 DEF Keys
  <1> QED BY <1>16, <1>18, <1>20, <1>21, <1>22, <1>23, <1>24, <1>25, TakeMemory

--------------------------------------------------------------------------------
(* Growth. *)

\* A request whose tokens are stored takes blocks for more.
LEMMA GrowMemory ==
  ASSUME MemInv, NEW r \in Requests, stored[r] > 0, NEW n \in Nat, NEW taken \in Takings(n),
         Extend(r, taken), UNCHANGED <<stored, output_token_ids, entries, kv>>
  PROVE  MemInv' /\ block_table' = [block_table EXCEPT ![r] = @ \o taken]
         /\ Len(block_table'[r]) = Len(block_table[r]) + n
  <1> DEFINE old == block_table[r]
  <1>1. /\ block_table' = [block_table EXCEPT ![r] = old \o taken]
        /\ free' = free \ Range(taken) /\ refcount' = CountsTaken(taken)
    BY DEF Extend, Allocate
  <1>2. PICK table : table = old \o taken OBVIOUS
  <1>3. Grown(table, old, n, taken) BY <1>2, LongerTable, Zenon
  <1>4. PICK k \in Nat : k = Len(old) BY TableType
  <1>5. /\ Len(table) = k + n
        /\ \A i \in 1 .. k : table[i] = old[i]
        /\ \A i \in 1 .. k + n : i > k => table[i] \in Range(taken)
        /\ Range(taken) \subseteq free
    BY <1>3, <1>4, Zenon DEF Grown
  <1>6. /\ \A i \in 1 .. k : kv[old[i]] = Context(r, Held(r), i)
        /\ Held(r) \in Nat /\ Held(r) <= TotalLen(r) /\ BlocksNeeded(Held(r)) <= k
        /\ TotalLen(r) \in Nat
    BY <1>4, TableType
  <1>7. /\ block_table \in [Requests -> Seq(Blocks)] /\ stored \in [Requests -> Nat]
        /\ output_token_ids \in [Requests -> Seq(Vocab)] /\ kv \in [Blocks -> Seq(Vocab)]
        /\ refcount \in [Blocks -> Nat] /\ FreeClear
    BY DEF MemInv, MemoryTypes
  <1>8. block_table'[r] = table BY <1>1, <1>2, <1>7
  <1>9. PICK h \in Nat : /\ h = Held(r) /\ h <= TotalLen(r) /\ BlocksNeeded(h) <= k BY <1>6
  <1> HIDE DEF old
  <1>10. \A i \in 1 .. k + n : kv[table[i]] = Context(r, h, i)
    <2> SUFFICES ASSUME NEW i \in 1 .. k + n PROVE kv[table[i]] = Context(r, h, i)
      OBVIOUS
    <2>1. CASE i <= k
      <3>1. i \in 1 .. k BY <2>1
      <3> QED BY <3>1, <1>5, <1>6, <1>9
    <2>2. CASE ~(i <= k)
      <3>1. i \in Nat /\ i > 0 /\ i > k BY <2>2
      <3>2. kv[table[i]] = <<>> BY <3>1, <1>5, <1>7 DEF FreeClear
      <3>3. BlocksNeeded(h) \in Nat BY Rounding
      <3>4. i > BlocksNeeded(h) BY <3>1, <3>3, <1>9
      <3>5. Context(r, h, i) = <<>> BY <3>1, <3>4, <1>7, <1>9, ContextType
      <3> QED BY <3>2, <3>5
    <2> QED BY <2>1, <2>2
  <1>11. Filed(r)'
    <2>1. Held(r)' = h
      <3>1. Held(r) = stored[r] BY DEF Held
      <3> QED BY <3>1, <1>7, <1>9 DEF Held
    <2>2. TotalLen(r)' = TotalLen(r) BY DEF TotalLen
    <2>3. BlocksNeeded(Held(r))' <= Len(block_table[r])'
      <3>1. \A m : BlocksNeeded(m)' = BlocksNeeded(m) BY DEF BlocksNeeded
      <3>2. BlocksNeeded(Held(r))' = BlocksNeeded(h) BY <2>1, <3>1
      <3>3. BlocksNeeded(h) \in Nat BY Rounding
      <3> QED BY <3>2, <3>3, <1>5, <1>8, <1>9
    <2>4. \A m, i : Context(r, m, i)' = Context(r, m, i) BY DEF Context, AllTokens
    <2>5. \A i \in 1 .. Len(block_table[r])' : kv'[block_table'[r][i]] = Context(r, Held(r), i)'
      <3>1. \A i \in 1 .. k + n : kv'[table[i]] = Context(r, h, i)' BY <2>4, <1>10
      <3> QED BY <2>1, <3>1, <1>5, <1>8
    <2> QED BY <2>1, <2>2, <2>3, <2>5, <1>9 DEF Filed
  <1>12. Takes(r, taken, <<>>)
    <2>1. BlocksOf(<<>>) = {} BY NothingAddable
    <2>2. refcount' = Shared(CountsTaken(taken), {})
      <3>1. CountsTaken(taken) = [b \in Blocks |-> CountsTaken(taken)[b]] BY DEF CountsTaken
      <3> QED BY <3>1, <1>1 DEF Shared
    <2>3. entries \in Seq(Entry) BY EntriesType
    <2>4. entries' = entries \o <<>> BY <2>3, ConcatEmptySeq
    <2> QED BY <2>1, <2>2, <2>4, <1>1 DEF Takes, old
  <1>13. Addable(<<>>, Range(block_table[r] \o taken), kv') BY NothingAddable
  <1>14. /\ stored' \in [Requests -> Nat] /\ kv' \in [Blocks -> Seq(Vocab)]
         /\ \A s \in Requests : s # r => stored'[s] = stored[s]
         /\ \A b \in Blocks : b \notin Range(taken) => kv'[b] = kv[b]
    BY <1>7
  <1>15. MemInv' BY <1>11, <1>12, <1>13, <1>14, TakeMemory
  <1>16. Len(block_table'[r]) = Len(block_table[r]) + n BY <1>4, <1>5, <1>8 DEF old
  <1> QED BY <1>1, <1>15, <1>16 DEF old

--------------------------------------------------------------------------------
(* One token more. *)

\* The beginnings of what a request has written do not change when it goes on.
LEMMA ContextGrows ==
  ASSUME output_token_ids \in [Requests -> Seq(Vocab)], NEW r \in Requests, NEW token \in Vocab,
         output_token_ids' = [output_token_ids EXCEPT ![r] = Append(@, token)],
         NEW n \in Nat, n <= TotalLen(r), NEW i \in Nat
  PROVE  Context(r, n, i)' = Context(r, n, i)
  <1> DEFINE p == Prompt[r]
             o == output_token_ids[r]
             all == AllTokens(r)
  <1>1. p \in Seq(Vocab) /\ o \in Seq(Vocab) BY EngineAssumption
  <1>2. all \in Seq(Vocab) /\ Len(all) = TotalLen(r) /\ TotalLen(r) \in Nat BY TokensType
  <1>3. AllTokens(r)' = all \o <<token>>
    <2>1. AllTokens(r)' = p \o Append(o, token) /\ all = p \o o BY DEF AllTokens
    <2> HIDE DEF p, o, all
    <2>2. Append(o, token) = o \o <<token>> BY <1>1, AppendIsConcat
    <2>3. <<token>> \in Seq(Vocab) OBVIOUS
    <2>4. p \o (o \o <<token>>) = (p \o o) \o <<token>> BY <1>1, <2>3, ConcatAssociative
    <2> QED BY <2>1, <2>2, <2>4
  <1> HIDE DEF all
  <1>4. i * BlockSize \in Nat BY WholeBlocks
  <1>5. Min({i * BlockSize, n}) = IF i * BlockSize <= n THEN i * BlockSize ELSE n BY <1>4, MinOfTwo
  <1>6. Min({i * BlockSize, n}) \in 0 .. Len(all) BY <1>2, <1>4, <1>5
  <1>7. <<token>> \in Seq(Vocab) OBVIOUS
  <1>8. PICK m \in 0 .. Len(all) : m = Min({i * BlockSize, n}) BY <1>6
  <1>9. SubSeq(all \o <<token>>, 1, m) = SubSeq(all, 1, m) BY <1>2, <1>7, BeginningOfConcat
  <1>10. Context(r, n, i) = IF (i - 1) * BlockSize < n THEN SubSeq(all, 1, m) ELSE <<>>
    BY <1>8 DEF Context, all
  <1>11. Context(r, n, i)' = IF (i - 1) * BlockSize < n
                             THEN SubSeq(all \o <<token>>, 1, m) ELSE <<>>
    BY <1>3, <1>8 DEF Context
  <1> QED BY <1>9, <1>10, <1>11

\* A request has a length after any step that keeps its tokens well typed.
LEMMA TotalType ==
  ASSUME NEW r \in Requests, output_token_ids' \in [Requests -> Seq(Vocab)]
  PROVE  TotalLen(r)' \in Nat
  <1>1. Prompt[r] \in Seq(Vocab) /\ output_token_ids'[r] \in Seq(Vocab) BY EngineAssumption
  <1>2. Len(Prompt[r]) \in Nat /\ Len(output_token_ids'[r]) \in Nat BY <1>1, LenProperties
  <1> QED BY <1>2 DEF TotalLen

\* A token is handed out and nothing else happens.
LEMMA DeliverMemory ==
  ASSUME MemInv, NEW r \in Requests, NEW token \in Vocab,
         output_token_ids' = [output_token_ids EXCEPT ![r] = Append(@, token)],
         UNCHANGED <<free, refcount, block_table, stored, entries, kv>>
  PROVE  MemInv'
  <1>1. /\ MemoryTypes /\ CountsHold /\ TablesOnce /\ EntriesOnce
        /\ Honest /\ FreeClear /\ SharedFull /\ TablesFiled
    BY DEF MemInv
  <1>2. /\ output_token_ids \in [Requests -> Seq(Vocab)]
        /\ output_token_ids' \in [Requests -> Seq(Vocab)]
        /\ \A s \in Requests : s # r => output_token_ids'[s] = output_token_ids[s]
    <2>1. output_token_ids \in [Requests -> Seq(Vocab)] BY <1>1 DEF MemoryTypes
    <2>2. Append(output_token_ids[r], token) \in Seq(Vocab) BY <2>1, AppendProperties
    <2> QED BY <2>1, <2>2
  <1>3. MemoryTypes' BY <1>1, <1>2 DEF MemoryTypes, Entry
  <1>4. CountsHold' BY <1>1 DEF CountsHold, Holders, CachedBlocks
  <1>5. TablesOnce' BY <1>1 DEF TablesOnce
  <1>6. EntriesOnce' BY <1>1 DEF EntriesOnce
  <1>7. Honest' BY <1>1 DEF Honest, Full
  <1>8. FreeClear' BY <1>1 DEF FreeClear
  <1>9. SharedFull' BY <1>1 DEF SharedFull, Full
  <1>10. TablesFiled'
    <2>1. ASSUME NEW s \in Requests, s # r PROVE Filed(s)'
      <3>1. Filed(s) BY <1>1 DEF TablesFiled
      <3> QED BY <2>1, <3>1, <1>2, FiledFrame
    <2>2. Filed(r)'
      <3>1. /\ Held(r) \in Nat /\ Held(r) <= TotalLen(r) /\ TotalLen(r) \in Nat
            /\ BlocksNeeded(Held(r)) <= Len(block_table[r])
            /\ \A i \in 1 .. Len(block_table[r]) : kv[block_table[r][i]] = Context(r, Held(r), i)
        BY TableType
      <3>2. PICK h \in Nat : h = Held(r) /\ h <= TotalLen(r) BY <3>1
      <3>3. Held(r)' = h BY <3>2 DEF Held
      <3>4. TotalLen(r) <= TotalLen(r)'
        <4>1. output_token_ids[r] \in Seq(Vocab) /\ Prompt[r] \in Seq(Vocab)
              /\ output_token_ids'[r] = Append(output_token_ids[r], token)
          BY <1>2, EngineAssumption
        <4>2. /\ Len(output_token_ids'[r]) = Len(output_token_ids[r]) + 1
              /\ Len(output_token_ids[r]) \in Nat /\ Len(Prompt[r]) \in Nat
          BY <4>1, AppendProperties, LenProperties
        <4> QED BY <4>2 DEF TotalLen
      <3>5. TotalLen(r)' \in Nat BY <1>2, TotalType
      <3>6. BlocksNeeded(Held(r))' <= Len(block_table[r])'
        <4>1. \A m : BlocksNeeded(m)' = BlocksNeeded(m) BY DEF BlocksNeeded
        <4>2. BlocksNeeded(Held(r))' = BlocksNeeded(h) BY <3>3, <4>1
        <4> QED BY <3>1, <3>2, <4>2
      <3>7. \A i \in 1 .. Len(block_table[r])' : kv'[block_table'[r][i]] = Context(r, Held(r), i)'
        <4> SUFFICES ASSUME NEW i \in 1 .. Len(block_table[r])
                     PROVE  kv'[block_table'[r][i]] = Context(r, Held(r), i)'
          OBVIOUS
        <4>1. i \in Nat BY TableType
        <4>2. Context(r, h, i)' = Context(r, h, i) BY <3>2, <4>1, <1>2, ContextGrows
        <4>3. Context(r, Held(r), i)' = Context(r, h, i)' BY <3>3 DEF Context
        <4> QED BY <3>1, <3>2, <4>2, <4>3
      <3>8. Held(r)' <= TotalLen(r)' BY <3>1, <3>2, <3>3, <3>4, <3>5
      <3> QED BY <3>6, <3>7, <3>8 DEF Filed
    <2> QED BY <2>1, <2>2 DEF TablesFiled
  <1> QED BY <1>1, <1>3, <1>4, <1>5, <1>6, <1>7, <1>8, <1>9, <1>10 DEF MemInv

--------------------------------------------------------------------------------
(* _decode() writes the last token of everybody. *)

\* A token can be stored after those of r, and r has it.
Ready(r) == stored[r] > 0 /\ stored[r] + 1 <= TotalLen(r)
            /\ BlocksNeeded(stored[r] + 1) <= Len(block_table[r])

\* The block written next is not full, so nobody but r holds it.
LEMMA SlotAlone ==
  ASSUME MemInv, NEW r \in Requests, Ready(r)
  PROVE  /\ LastSlot(r) \in Blocks \ free /\ LastSlot(r) \notin CachedBlocks
         /\ refcount[LastSlot(r)] = 1 /\ Holders(LastSlot(r)) = {r}
  <1>1. PICK n \in Nat : n = stored[r] /\ n > 0 BY DEF Ready, MemInv, MemoryTypes
  <1>2. PICK q \in Nat : q = n \div BlockSize /\ q * BlockSize \in Nat
                         /\ q * BlockSize <= n /\ n < q * BlockSize + BlockSize
    BY Division, WholeBlocks
  <1>3. BlocksNeeded(n + 1) = q + 1 BY <1>2, NextBlock
  <1>4. q + 1 \in 1 .. Len(block_table[r])
    <2>1. Len(block_table[r]) \in Nat BY TableType
    <2> QED BY <2>1, <1>1, <1>3 DEF Ready
  <1>5. LastSlot(r) = block_table[r][q + 1] BY <1>1, <1>3 DEF LastSlot
  <1>6. Held(r) = n /\ n <= TotalLen(r)
    <2>1. Held(r) <= TotalLen(r) BY TableType
    <2> QED BY <2>1, <1>1 DEF Held
  <1>7. PICK b \in Blocks \ free :
            /\ b = LastSlot(r) /\ r \in Holders(b) /\ kv[b] = Context(r, n, q + 1)
    <2>1. /\ block_table[r][q + 1] \in Blocks \ free
          /\ r \in Holders(block_table[r][q + 1])
          /\ kv[block_table[r][q + 1]] = Context(r, Held(r), q + 1)
      BY <1>4, TableType
    <2> QED BY <2>1, <1>5, <1>6
  <1>8. ~Full(kv[b])
    <2> SUFFICES ASSUME Full(kv[b]) PROVE FALSE
      OBVIOUS
    <2>1. PICK m \in Nat : kv[b] # <<>> /\ Len(kv[b]) = m * BlockSize BY DEF Full
    <2>2. q + 1 \in Nat /\ q + 1 > 0 /\ q + 1 - 1 = q OBVIOUS
    <2>3. (q + 1) * BlockSize = q * BlockSize + BlockSize BY WholeBlocks
    <2>4. q * BlockSize < n
      <3> SUFFICES ASSUME ~(q * BlockSize < n) PROVE FALSE
        OBVIOUS
      <3>1. Context(r, n, q + 1) = <<>> BY <2>2 DEF Context
      <3> QED BY <3>1, <2>1, <1>7
    <2>5. output_token_ids \in [Requests -> Seq(Vocab)] BY DEF MemInv, MemoryTypes
    <2>6. n < (q + 1) * BlockSize BY <1>2, <2>3
    <2>7. (q + 1 - 1) * BlockSize < n BY <2>2, <2>4
    <2>8. Len(Context(r, n, q + 1)) = n
      <3>1. PICK i \in Nat : i = q + 1 BY <2>2
      <3>2. i > 0 /\ (i - 1) * BlockSize < n /\ n < i * BlockSize BY <2>2, <2>6, <2>7, <3>1
      <3>3. Len(Context(r, n, i)) = n BY <3>2, <2>5, <1>6, ContextType
      <3> QED BY <3>1, <3>3
    <2>9. n = m * BlockSize BY <2>1, <2>8, <1>7
    <2>10. m * BlockSize \in Nat /\ BlockSize \in Nat BY WholeBlocks, BlockSizes
    <2>11. /\ m <= q => m * BlockSize <= q * BlockSize
           /\ q < m => q * BlockSize + BlockSize <= m * BlockSize BY WholeBlocks
    <2> QED BY <2>4, <2>9, <2>10, <2>11, <1>2
  <1>9. /\ refcount[b] \in Nat /\ refcount[b] > 0
        /\ refcount[b] > 1 => Full(kv[b])
        /\ refcount[b] = 1 => Holders(b) = {r} /\ b \notin CachedBlocks
    BY <1>7, Holding
  <1>10. refcount[b] = 1 BY <1>8, <1>9
  <1> QED BY <1>7, <1>9, <1>10

\* What PrefixDecode stores through the table of r.
LEMMA SlotWritten ==
  ASSUME MemInv, NEW r \in Requests, Ready(r)
  PROVE  LET written == Written(kv, AllTokens(r), block_table[r], stored[r], stored[r] + 1)
             q == BlocksNeeded(stored[r] + 1)
         IN /\ q \in 1 .. Len(block_table[r]) /\ block_table[r][q] = LastSlot(r)
            /\ written[LastSlot(r)] = Context(r, stored[r] + 1, q)
            /\ written[LastSlot(r)] \in Seq(Vocab)
            /\ \A i \in 1 .. Len(block_table[r]) : i # q =>
                   Context(r, stored[r] + 1, i) = Context(r, stored[r], i)
  <1>1. PICK n \in Nat : n = stored[r] /\ n > 0 BY DEF Ready, MemInv, MemoryTypes
  <1>2. PICK q \in Nat : q = BlocksNeeded(n + 1) /\ q = n \div BlockSize + 1
    <2>1. n \div BlockSize + 1 \in Nat BY Division
    <2> QED BY <2>1, NextBlock
  <1>3. n \div BlockSize \in Nat /\ (n \div BlockSize) * BlockSize <= n
        /\ n < (n \div BlockSize) * BlockSize + BlockSize
    BY Division
  <1>4. PICK p \in Nat : p = n \div BlockSize /\ q = p + 1 /\ p * BlockSize \in Nat
                         /\ p * BlockSize <= n /\ n < p * BlockSize + BlockSize
                         /\ q * BlockSize = p * BlockSize + BlockSize
    BY <1>2, <1>3, WholeBlocks
  <1>5. PICK table \in Seq(Blocks) :
            /\ table = block_table[r] /\ Len(table) \in Nat
            /\ \A i, j \in 1 .. Len(table) : table[i] = table[j] => i = j
            /\ \A i \in 1 .. Len(table) : kv[table[i]] = Context(r, Held(r), i)
            /\ BlocksNeeded(Held(r)) <= Len(table)
    BY TableType
  <1>6. /\ TotalLen(r) \in Nat /\ n + 1 <= TotalLen(r) /\ q <= Len(table) /\ Held(r) = n
    BY <1>1, <1>2, <1>5, TableType DEF Ready, Held
  <1>7. q \in 1 .. Len(table) BY <1>4, <1>5, <1>6
  <1>8. LastSlot(r) = table[q] BY <1>1, <1>2, <1>5 DEF LastSlot
  <1>9. output_token_ids \in [Requests -> Seq(Vocab)] BY DEF MemInv, MemoryTypes
  <1>10. Past(kv, AllTokens(r), table, n)
    <2> SUFFICES ASSUME NEW i \in 1 .. BlocksNeeded(n)
                 PROVE  kv[table[i]] = SubSeq(AllTokens(r), 1, Min({i * BlockSize, n}))
      BY DEF Past
    <2>1. BlocksNeeded(n) \in Nat /\ BlocksNeeded(n) <= Len(table) BY <1>5, <1>6, Rounding
    <2>2. i \in Nat /\ i > 0 /\ i <= BlocksNeeded(n) /\ i \in 1 .. Len(table) BY <2>1, <1>5
    <2>3. n <= TotalLen(r) BY <1>6
    <2>4. Context(r, n, i) = SubSeq(AllTokens(r), 1, Min({i * BlockSize, n}))
      BY <2>2, <2>3, <1>9, ContextType
    <2> QED BY <2>2, <2>4, <1>5, <1>6
  <1>11. Wrote(kv, AllTokens(r), table, n, n + 1)
    <2>1. n + 1 \in Nat /\ BlocksNeeded(n + 1) <= Len(table) BY <1>2, <1>6
    <2>2. \A i, j \in 1 .. Len(table) : table[i] = table[j] => i = j BY <1>5
    <2> QED BY <2>1, <2>2, <1>10, WrittenType
  <1>12. Written(kv, AllTokens(r), table, n, n + 1)[table[q]]
         = SubSeq(AllTokens(r), 1, Min({q * BlockSize, n + 1}))
    <2>1. q \in n \div BlockSize + 1 .. BlocksNeeded(n + 1) BY <1>2
    <2> QED BY <2>1, <1>11 DEF Wrote
  <1>13. /\ Context(r, n + 1, q) = SubSeq(AllTokens(r), 1, Min({q * BlockSize, n + 1}))
         /\ Context(r, n + 1, q) \in Seq(Vocab)
    <2>1. q > 0 /\ q <= BlocksNeeded(n + 1) /\ n + 1 \in Nat BY <1>2, <1>4
    <2>2. PICK m \in Nat : m = n + 1 BY <2>1
    <2>3. m <= TotalLen(r) /\ q <= BlocksNeeded(m) BY <2>1, <2>2, <1>6
    <2>4. /\ Context(r, m, q) = SubSeq(AllTokens(r), 1, Min({q * BlockSize, m}))
          /\ Context(r, m, q) \in Seq(Vocab)
      BY <2>1, <2>3, <1>9, ContextType
    <2> QED BY <2>2, <2>4
  <1>14. ASSUME NEW i \in 1 .. Len(table), i # q
         PROVE  Context(r, n + 1, i) = Context(r, n, i)
    <2>1. i \in Nat /\ i > 0 /\ n + 1 \in Nat /\ n <= TotalLen(r) BY <1>5, <1>6
    <2>2. CASE i < q
      <3>1. i <= p BY <2>1, <2>2, <1>4
      <3>2. i * BlockSize <= p * BlockSize /\ i * BlockSize \in Nat BY <2>1, <3>1, WholeBlocks
      <3>3. i * BlockSize <= n /\ i * BlockSize <= n + 1 BY <3>2, <1>4
      <3>4. Context(r, n, i) = Key(AllTokens(r), i) BY <2>1, <3>3, <1>9, ContextType, Zenon
      <3>5. Context(r, n + 1, i) = Key(AllTokens(r), i)
        <4>1. PICK m \in Nat : m = n + 1 BY <2>1
        <4>2. m <= TotalLen(r) /\ i * BlockSize <= m BY <3>3, <4>1, <1>6
        <4>3. Context(r, m, i) = Key(AllTokens(r), i) BY <2>1, <4>2, <1>9, ContextType
        <4> QED BY <4>1, <4>3
      <3> QED BY <3>4, <3>5
    <2>3. CASE q < i
      <3>1. p < i - 1 /\ i - 1 \in Nat BY <2>1, <2>3, <1>4
      <3>2. p * BlockSize + BlockSize <= (i - 1) * BlockSize /\ (i - 1) * BlockSize \in Nat
        BY <3>1, WholeBlocks
      <3>3. ~((i - 1) * BlockSize < n) /\ ~((i - 1) * BlockSize < n + 1)
        BY <3>2, <1>4, BlockSizes
      <3> QED BY <3>3 DEF Context
    <2> QED BY <2>1, <2>2, <2>3, <1>14
  <1>15. Written(kv, AllTokens(r), table, n, n + 1)[LastSlot(r)] = Context(r, n + 1, q)
    BY <1>8, <1>12, <1>13
  <1> QED BY <1>1, <1>2, <1>5, <1>7, <1>8, <1>13, <1>14, <1>15

\* A list that names nobody twice.
Once(s) == \A i, j \in 1 .. Len(s) : s[i] = s[j] => i = j

\* Everybody's last token goes into a block of its own.
LEMMA DecodeMemory ==
  ASSUME MemInv, states \in Seq(Requests), Once(states),
         \A r \in Range(states) : Ready(r),
         PrefixDecode
  PROVE  MemInv'
  <1> DEFINE W == Range(states)
             writers(b) == {i \in 1 .. Len(states) : LastSlot(states[i]) = b}
             value(b) == LET r == states[Max(writers(b))]
                         IN Written(kv, AllTokens(r), block_table[r], stored[r], stored[r] + 1)[b]
  <1>1. /\ stored' = [r \in Requests |-> IF r \in W THEN stored[r] + 1 ELSE stored[r]]
        /\ kv' = [b \in Blocks |-> IF writers(b) = {} THEN kv[b] ELSE value(b)]
        /\ UNCHANGED <<free, refcount, block_table, output_token_ids, entries>>
    BY Zenon DEF PrefixDecode, Decode, poolVars
  <1>2. /\ MemoryTypes /\ CountsHold /\ TablesOnce /\ EntriesOnce
        /\ Honest /\ FreeClear /\ SharedFull /\ TablesFiled
    BY DEF MemInv
  <1>3. /\ \A r \in W : \E i \in 1 .. Len(states) : states[i] = r
        /\ \A i \in 1 .. Len(states) : states[i] \in W /\ states[i] \in Requests
        /\ W \subseteq Requests /\ Len(states) \in Nat
    BY RangeMembers, RangeOfSeq, ElementOfSeq, LenProperties
  <1> HIDE DEF W
  <1>4. \A r \in W : /\ r \in Requests /\ LastSlot(r) \in Blocks \ free
                     /\ LastSlot(r) \notin CachedBlocks
                     /\ refcount[LastSlot(r)] = 1 /\ Holders(LastSlot(r)) = {r}
    BY <1>3, SlotAlone DEF W
  <1>5. \A r, s \in W : LastSlot(r) = LastSlot(s) => r = s
    <2> SUFFICES ASSUME NEW r \in W, NEW s \in W, LastSlot(r) = LastSlot(s) PROVE r = s
      OBVIOUS
    <2>1. {r} = {s} BY <1>4
    <2> QED BY <2>1
  <1>6. ASSUME NEW i \in 1 .. Len(states), NEW r, r = states[i]
        PROVE  /\ r \in W /\ r \in Requests
               /\ kv'[LastSlot(r)]
                  = Written(kv, AllTokens(r), block_table[r], stored[r], stored[r] + 1)[LastSlot(r)]
    <2>1. r \in W /\ r \in Requests /\ LastSlot(r) \in Blocks BY <1>3, <1>4, <1>6
    <2>2. writers(LastSlot(r)) = {i}
      <3>1. i \in writers(LastSlot(r)) BY <1>6
      <3>2. ASSUME NEW j \in writers(LastSlot(r)) PROVE j = i
        <4>1. j \in 1 .. Len(states) /\ LastSlot(states[j]) = LastSlot(r) OBVIOUS
        <4>2. states[j] = r BY <2>1, <4>1, <1>3, <1>5
        <4> QED BY <4>1, <4>2, <1>6 DEF Once
      <3> HIDE DEF writers
      <3> QED BY <3>1, <3>2
    <2>3. Max({i}) = i
      <3>1. {i} \in SUBSET (1 .. Len(states)) /\ {i} # {} OBVIOUS
      <3>2. Max({i}) \in {i} BY <3>1, <1>3, MaxOf
      <3> QED BY <3>2
    <2>4. value(LastSlot(r))
          = Written(kv, AllTokens(r), block_table[r], stored[r], stored[r] + 1)[LastSlot(r)]
      BY <2>2, <2>3, <1>6, Zenon
    <2>5. writers(LastSlot(r)) # {} BY <2>2
    <2> HIDE DEF value, writers
    <2> QED BY <2>1, <2>4, <2>5, <1>1
  <1>7. ASSUME NEW b \in Blocks, \A r \in W : LastSlot(r) # b PROVE kv'[b] = kv[b]
    <2>1. writers(b) = {} BY <1>3, <1>7
    <2> HIDE DEF value, writers
    <2> QED BY <2>1, <1>1
  <1>8. ASSUME NEW r \in W
        PROVE  LET q == BlocksNeeded(stored[r] + 1)
               IN /\ q \in 1 .. Len(block_table[r]) /\ block_table[r][q] = LastSlot(r)
                  /\ kv'[LastSlot(r)] = Context(r, stored[r] + 1, q)
                  /\ kv'[LastSlot(r)] \in Seq(Vocab)
                  /\ \A i \in 1 .. Len(block_table[r]) : i # q =>
                         Context(r, stored[r] + 1, i) = Context(r, stored[r], i)
    <2>1. PICK i \in 1 .. Len(states) : states[i] = r BY <1>3
    <2>2. r \in Requests /\ Ready(r) BY <1>3 DEF W
    <2>3. kv'[LastSlot(r)]
          = Written(kv, AllTokens(r), block_table[r], stored[r], stored[r] + 1)[LastSlot(r)]
      BY <2>1, <1>6
    <2> QED BY <2>2, <2>3, SlotWritten
  <1> HIDE DEF value, writers
  <1>9. ASSUME NEW r \in Requests, NEW i \in 1 .. Len(block_table[r]),
               r \in W => i # BlocksNeeded(stored[r] + 1)
        PROVE  kv'[block_table[r][i]] = kv[block_table[r][i]]
    <2>1. block_table[r][i] \in Blocks /\ r \in Holders(block_table[r][i]) BY TableType
    <2>2. \A s \in W : LastSlot(s) # block_table[r][i]
      <3> SUFFICES ASSUME NEW s \in W, LastSlot(s) = block_table[r][i] PROVE FALSE
        OBVIOUS
      <3>1. r \in {s} BY <2>1, <1>4
      <3>2. PICK q \in 1 .. Len(block_table[r]) :
                q = BlocksNeeded(stored[r] + 1) /\ block_table[r][q] = LastSlot(r)
        BY <3>1, <1>8
      <3>3. block_table[r][q] = block_table[r][i] BY <3>1, <3>2
      <3>4. q = i BY <3>3, <1>2 DEF TablesOnce
      <3> QED BY <3>1, <3>2, <3>4, <1>9
    <2> QED BY <2>1, <2>2, <1>7
  <1>10. MemoryTypes'
    <2>1. \A b \in Blocks : kv'[b] \in Seq(Vocab)
      <3> SUFFICES ASSUME NEW b \in Blocks PROVE kv'[b] \in Seq(Vocab)
        OBVIOUS
      <3>1. CASE \E r \in W : LastSlot(r) = b BY <3>1, <1>8
      <3>2. CASE \A r \in W : LastSlot(r) # b BY <3>2, <1>2, <1>7 DEF MemoryTypes
      <3> QED BY <3>1, <3>2
    <2>2. kv' = [b \in Blocks |-> kv'[b]] BY <1>1
    <2>3. kv' \in [Blocks -> Seq(Vocab)] BY <2>1, <2>2
    <2>4. stored' \in [Requests -> Nat] BY <1>1, <1>2 DEF MemoryTypes
    <2> QED BY <2>3, <2>4, <1>1, <1>2 DEF MemoryTypes, Entry
  <1>11. CountsHold' BY <1>1, <1>2 DEF CountsHold, Holders, CachedBlocks
  <1>12. TablesOnce' BY <1>1, <1>2 DEF TablesOnce
  <1>13. EntriesOnce' BY <1>1, <1>2 DEF EntriesOnce
  <1>14. Honest'
    <2>1. ASSUME NEW e \in Range(entries) PROVE kv'[e.block] = e.key /\ Full(e.key)
      <3>1. /\ e.block \in Blocks /\ e.block \in CachedBlocks
            /\ kv[e.block] = e.key /\ Full(e.key) BY EntriesType
      <3>2. \A r \in W : LastSlot(r) # e.block BY <3>1, <1>4
      <3> QED BY <3>1, <3>2, <1>7
    <2> QED BY <2>1, <1>1 DEF Honest, Full
  <1>15. FreeClear'
    <2>1. ASSUME NEW b \in free PROVE kv'[b] = <<>>
      <3>1. b \in Blocks /\ kv[b] = <<>> BY <1>2 DEF FreeClear, MemoryTypes
      <3>2. \A r \in W : LastSlot(r) # b BY <1>4
      <3> QED BY <3>1, <3>2, <1>7
    <2> QED BY <2>1, <1>1 DEF FreeClear
  <1>16. SharedFull'
    <2>1. ASSUME NEW b \in Blocks, refcount[b] > 1 PROVE Full(kv'[b])
      <3>1. \A r \in W : LastSlot(r) # b
        <4> SUFFICES ASSUME NEW r \in W, LastSlot(r) = b PROVE FALSE
          OBVIOUS
        <4>1. refcount[b] = 1 BY <1>4
        <4> QED BY <2>1, <4>1
      <3> QED BY <2>1, <3>1, <1>2, <1>7 DEF SharedFull
    <2> QED BY <2>1, <1>1 DEF SharedFull, Full
  <1>17. TablesFiled'
    <2>1. ASSUME NEW r \in Requests, r \notin W PROVE Filed(r)'
      <3>1. stored'[r] = stored[r] BY <2>1, <1>1
      <3>2. \A i \in 1 .. Len(block_table[r]) : kv'[block_table[r][i]] = kv[block_table[r][i]]
        BY <2>1, <1>9
      <3>3. Filed(r) BY <1>2 DEF TablesFiled
      <3> QED BY <3>1, <3>2, <3>3, <1>1, FiledFrame
    <2>2. ASSUME NEW r \in W PROVE Filed(r)'
      <3>1. r \in Requests BY <1>3
      <3>2. PICK n \in Nat : n = stored[r] /\ n > 0 /\ n + 1 <= TotalLen(r)
        BY <3>1, <1>2 DEF W, Ready, MemoryTypes
      <3>3. stored'[r] = n + 1 BY <3>1, <3>2, <1>1
      <3>4. Held(r)' = n + 1 /\ Held(r) = n BY <3>2, <3>3 DEF Held
      <3>5. TotalLen(r)' = TotalLen(r) BY <1>1 DEF TotalLen
      <3>6. PICK q \in 1 .. Len(block_table[r]) :
                /\ q = BlocksNeeded(n + 1) /\ block_table[r][q] = LastSlot(r)
                /\ kv'[LastSlot(r)] = Context(r, n + 1, q)
                /\ \A i \in 1 .. Len(block_table[r]) : i # q => Context(r, n + 1, i) = Context(r, n, i)
        BY <3>2, <1>8
      <3>7. BlocksNeeded(Held(r))' <= Len(block_table[r])'
        <4>1. \A m : BlocksNeeded(m)' = BlocksNeeded(m) BY DEF BlocksNeeded
        <4>2. BlocksNeeded(Held(r))' = q BY <3>4, <3>6, <4>1
        <4>3. Len(block_table[r]) \in Nat BY <3>1, TableType
        <4> QED BY <3>6, <4>2, <4>3, <1>1
      <3>8. \A i \in 1 .. Len(block_table[r]) : kv'[block_table[r][i]] = Context(r, n + 1, i)
        <4> SUFFICES ASSUME NEW i \in 1 .. Len(block_table[r])
                     PROVE  kv'[block_table[r][i]] = Context(r, n + 1, i)
          OBVIOUS
        <4>1. CASE i = q BY <4>1, <3>6
        <4>2. CASE i # q
          <5>1. kv'[block_table[r][i]] = kv[block_table[r][i]] BY <3>1, <3>2, <3>6, <4>2, <1>9
          <5>2. kv[block_table[r][i]] = Context(r, n, i) BY <3>1, <3>4, TableType
          <5> QED BY <4>2, <5>1, <5>2, <3>6
        <4> QED BY <4>1, <4>2
      <3>9. \A m, i : Context(r, m, i)' = Context(r, m, i) BY <1>1 DEF Context, AllTokens
      <3>10. \A i \in 1 .. Len(block_table[r])' : kv'[block_table'[r][i]] = Context(r, Held(r), i)'
        BY <3>4, <3>8, <3>9, <1>1
      <3>11. Held(r)' <= TotalLen(r)' BY <3>2, <3>4, <3>5
      <3> QED BY <3>7, <3>10, <3>11 DEF Filed
    <2> QED BY <2>1, <2>2 DEF TablesFiled
  <1> QED BY <1>10, <1>11, <1>12, <1>13, <1>14, <1>15, <1>16, <1>17 DEF MemInv

--------------------------------------------------------------------------------
(* Promotion. *)

\* The memory's part of filing, in a block of the pool, a copy under its key.
Files(b, key) ==
    /\ free' = free \ {b}
    /\ refcount' = CountsTaken(<<b>>)
    /\ kv' = [kv EXCEPT ![b] = key]
    /\ entries' = Append(entries, [key |-> key, block |-> b])

\* The copy is counted once, for the cache, and nobody else's block is touched.
LEMMA PlaceMemory ==
  ASSUME MemInv, NEW b \in free, NEW key \in Seq(Vocab), Full(key), key \notin Keys,
         Files(b, key), UNCHANGED <<block_table, stored, output_token_ids>>
  PROVE  MemInv' /\ Keys' = Keys \cup {key}
  <1> DEFINE e == [key |-> key, block |-> b]
  <1>1. MemoryTypes /\ CountsHold /\ Honest /\ FreeClear /\ SharedFull /\ TablesFiled /\ TablesOnce
        /\ EntriesOnce
    BY DEF MemInv
  <1>2. b \in Blocks BY <1>1 DEF MemoryTypes
  <1>3. e \in Entry /\ e.key = key /\ e.block = b BY <1>2 DEF Entry
  <1>4. /\ entries \in Seq(Entry) /\ Len(entries) \in Nat
        /\ \A i \in 1 .. Len(entries) : entries[i] \in Range(entries)
        /\ \A x \in Range(entries) : /\ x.block \in Blocks \ free /\ x.key \in Keys
                                     /\ \E i \in 1 .. Len(entries) : entries[i] = x
    BY EntriesType
  <1>5. /\ Holders(b) = {} /\ b \notin CachedBlocks BY <1>2, Holding
  <1>6. /\ entries' \in Seq(Entry) /\ Len(entries') = Len(entries) + 1
        /\ \A i \in 1 .. Len(entries) : entries'[i] = entries[i]
        /\ entries'[Len(entries) + 1] = e
    BY <1>3, <1>4, AppendProperties DEF Files
  <1>7. \A x : x \in Range(entries') <=> x \in Range(entries) \/ x = e
    <2>1. /\ \A x : x \in Range(entries') <=> \E i \in 1 .. Len(entries') : entries'[i] = x
          /\ \A x : x \in Range(entries) <=> \E i \in 1 .. Len(entries) : entries[i] = x
      BY <1>4, <1>6, RangeMembers
    <2>2. ASSUME NEW i \in 1 .. Len(entries') PROVE entries'[i] \in Range(entries) \/ entries'[i] = e
      <3>1. i \in 1 .. Len(entries) \/ i = Len(entries) + 1 BY <1>4, <1>6
      <3> QED BY <3>1, <1>4, <1>6
    <2>3. ASSUME NEW x \in Range(entries) PROVE \E i \in 1 .. Len(entries') : entries'[i] = x
      <3>1. PICK i \in 1 .. Len(entries) : entries[i] = x BY <1>4
      <3>2. i \in 1 .. Len(entries') BY <1>4, <1>6
      <3> QED BY <3>1, <3>2, <1>6
    <2>4. \E i \in 1 .. Len(entries') : entries'[i] = e
      <3>1. Len(entries) + 1 \in 1 .. Len(entries') BY <1>4, <1>6
      <3> QED BY <3>1, <1>6
    <2> QED BY <2>1, <2>2, <2>3, <2>4
  <1>8. \A c : c \in CachedBlocks' <=> c \in CachedBlocks \/ c = b
    BY <1>3, <1>7 DEF CachedBlocks
  <1>9. Keys' = Keys \cup {key} BY <1>3, <1>7 DEF Keys
  <1> HIDE DEF e
  <1>10. \A c \in Blocks : Holders(c)' = Holders(c) BY DEF Holders
  <1>11. /\ \A c \in Blocks : c # b => refcount'[c] = refcount[c] /\ kv'[c] = kv[c]
         /\ refcount'[b] = 1 /\ kv'[b] = key
    <2>1. Range(<<b>>) = {b} BY <1>2, OnlyOne
    <2>2. refcount' = [c \in Blocks |-> IF c \in {b} THEN 1 ELSE refcount[c]]
      BY <2>1 DEF Files, CountsTaken
    <2>3. kv' = [kv EXCEPT ![b] = key] /\ kv \in [Blocks -> Seq(Vocab)]
      BY <1>1 DEF Files, MemoryTypes
    <2> QED BY <1>2, <2>2, <2>3
  <1>12. MemoryTypes'
    <2>1. refcount' \in [Blocks -> Nat]
      <3>1. refcount' = [c \in Blocks |-> refcount'[c]] BY DEF Files, CountsTaken
      <3>2. \A c \in Blocks : refcount[c] \in Nat BY <1>1 DEF MemoryTypes
      <3>3. \A c \in Blocks : refcount'[c] \in Nat BY <1>11, <3>2
      <3> QED BY <3>1, <3>3
    <2>2. kv' \in [Blocks -> Seq(Vocab)] BY <1>1, <1>2 DEF Files, MemoryTypes
    <2>3. free' \subseteq Blocks BY <1>1 DEF Files, MemoryTypes
    <2> QED BY <1>1, <1>6, <2>1, <2>2, <2>3 DEF MemoryTypes, Entry
  <1>13. CountsHold'
    <2>1. ASSUME NEW c \in Blocks
          PROVE  /\ IsFiniteSet(Holders(c)')
                 /\ refcount'[c] = Cardinality(Holders(c)') + IF c \in CachedBlocks' THEN 1 ELSE 0
                 /\ c \in free' <=> refcount'[c] = 0
      <3>1. /\ IsFiniteSet(Holders(c))
            /\ c \in free <=> refcount[c] = 0
            /\ refcount[c] = Cardinality(Holders(c)) + IF c \in CachedBlocks THEN 1 ELSE 0
        BY <1>1 DEF CountsHold
      <3>2. Holders(c)' = Holders(c) BY <1>10
      <3>3. CASE c = b
        <4>1. Cardinality(Holders(c)) = 0 BY <3>3, <1>5, FS_EmptySet
        <4>2. c \in CachedBlocks' /\ c \notin free' /\ refcount'[c] = 1
          BY <3>3, <1>8, <1>11 DEF Files
        <4> QED BY <3>1, <3>2, <4>1, <4>2
      <3>4. CASE c # b
        <4>1. c \in CachedBlocks' <=> c \in CachedBlocks BY <3>4, <1>8
        <4>2. refcount'[c] = refcount[c] BY <3>4, <1>11
        <4>3. c \in free' <=> c \in free BY <3>4 DEF Files
        <4> QED BY <3>1, <3>2, <4>1, <4>2, <4>3
      <3> QED BY <3>3, <3>4
    <2> QED BY <2>1 DEF CountsHold
  <1>14. TablesOnce' BY <1>1 DEF TablesOnce
  <1>15. EntriesOnce'
    <2>1. ASSUME NEW i \in 1 .. Len(entries), entries[i].key = key \/ entries[i].block = b
          PROVE  FALSE
      <3>1. entries[i] \in Range(entries) BY <1>4
      <3>2. entries[i].block \notin free /\ entries[i].key \in Keys BY <3>1, <1>4
      <3> QED BY <2>1, <3>2
    <2>2. ASSUME NEW i \in 1 .. Len(entries'), NEW j \in 1 .. Len(entries'),
                 entries'[i].key = entries'[j].key \/ entries'[i].block = entries'[j].block
          PROVE  i = j
      <3>1. /\ i \in 1 .. Len(entries) \/ i = Len(entries) + 1
            /\ j \in 1 .. Len(entries) \/ j = Len(entries) + 1
        BY <1>4, <1>6
      <3>2. CASE i \in 1 .. Len(entries) /\ j \in 1 .. Len(entries)
        <4>1. entries[i].key = entries[j].key \/ entries[i].block = entries[j].block
          BY <2>2, <3>2, <1>6
        <4> QED BY <3>2, <4>1, <1>1 DEF EntriesOnce
      <3>3. CASE i \in 1 .. Len(entries) /\ j = Len(entries) + 1
        <4>1. entries[i].key = key \/ entries[i].block = b BY <2>2, <3>3, <1>3, <1>6
        <4> QED BY <2>1, <3>3, <4>1
      <3>4. CASE i = Len(entries) + 1 /\ j \in 1 .. Len(entries)
        <4>1. entries[j].key = key \/ entries[j].block = b BY <2>2, <3>4, <1>3, <1>6
        <4> QED BY <2>1, <3>4, <4>1
      <3> QED BY <3>1, <3>2, <3>3, <3>4
    <2> QED BY <2>2 DEF EntriesOnce
  <1>16. Honest'
    <2>1. ASSUME NEW x \in Range(entries') PROVE kv'[x.block] = x.key /\ Full(x.key)
      <3>1. CASE x = e BY <3>1, <1>3, <1>11
      <3>2. CASE x \in Range(entries)
        <4>1. x.block \in Blocks /\ x.block # b BY <3>2, <1>4
        <4> QED BY <3>2, <4>1, <1>1, <1>11 DEF Honest
      <3> QED BY <3>1, <3>2, <1>7
    <2> QED BY <2>1 DEF Honest, Full
  <1>17. FreeClear' BY <1>1, <1>11 DEF FreeClear, Files, MemoryTypes
  <1>18. SharedFull'
    <2>1. ASSUME NEW c \in Blocks, refcount'[c] > 1 PROVE Full(kv'[c])
      <3>1. c # b BY <2>1, <1>11
      <3>2. refcount[c] > 1 /\ kv'[c] = kv[c] BY <2>1, <3>1, <1>11
      <3> QED BY <3>2, <1>1 DEF SharedFull
    <2> QED BY <2>1 DEF SharedFull, Full
  <1>19. TablesFiled'
    <2>1. ASSUME NEW s \in Requests PROVE Filed(s)'
      <3>1. ASSUME NEW i \in 1 .. Len(block_table[s])
            PROVE  kv'[block_table[s][i]] = kv[block_table[s][i]]
        <4>1. block_table[s][i] \in Blocks \ free BY TableType
        <4> QED BY <4>1, <1>11
      <3>2. Filed(s) BY <1>1 DEF TablesFiled
      <3> QED BY <3>1, <3>2, FiledFrame
    <2> QED BY <2>1 DEF TablesFiled
  <1> QED BY <1>9, <1>12, <1>13, <1>14, <1>15, <1>16, <1>17, <1>18, <1>19 DEF MemInv

--------------------------------------------------------------------------------
(* What a request holds, by where it is in its service. *)

\* All its tokens but the last have their KV.
Settled(r) == stored[r] > 0 /\ stored[r] + 1 = TotalLen(r)

\* Whoever has been handed a token and is, or will be, in the batch.
Served(r) == IF finished[r] THEN Cold(r) ELSE Settled(r)

\* About to be handed a token by _decode().
Decoded(r) == ~finished[r] /\ stored[r] = TotalLen(r)

--------------------------------------------------------------------------------
(* The inductive invariant, besides that of the memory. *)

\* Nobody is in two places, and whoever is in one has arrived.
Roles ==
    /\ Once(running) /\ Once(admitted) /\ Once(waiting)
    /\ Range(running) \cap Range(admitted) = {}
    /\ Range(running) \cap Range(waiting) = {}
    /\ Range(admitted) \cap Range(waiting) = {}
    /\ Range(running) \cup Range(admitted) \cup Range(waiting) \subseteq Range(arrival)

Admitting == {"prefill", "fill", "emit_prefill"}

InStep ==
    /\ pc \in Admitting \cup {"idle", "retire", "admit", "grow", "emit_decode"}
    /\ pc \notin Admitting \cup {"admit"} => admitted = <<>>
    /\ pc # "admit" => reserved = 0
    /\ pc \in Admitting => states = admitted /\ at <= Len(states) + 1
    /\ pc \in {"fill", "emit_prefill"} => at <= Len(states)
    /\ pc \in {"grow", "emit_decode"} => Range(states) \subseteq Range(running) /\ Once(states)
    /\ pc \in Admitting \cup {"admit"} => \A r \in Range(running) : ~finished[r]
    /\ pc = "grow" => \A r \in Range(states) : ~finished[r]

\* Requests of the batch that _decode() has still to hand a token.
Pending == IF pc = "emit_decode" THEN {states[i] : i \in {j \in 1 .. Len(states) : j >= at}} ELSE {}

Outsiders == Requests \ (Range(running) \cup Range(admitted))

InBatch == /\ \A r \in Outsiders : Cold(r)
           /\ \A r \in Range(running) : IF r \in Pending THEN Decoded(r) ELSE Served(r)

Slotted == pc = "grow" => \A i \in 1 .. Len(states) : i < at =>
               BlocksNeeded(stored[states[i]] + 1) <= Len(block_table[states[i]])

BeingAdmitted ==
    /\ pc = "admit" => \A i \in 1 .. Len(admitted) : Cold(admitted[i])
    /\ pc \in Admitting => \A i \in 1 .. Len(admitted) :
           /\ i < at => Served(admitted[i])
           /\ i > at => Cold(admitted[i])
           /\ i = at => /\ pc = "prefill" => Cold(admitted[i])
                        /\ pc = "fill" => stored[admitted[i]] = 0
                        /\ pc = "emit_prefill" => stored[admitted[i]] = TotalLen(admitted[i])

\* due[i] is what admission has promised to the i-th and those after it.
Owed(due) ==
    /\ due \in [1 .. Len(admitted) + 1 -> Nat]
    /\ due[Len(admitted) + 1] = 0
    /\ \A i \in 1 .. Len(admitted) : due[i] = Need(admitted[i]) + due[i + 1]

\* The first h blocks of r are cached.
Resident(r, h) == \A k \in 1 .. h : Key(AllTokens(r), k) \in Keys

\* The same, from the one at `from` on, when some of the blocks promised have
\* already been spent on copies of a request's own prefix, which it will share.
Covered(due, from) ==
    /\ due \in [1 .. Len(admitted) + 1 -> Nat]
    /\ due[Len(admitted) + 1] = 0
    /\ \A i \in 1 .. Len(admitted) : i >= from =>
           \E h \in 0 .. FullBlocks(AllTokens(admitted[i])) :
               Resident(admitted[i], h) /\ due[i] + h = Need(admitted[i]) + due[i + 1]

Promise ==
    /\ pc = "admit" => \E due : Owed(due) /\ due[1] = reserved /\ reserved <= NFree
    /\ pc = "prefill" => \E due : Covered(due, at) /\ due[at] <= NFree
    /\ pc = "fill" => \E due : Covered(due, at + 1) /\ Lacking(states[at]) + due[at + 1] <= NFree
    /\ pc = "emit_prefill" => \E due : Covered(due, at + 1) /\ due[at + 1] <= NFree

PInv == TypeOK /\ MemInv /\ Roles /\ InStep /\ InBatch /\ Slotted /\ BeingAdmitted /\ Promise


--------------------------------------------------------------------------------
(* Lists without repetition. *)

\* One more, at the end, of which the list had none.
LEMMA OnceAppend ==
  ASSUME NEW S, NEW s \in Seq(S), NEW x \in S
  PROVE  /\ Append(s, x) \in Seq(S) /\ Len(Append(s, x)) = Len(s) + 1
         /\ Range(Append(s, x)) = Range(s) \cup {x}
         /\ \A i \in 1 .. Len(s) : Append(s, x)[i] = s[i]
         /\ Append(s, x)[Len(s) + 1] = x
         /\ Once(s) /\ x \notin Range(s) => Once(Append(s, x))
  <1>1. /\ Append(s, x) \in Seq(S) /\ Len(Append(s, x)) = Len(s) + 1
        /\ \A i \in 1 .. Len(s) : Append(s, x)[i] = s[i]
        /\ Append(s, x)[Len(s) + 1] = x /\ Len(s) \in Nat
    BY AppendProperties, LenProperties
  <1>2. PICK t \in Seq(S) : t = Append(s, x) BY <1>1
  <1>3. Len(t) = Len(s) + 1 /\ Len(s) \in Nat /\ (\A i \in 1 .. Len(s) : t[i] = s[i]) /\ t[Len(s) + 1] = x
    BY <1>1, <1>2
  <1>4. /\ \A e : e \in Range(t) <=> \E k \in 1 .. Len(t) : t[k] = e
        /\ \A e : e \in Range(s) <=> \E k \in 1 .. Len(s) : s[k] = e
    BY RangeMembers
  <1>5. \A e : e \in Range(t) <=> e \in Range(s) \/ e = x
    <2>1. ASSUME NEW e, e \in Range(t) PROVE e \in Range(s) \/ e = x
      <3>1. PICK k \in 1 .. Len(t) : t[k] = e BY <1>4, <2>1
      <3>2. k \in 1 .. Len(s) \/ k = Len(s) + 1 BY <1>3
      <3> QED BY <1>3, <1>4, <3>1, <3>2
    <2>2. ASSUME NEW e, e \in Range(s) \/ e = x PROVE e \in Range(t)
      <3>1. CASE e = x
        <4>1. Len(s) + 1 \in 1 .. Len(t) BY <1>3
        <4> QED BY <1>3, <1>4, <3>1, <4>1
      <3>2. CASE e \in Range(s)
        <4>1. PICK k \in 1 .. Len(s) : s[k] = e BY <1>4, <3>2
        <4>2. k \in 1 .. Len(t) BY <1>3
        <4> QED BY <1>3, <1>4, <4>1, <4>2
      <3> QED BY <2>2, <3>1, <3>2
    <2> QED BY <2>1, <2>2
  <1>6. Range(t) = Range(s) \cup {x} BY <1>5
  <1>7. ASSUME Once(s), x \notin Range(s) PROVE Once(t)
    <2>1. ASSUME NEW i \in 1 .. Len(t), NEW j \in 1 .. Len(t), t[i] = t[j] PROVE i = j
      <3>1. /\ i \in 1 .. Len(s) \/ i = Len(s) + 1
            /\ j \in 1 .. Len(s) \/ j = Len(s) + 1 BY <1>3
      <3>2. \A k \in 1 .. Len(s) : s[k] # x BY <1>4, <1>7
      <3>3. CASE i \in 1 .. Len(s) /\ j \in 1 .. Len(s) BY <1>3, <1>7, <2>1, <3>3 DEF Once
      <3> QED BY <1>3, <2>1, <3>1, <3>2, <3>3
    <2> QED BY <2>1 DEF Once
  <1> QED BY <1>1, <1>2, <1>6, <1>7

\* What taking a member out leaves of a list without repetition.
LEMMA OnceWithout ==
  ASSUME NEW S, NEW s \in Seq(S), Once(s), NEW x
  PROVE  /\ Without(s, x) \in Seq(S) /\ Once(Without(s, x))
         /\ Range(Without(s, x)) = Range(s) \ {x}
  <1>0. \A e : e \in Range(s) <=> \E k \in 1 .. Len(s) : s[k] = e BY RangeMembers
  <1>1. CASE \E i \in 1 .. Len(s) : s[i] = x
    <2> DEFINE i == CHOOSE i \in 1 .. Len(s) : s[i] = x
    <2>1. i \in 1 .. Len(s) /\ s[i] = x BY <1>1
    <2> HIDE DEF i
    <2>2. /\ RemoveAt(s, i) \in Seq(S) /\ Range(RemoveAt(s, i)) = Range(s) \ {s[i]}
          /\ Once(RemoveAt(s, i))
      BY <2>1, OnceRemove DEF Once
    <2>3. Without(s, x) = RemoveAt(s, i) BY <1>1 DEF Without, i
    <2> QED BY <2>1, <2>2, <2>3
  <1>2. CASE ~ \E i \in 1 .. Len(s) : s[i] = x
    <2>1. Without(s, x) = s BY <1>2 DEF Without
    <2> QED BY <1>0, <1>2, <2>1
  <1> QED BY <1>1, <1>2

\* The last of a list without repetition, and the others.
LEMMA OnceLast ==
  ASSUME NEW S, NEW s \in Seq(S), Once(s), s # <<>>
  PROVE  /\ Last(s) \in S /\ Last(s) \in Range(s)
         /\ Front(s) \in Seq(S) /\ Len(Front(s)) = Len(s) - 1 /\ Once(Front(s))
         /\ Range(Front(s)) = Range(s) \ {Last(s)}
  BY OnceFront DEF Once

\* One more, in front, of which the list had none.
LEMMA OnceInFront ==
  ASSUME NEW S, NEW s \in Seq(S), Once(s), NEW x \in S, x \notin Range(s)
  PROVE  /\ <<x>> \o s \in Seq(S) /\ Once(<<x>> \o s)
         /\ Range(<<x>> \o s) = Range(s) \cup {x}
  <1>1. /\ <<x>> \in Seq(S) /\ Range(<<x>>) = {x}
        /\ \A i, j \in 1 .. Len(<<x>>) : <<x>>[i] = <<x>>[j] => i = j
    BY OnlyOne
  <1>2. Range(<<x>>) \cap Range(s) = {} BY <1>1
  <1>3. PICK t \in Seq(S) : t = <<x>> BY <1>1
  <1>4. /\ \A i, j \in 1 .. Len(t) : t[i] = t[j] => i = j
        /\ Range(t) = {x} /\ Range(t) \cap Range(s) = {}
    BY <1>1, <1>2, <1>3
  <1>5. \A i, j \in 1 .. Len(s) : s[i] = s[j] => i = j BY DEF Once
  <1>6. /\ t \o s \in Seq(S)
        /\ Range(t \o s) = Range(t) \cup Range(s)
        /\ \A i, j \in 1 .. Len(t \o s) : (t \o s)[i] = (t \o s)[j] => i = j
    BY <1>4, <1>5, OnceConcat
  <1>7. Once(t \o s) BY <1>6 DEF Once
  <1> QED BY <1>3, <1>4, <1>6, <1>7

\* Two lists that share nobody, one after the other.
LEMMA OnceJoin ==
  ASSUME NEW S, NEW s \in Seq(S), Once(s), NEW t \in Seq(S), Once(t), Range(s) \cap Range(t) = {}
  PROVE  /\ s \o t \in Seq(S) /\ Len(s \o t) = Len(s) + Len(t) /\ Once(s \o t)
         /\ Range(s \o t) = Range(s) \cup Range(t)
  BY OnceConcat DEF Once

--------------------------------------------------------------------------------
(* What a step leaves alone. *)

Same(r) == /\ block_table'[r] = block_table[r] /\ stored'[r] = stored[r]
           /\ output_token_ids'[r] = output_token_ids[r] /\ finished'[r] = finished[r]

\* A request that a step does not touch is where it was in its service.
LEMMA Frame ==
  ASSUME NEW r, Same(r)
  PROVE  /\ Cold(r)' <=> Cold(r)
         /\ Settled(r)' <=> Settled(r)
         /\ Served(r)' <=> Served(r)
         /\ Decoded(r)' <=> Decoded(r)
         /\ finished'[r] = finished[r] /\ TotalLen(r)' = TotalLen(r)
         /\ Need(r)' = Need(r) /\ Lacking(r)' = Lacking(r)
  <1>1. TotalLen(r)' = TotalLen(r) BY DEF Same, TotalLen
  <1> QED BY <1>1 DEF Same, Cold, Served, Settled, Decoded, Need, Lacking, BlocksNeeded

memoryVars == <<free, refcount, block_table, stored, output_token_ids, entries, kv>>

\* The memory's invariant is about the memory.
LEMMA MemoryKept ==
  ASSUME MemInv, UNCHANGED memoryVars
  PROVE  MemInv'
  <1>1. /\ free' = free /\ refcount' = refcount /\ block_table' = block_table /\ stored' = stored
        /\ output_token_ids' = output_token_ids /\ entries' = entries /\ kv' = kv
    BY DEF memoryVars
  <1>2. MemoryTypes' BY <1>1 DEF MemInv, MemoryTypes
  <1>3. CountsHold'
    <2>1. CachedBlocks' = CachedBlocks BY <1>1 DEF CachedBlocks
    <2>2. \A b : Holders(b)' = Holders(b) BY <1>1 DEF Holders
    <2> QED BY <1>1, <2>1, <2>2 DEF MemInv, CountsHold
  <1>4. TablesOnce' BY <1>1 DEF MemInv, TablesOnce
  <1>5. EntriesOnce' BY <1>1 DEF MemInv, EntriesOnce
  <1>6. Honest' BY <1>1 DEF MemInv, Honest
  <1>7. FreeClear' BY <1>1 DEF MemInv, FreeClear
  <1>8. SharedFull' BY <1>1 DEF MemInv, SharedFull
  <1>9. TablesFiled'
    <2>1. \A r, n, i : Context(r, n, i)' = Context(r, n, i) BY <1>1 DEF Context, AllTokens
    <2>2. \A r : Held(r)' = Held(r) /\ TotalLen(r)' = TotalLen(r) BY <1>1 DEF Held, TotalLen
    <2>3. \A r : Filed(r)' <=> Filed(r) BY <1>1, <2>1, <2>2 DEF Filed, BlocksNeeded
    <2> QED BY <2>3 DEF MemInv, TablesFiled
  <1> QED BY <1>2, <1>3, <1>4, <1>5, <1>6, <1>7, <1>8, <1>9 DEF MemInv

\* A step that touches no memory leaves everybody where it was.
LEMMA Quiet ==
  ASSUME MemInv, UNCHANGED <<poolVars, requestVars, cacheVars>>
  PROVE  /\ MemInv' /\ finished' = finished /\ NFree' = NFree
         /\ block_table' = block_table /\ stored' = stored
         /\ \A r : /\ Cold(r)' <=> Cold(r)
                   /\ Served(r)' <=> Served(r)
                   /\ Decoded(r)' <=> Decoded(r)
                   /\ TotalLen(r)' = TotalLen(r)
                   /\ Need(r)' = Need(r) /\ Lacking(r)' = Lacking(r)
  <1>1. /\ free' = free /\ refcount' = refcount /\ block_table' = block_table /\ stored' = stored
        /\ output_token_ids' = output_token_ids /\ entries' = entries /\ kv' = kv
        /\ finished' = finished
    BY DEF poolVars, requestVars, cacheVars
  <1>2. MemInv' BY <1>1, MemoryKept DEF memoryVars
  <1>3. NFree' = NFree BY <1>1 DEF NFree
  <1>4. \A r : Same(r) BY <1>1 DEF Same
  <1> QED BY <1>1, <1>2, <1>3, <1>4, Frame

\* The number of free blocks, and what it takes for it not to go down.
LEMMA FreeType ==
  ASSUME MemInv
  PROVE  NFree \in Nat /\ IsFiniteSet(free)
  <1>1. IsFiniteSet(free) BY PoolAssumption, FS_Subset DEF MemInv, MemoryTypes
  <1> QED BY <1>1, FS_CardinalityType DEF NFree

\* A pool that gains blocks has no fewer of them.
LEMMA FreeGrows ==
  ASSUME MemInv, MemInv', free \subseteq free'
  PROVE  NFree' \in Nat /\ NFree <= NFree'
  <1>1. free' \subseteq Blocks BY DEF MemInv, MemoryTypes
  <1>2. IsFiniteSet(free') BY <1>1, PoolAssumption, FS_Subset
  <1>3. PICK more : more = free' /\ IsFiniteSet(more) /\ free \subseteq more BY <1>2
  <1>4. Cardinality(free) <= Cardinality(more) /\ Cardinality(more) \in Nat
    BY <1>3, FS_Subset, FS_CardinalityType
  <1> QED BY <1>3, <1>4 DEF NFree

\* An allocation takes as many as it asks for.
LEMMA TakingsCount ==
  ASSUME MemInv, NEW n \in Nat, n <= NFree, NEW taken \in Takings(n), free' = free \ Range(taken)
  PROVE  NFree' = NFree - n
  <1>1. /\ Range(taken) \subseteq free
        /\ \A i, j \in 1 .. n : taken[i] = taken[j] => i = j
        /\ taken \in [1 .. n -> free]
    BY TakenType DEF Takings, MemInv, MemoryTypes
  <1>2. IsFiniteSet(free) BY FreeType
  <1>3. IsFiniteSet(Range(taken)) BY <1>1, <1>2, FS_Subset
  <1>4. taken \in Bijection(1 .. n, Range(taken))
    BY <1>1 DEF Bijection, Injection, Surjection, IsInjective, Range
  <1>5. Cardinality(Range(taken)) = n
    <2>1. IsFiniteSet(1 .. n) /\ Cardinality(1 .. n) = n BY FS_Interval
    <2>2. ExistsBijection(1 .. n, Range(taken)) BY <1>4 DEF ExistsBijection
    <2> QED BY <2>1, <2>2, <1>3, FS_Bijection
  <1>6. free \cap Range(taken) = Range(taken) BY <1>1
  <1>7. Cardinality(free \ Range(taken)) = Cardinality(free) - Cardinality(free \cap Range(taken))
    BY <1>2, FS_Difference
  <1> QED BY <1>5, <1>6, <1>7 DEF NFree

\* What admission asks for is a number.
LEMMA NeedCounts ==
  ASSUME MemInv, NEW r \in Requests
  PROVE  /\ Need(r) \in Nat /\ TotalLen(r) \in Nat /\ TotalLen(r) > 0
         /\ BlocksNeeded(TotalLen(r)) \in Nat /\ BlocksNeeded(TotalLen(r)) <= Need(r)
  <1>1. PICK n \in Nat : n = TotalLen(r) /\ n > 0 BY TableType
  <1>2. PICK m \in Nat : m = n + 1 BY <1>1
  <1>3. BlocksNeeded(n) \in Nat /\ BlocksNeeded(m) \in Nat BY Rounding
  <1>4. BlocksNeeded(n) <= BlocksNeeded(m)
    <2> SUFFICES ASSUME BlocksNeeded(m) < BlocksNeeded(n) PROVE FALSE
      BY <1>3
    <2>1. PICK k \in Nat : k = BlocksNeeded(m) BY <1>3
    <2>2. k * BlockSize < n BY <2>1, Rounding
    <2>3. m <= k * BlockSize BY <2>1, Rounding
    <2>4. k * BlockSize \in Nat BY WholeBlocks
    <2> QED BY <1>1, <1>2, <2>2, <2>3, <2>4
  <1> QED BY <1>1, <1>2, <1>3, <1>4 DEF Need

--------------------------------------------------------------------------------
(* Who is where. *)

\* The lists of the engine, and what is in them.
LEMMA Lists ==
  ASSUME PInv
  PROVE  /\ waiting \in Seq(Requests) /\ running \in Seq(Requests)
         /\ admitted \in Seq(Requests) /\ states \in Seq(Requests) /\ arrival \in Seq(Requests)
         /\ Len(waiting) \in Nat /\ Len(running) \in Nat
         /\ Len(admitted) \in Nat /\ Len(states) \in Nat
         /\ reserved \in Nat /\ at \in Nat /\ at > 0
         /\ \A i \in 1 .. Len(waiting) : waiting[i] \in Range(waiting) /\ waiting[i] \in Requests
         /\ \A i \in 1 .. Len(running) : running[i] \in Range(running) /\ running[i] \in Requests
         /\ \A i \in 1 .. Len(admitted) : admitted[i] \in Range(admitted) /\ admitted[i] \in Requests
         /\ \A i \in 1 .. Len(states) : states[i] \in Range(states) /\ states[i] \in Requests
         /\ \A r \in Range(waiting) : r \in Requests /\ \E i \in 1 .. Len(waiting) : waiting[i] = r
         /\ \A r \in Range(running) : r \in Requests /\ \E i \in 1 .. Len(running) : running[i] = r
         /\ \A r \in Range(admitted) : r \in Requests /\ \E i \in 1 .. Len(admitted) : admitted[i] = r
         /\ \A r \in Range(states) : r \in Requests /\ \E i \in 1 .. Len(states) : states[i] = r
  <1>1. /\ waiting \in Seq(Requests) /\ running \in Seq(Requests)
        /\ admitted \in Seq(Requests) /\ states \in Seq(Requests) /\ arrival \in Seq(Requests)
        /\ reserved \in Nat /\ at \in Nat /\ at > 0
    BY DEF PInv, TypeOK
  <1>2. /\ Len(waiting) \in Nat /\ Len(running) \in Nat
        /\ Len(admitted) \in Nat /\ Len(states) \in Nat
    BY <1>1, LenProperties
  <1>3. ASSUME NEW s \in Seq(Requests)
        PROVE  /\ \A i \in 1 .. Len(s) : s[i] \in Range(s) /\ s[i] \in Requests
               /\ \A r \in Range(s) : r \in Requests /\ \E i \in 1 .. Len(s) : s[i] = r
    <2>1. \A e : e \in Range(s) <=> \E k \in 1 .. Len(s) : s[k] = e BY RangeMembers
    <2>2. \A i \in 1 .. Len(s) : s[i] \in Requests BY ElementOfSeq
    <2> QED BY <2>1, <2>2
  <1> QED BY <1>1, <1>2, <1>3

--------------------------------------------------------------------------------
(* Promises. *)

\* A request needs one block more than it fills.  If its first h blocks are
\* cached, it shares all of them, or all but the last when that is all it has,
\* and lacks no more than the rest.
LEMMA NeedAndShare ==
  ASSUME MemInv, NEW r \in Requests
  PROVE  /\ FullBlocks(AllTokens(r)) \in Nat
         /\ Need(r) = FullBlocks(AllTokens(r)) + 1
         /\ \A h \in 0 .. FullBlocks(AllTokens(r)) : Resident(r, h) =>
                BlocksNeeded(TotalLen(r)) + h
                    <= Need(r) + Min({Len(Hits(AllTokens(r))), MaxShared(AllTokens(r))})
  <1>1. PICK n \in Nat : n = TotalLen(r) /\ n > 0 BY TableType
  <1>2. PICK tokens \in Seq(Vocab) : tokens = AllTokens(r) /\ Len(tokens) = n BY <1>1, TableType
  <1>3. PICK f \in Nat : f = FullBlocks(tokens) /\ f = n \div BlockSize
    BY <1>2, KeyType DEF FullBlocks
  <1>4. Need(r) = f + 1 BY <1>1, <1>3, NextBlock DEF Need
  <1>5. PICK m \in Nat : m = MaxShared(tokens) /\ BlocksNeeded(n) = m + 1
    <2>1. n - 1 \in Nat /\ n - 1 + 1 = n BY <1>1
    <2>2. PICK m \in Nat : m = (n - 1) \div BlockSize BY <2>1, Division
    <2>3. BlocksNeeded(n - 1 + 1) = m + 1 BY <2>1, <2>2, NextBlock
    <2> QED BY <1>2, <2>1, <2>2, <2>3 DEF MaxShared
  <1>6. BlocksNeeded(n) <= f + 1 BY <1>1, <1>4, NeedCounts
  <1>7. PICK l \in Nat : l = Len(Hits(tokens)) BY <1>2, HitsType
  <1>8. ASSUME NEW h \in 0 .. f, Resident(r, h)
        PROVE  BlocksNeeded(n) + h <= f + 1 + Min({l, m})
    <2>1. h <= l BY <1>2, <1>3, <1>7, <1>8, HitsType DEF Resident
    <2>2. CASE l <= m
      <3>1. Min({l, m}) = l BY <2>2 DEF Min
      <3> QED BY <1>5, <1>6, <2>1, <3>1
    <2>3. CASE l > m
      <3>1. Min({l, m}) = m BY <2>3 DEF Min
      <3> QED BY <1>5, <3>1
    <2> QED BY <2>2, <2>3
  <1> QED BY <1>1, <1>2, <1>3, <1>4, <1>5, <1>7, <1>8

\* What was promised covers what is needed.
LEMMA OwedCovered ==
  ASSUME PInv, NEW due, Owed(due)
  PROVE  Covered(due, 1)
  <1> SUFFICES ASSUME NEW i \in 1 .. Len(admitted)
               PROVE  \E h \in 0 .. FullBlocks(AllTokens(admitted[i])) :
                          Resident(admitted[i], h) /\ due[i] + h = Need(admitted[i]) + due[i + 1]
    BY DEF Owed, Covered
  <1>1. PICK r \in Requests : r = admitted[i] BY Lists
  <1>2. FullBlocks(AllTokens(r)) \in Nat BY NeedAndShare DEF PInv
  <1>3. 0 \in 0 .. FullBlocks(AllTokens(r)) /\ Resident(r, 0) BY <1>2 DEF Resident
  <1>4. due[i] \in Nat /\ due[i] = Need(admitted[i]) + due[i + 1] BY Lists DEF Owed
  <1> QED BY <1>1, <1>3, <1>4

\* Has the same tokens and needs as many blocks for them.
StillNeeds(r) == AllTokens(r)' = AllTokens(r) /\ Need(r)' = Need(r)

\* What is covered stays covered as long as the cache loses nothing and those
\* still to be served need what they needed.
LEMMA CoveredKept ==
  ASSUME NEW due, NEW m \in Nat, NEW n \in Nat, m <= n, Covered(due, m),
         admitted' = admitted, Keys \subseteq Keys',
         \A i \in 1 .. Len(admitted) : i >= n => StillNeeds(admitted[i])
  PROVE  Covered(due, n)'
  <1>1. ASSUME NEW i \in 1 .. Len(admitted), i >= n
        PROVE  \E h \in 0 .. FullBlocks(AllTokens(admitted[i])') :
                   Resident(admitted[i], h)' /\ due[i] + h = Need(admitted[i])' + due[i + 1]
    <2>1. AllTokens(admitted[i])' = AllTokens(admitted[i]) /\ Need(admitted[i])' = Need(admitted[i])
      BY <1>1 DEF StillNeeds
    <2>2. i >= m BY <1>1
    <2>3. PICK h \in 0 .. FullBlocks(AllTokens(admitted[i])) :
              Resident(admitted[i], h) /\ due[i] + h = Need(admitted[i]) + due[i + 1]
      BY <2>2 DEF Covered
    <2>4. Resident(admitted[i], h)' BY <2>1, <2>3 DEF Resident, Key
    <2> QED BY <2>1, <2>3, <2>4
  <1> QED BY <1>1 DEF Covered, FullBlocks

--------------------------------------------------------------------------------
(* Between steps, and the beginning of one. *)

\* A new request joins the queue, between steps.
LEMMA ArriveStep ==
  ASSUME PInv, NEW r \in Requests, AddRequest(r), UNCHANGED cacheVars
  PROVE  PInv'
  <1>1. /\ pc = "idle" /\ r \notin Range(arrival) /\ pc' = pc
        /\ waiting' = Append(waiting, r) /\ arrival' = Append(arrival, r)
        /\ UNCHANGED <<poolVars, requestVars, cacheVars>>
        /\ UNCHANGED <<running, admitted, reserved, states, at, outlived>>
    BY DEF AddRequest, stepVars, poolVars, requestVars, cacheVars
  <1>2. MemInv BY DEF PInv
  <1>3. /\ MemInv' /\ finished' = finished
        /\ \A s : (Cold(s)' <=> Cold(s)) /\ (Served(s)' <=> Served(s)) /\ (Decoded(s)' <=> Decoded(s))
    BY <1>1, <1>2, Quiet
  <1>4. Once(waiting) /\ r \notin Range(waiting) /\ r \notin Range(running) /\ r \notin Range(admitted)
    BY <1>1 DEF PInv, Roles
  <1>5. /\ waiting' \in Seq(Requests) /\ Range(waiting') = Range(waiting) \cup {r} /\ Once(waiting')
    BY <1>1, <1>4, Lists, OnceAppend
  <1>6. arrival' \in Seq(Requests) /\ Range(arrival') = Range(arrival) \cup {r}
    BY <1>1, Lists, OnceAppend
  <1>7. TypeOK'
    BY <1>1, <1>5, <1>6 DEF PInv, TypeOK, poolVars, requestVars
  <1>8. Roles'
    <2>1. /\ Once(running') /\ Once(admitted')
          /\ Range(running') = Range(running) /\ Range(admitted') = Range(admitted)
      BY <1>1 DEF PInv, Roles, Once
    <2> QED BY <1>4, <1>5, <1>6, <2>1 DEF PInv, Roles
  <1>9. InStep' BY <1>1, <1>3 DEF PInv, InStep, Admitting
  <1>10. InBatch' BY <1>1, <1>3 DEF PInv, InBatch, Outsiders, Pending
  <1>11. Slotted' /\ BeingAdmitted' /\ Promise'
    BY <1>1 DEF Slotted, BeingAdmitted, Promise, Admitting
  <1> QED BY <1>3, <1>7, <1>8, <1>9, <1>10, <1>11 DEF PInv

\* The step begins.
LEMMA BeginPrefixStep ==
  ASSUME PInv, pc = "idle", pc' = "retire",
         UNCHANGED <<poolVars, cacheVars, requestVars, waiting, running, stepVars, history>>
  PROVE  PInv'
  <1>1. /\ pc = "idle" /\ pc' = "retire"
        /\ UNCHANGED <<poolVars, requestVars, cacheVars>>
        /\ UNCHANGED <<running, waiting, admitted, reserved, states, at, arrival, outlived>>
    BY DEF stepVars, history
  <1>2. MemInv BY DEF PInv
  <1>3. /\ MemInv' /\ finished' = finished
        /\ \A s : (Cold(s)' <=> Cold(s)) /\ (Served(s)' <=> Served(s)) /\ (Decoded(s)' <=> Decoded(s))
    BY <1>1, <1>2, Quiet
  <1>4. TypeOK' BY <1>1 DEF PInv, TypeOK, poolVars, requestVars
  <1>5. Roles' BY <1>1 DEF PInv, Roles, Once
  <1>6. InStep' BY <1>1, <1>3 DEF PInv, InStep, Admitting
  <1>7. InBatch' BY <1>1, <1>3 DEF PInv, InBatch, Outsiders, Pending
  <1>8. Slotted' /\ BeingAdmitted' /\ Promise'
    BY <1>1 DEF Slotted, BeingAdmitted, Promise, Admitting
  <1> QED BY <1>3, <1>4, <1>5, <1>6, <1>7, <1>8 DEF PInv

\* A finished request leaves the batch.
LEMMA RetireStep ==
  ASSUME PInv, RetireOne, UNCHANGED cacheVars
  PROVE  PInv'
  <1>1. /\ pc \in {"retire", "settle"} /\ pc' = pc
        /\ UNCHANGED <<poolVars, requestVars, cacheVars>>
        /\ UNCHANGED <<waiting, admitted, reserved, states, at, arrival, outlived>>
    BY DEF RetireOne, stepVars, history
  <1>2. pc = "retire" BY <1>1 DEF PInv, InStep, Admitting
  <1>3. PICK i \in 1 .. Len(running) : finished[running[i]] /\ running' = RemoveAt(running, i)
    BY DEF RetireOne
  <1>4. MemInv BY DEF PInv
  <1>5. /\ MemInv' /\ finished' = finished
        /\ \A s : (Cold(s)' <=> Cold(s)) /\ (Served(s)' <=> Served(s)) /\ (Decoded(s)' <=> Decoded(s))
    BY <1>1, <1>4, Quiet
  <1>6. Once(running) /\ running \in Seq(Requests) /\ running[i] \in Range(running)
    BY Lists DEF PInv, Roles
  <1>7. /\ running' \in Seq(Requests) /\ Once(running')
        /\ Range(running') = Range(running) \ {running[i]}
    BY <1>3, <1>6, OnceRemove DEF Once
  <1>8. Len(running') <= Len(running) /\ Len(running') \in Nat
    <2>1. Len(RemoveAt(running, i)) = Len(running) - 1 BY <1>6, RemoveAtType
    <2>2. Len(running) \in Nat BY Lists
    <2>3. Len(running) - 1 \in Nat BY <2>2
    <2>4. Len(running') = Len(running) - 1 BY <1>3, <2>1
    <2> QED BY <2>2, <2>3, <2>4
  <1>9. TypeOK'
    <2>1. Len(running') + Len(admitted') <= MaxBatchSize
      BY <1>1, <1>8, Lists, EngineAssumption DEF PInv, TypeOK
    <2> QED BY <1>1, <1>7, <2>1 DEF PInv, TypeOK, poolVars, requestVars
  <1>10. Roles'
    <2>1. /\ Once(waiting') /\ Once(admitted') /\ Range(admitted') = Range(admitted)
          /\ Range(waiting') = Range(waiting) /\ Range(arrival') = Range(arrival)
      BY <1>1 DEF PInv, Roles, Once
    <2> QED BY <1>7, <2>1 DEF PInv, Roles
  <1>11. InStep' BY <1>1, <1>2 DEF PInv, InStep, Admitting
  <1>12. InBatch'
    <2>1. Cold(running[i])
      BY <1>2, <1>3, <1>6 DEF PInv, InBatch, Pending, Served
    <2>2. ASSUME NEW s \in Outsiders' PROVE Cold(s)'
      <3>1. s \in Outsiders \/ s = running[i] BY <1>1, <1>7 DEF Outsiders
      <3> QED BY <1>5, <2>1, <3>1 DEF PInv, InBatch
    <2>3. ASSUME NEW s \in Range(running') PROVE Served(s)'
      BY <1>2, <1>5, <1>7 DEF PInv, InBatch, Pending
    <2> QED BY <1>1, <1>2, <2>2, <2>3 DEF InBatch, Pending
  <1>13. Slotted' /\ BeingAdmitted' /\ Promise'
    BY <1>1, <1>2 DEF Slotted, BeingAdmitted, Promise, Admitting
  <1> QED BY <1>5, <1>9, <1>10, <1>11, <1>12, <1>13 DEF PInv

\* Nobody finished is left in the batch.
LEMMA RetiredStep ==
  ASSUME PInv, Retired, UNCHANGED cacheVars
  PROVE  PInv'
  <1>1. /\ pc = "retire" /\ pc' = "admit"
        /\ UNCHANGED <<poolVars, requestVars, cacheVars>>
        /\ UNCHANGED <<running, waiting, admitted, reserved, states, at, arrival, outlived>>
    BY DEF Retired, stepVars, history
  <1>2. \A i \in 1 .. Len(running) : ~finished[running[i]] BY DEF Retired
  <1>3. MemInv BY DEF PInv
  <1>4. /\ MemInv' /\ finished' = finished /\ NFree' = NFree
        /\ \A s : (Cold(s)' <=> Cold(s)) /\ (Served(s)' <=> Served(s)) /\ (Decoded(s)' <=> Decoded(s))
    BY <1>1, <1>3, Quiet
  <1>5. \A r \in Range(running) : ~finished[r] BY <1>2, Lists
  <1>6. TypeOK' BY <1>1 DEF PInv, TypeOK, poolVars, requestVars
  <1>7. Roles' BY <1>1 DEF PInv, Roles, Once
  <1>8. InStep' BY <1>1, <1>4, <1>5 DEF PInv, InStep, Admitting
  <1>9. InBatch' BY <1>1, <1>4 DEF PInv, InBatch, Outsiders, Pending
  <1>10. admitted = <<>> /\ reserved = 0 BY <1>1 DEF PInv, InStep, Admitting
  <1>11. Slotted' BY <1>1 DEF Slotted
  <1>12. BeingAdmitted' BY <1>1, <1>10 DEF BeingAdmitted, Admitting
  <1>13. Promise'
    <2>1. Len(admitted) = 0 BY <1>10
    <2>2. Owed([i \in 1 .. 1 |-> 0]) BY <2>1 DEF Owed
    <2>3. NFree \in Nat BY <1>3, FreeType
    <2> DEFINE none == [i \in 1 .. 1 |-> 0]
    <2>4. Owed(none)' BY <1>1, <2>1 DEF Owed
    <2>5. none[1] = reserved' /\ reserved' <= NFree' BY <1>1, <1>4, <1>10, <2>3
    <2> HIDE DEF none
    <2>6. \E due : Owed(due)' /\ due[1] = reserved' /\ reserved' <= NFree' BY <2>4, <2>5
    <2> QED BY <1>1, <2>6 DEF Promise
  <1> QED BY <1>4, <1>6, <1>7, <1>8, <1>9, <1>11, <1>12, <1>13 DEF PInv

--------------------------------------------------------------------------------
(* Admission. *)

\* A request moves from the queue to those let in, and the blocks it needs are
\* promised to it.
LEMMA AdmitStep ==
  ASSUME PInv, NEW index \in 1 .. Len(waiting), AdmitAt(index), UNCHANGED cacheVars
  PROVE  PInv'
  <1> DEFINE n == Need(waiting[index])
  <1>1. /\ pc = "admit" /\ pc' = pc /\ waiting # <<>>
        /\ Len(running) + Len(admitted) < MaxBatchSize
        /\ n <= NFree - reserved /\ reserved' = reserved + n
        /\ admitted' = Append(admitted, waiting[index]) /\ waiting' = RemoveAt(waiting, index)
        /\ UNCHANGED <<poolVars, requestVars, cacheVars>>
        /\ UNCHANGED <<running, states, at, arrival, outlived>>
    BY DEF AdmitAt, RoomInBatch, Fits, history
  <1>2. MemInv BY DEF PInv
  <1>3. /\ MemInv' /\ finished' = finished /\ NFree' = NFree
        /\ \A s : (Cold(s)' <=> Cold(s)) /\ (Served(s)' <=> Served(s)) /\ (Decoded(s)' <=> Decoded(s))
        /\ \A s : Need(s)' = Need(s)
    BY <1>1, <1>2, Quiet
  <1>4. PICK c \in Requests : c = waiting[index] /\ c \in Range(waiting) BY Lists
  <1>5. n \in Nat BY <1>2, <1>4, NeedCounts
  <1>6. n = Need(c) BY <1>4
  <1> HIDE DEF n
  <1>7. /\ Once(waiting) /\ Once(admitted) /\ c \notin Range(running) /\ c \notin Range(admitted)
        /\ waiting \in Seq(Requests) /\ admitted \in Seq(Requests) /\ Len(admitted) \in Nat
        /\ Len(running) \in Nat
    BY <1>4, Lists DEF PInv, Roles
  <1>8. /\ waiting' \in Seq(Requests) /\ Once(waiting') /\ Range(waiting') = Range(waiting) \ {c}
    BY <1>1, <1>4, <1>7, OnceRemove DEF Once
  <1>9. /\ admitted' \in Seq(Requests) /\ Len(admitted') = Len(admitted) + 1 /\ Once(admitted')
        /\ Range(admitted') = Range(admitted) \cup {c}
        /\ \A i \in 1 .. Len(admitted) : admitted'[i] = admitted[i]
        /\ admitted'[Len(admitted) + 1] = c
    BY <1>1, <1>4, <1>7, OnceAppend
  <1>10. TypeOK'
    <2>1. Len(running') + Len(admitted') <= MaxBatchSize BY <1>1, <1>7, <1>9, EngineAssumption
    <2>2. reserved' \in Nat BY <1>1, <1>5, Lists
    <2> QED BY <1>1, <1>8, <1>9, <2>1, <2>2 DEF PInv, TypeOK, poolVars, requestVars
  <1>11. Roles'
    <2>1. Once(running') /\ Range(running') = Range(running) /\ Range(arrival') = Range(arrival)
      BY <1>1 DEF PInv, Roles, Once
    <2> QED BY <1>4, <1>7, <1>8, <1>9, <2>1 DEF PInv, Roles
  <1>12. InStep' BY <1>1, <1>3 DEF PInv, InStep, Admitting
  <1>13. Cold(c) BY <1>4, <1>7 DEF PInv, InBatch, Outsiders
  <1>14. InBatch'
    <2>1. ASSUME NEW s \in Outsiders' PROVE Cold(s)'
      <3>1. s \in Outsiders BY <1>1, <1>9 DEF Outsiders
      <3> QED BY <1>3, <3>1 DEF PInv, InBatch
    <2>2. ASSUME NEW s \in Range(running') PROVE Served(s)'
      BY <1>1, <1>3 DEF PInv, InBatch, Pending
    <2> QED BY <1>1, <2>1, <2>2 DEF InBatch, Pending
  <1>15. Slotted' BY <1>1 DEF Slotted
  <1>16. BeingAdmitted'
    <2>1. ASSUME NEW i \in 1 .. Len(admitted') PROVE Cold(admitted'[i])
      <3>1. i \in 1 .. Len(admitted) \/ i = Len(admitted) + 1 BY <1>7, <1>9
      <3> QED BY <1>1, <1>9, <1>13, <3>1 DEF PInv, BeingAdmitted
    <2> QED BY <1>1, <1>3, <2>1 DEF BeingAdmitted, Admitting
  <1>17. Promise'
    <2>1. PICK due : Owed(due) /\ due[1] = reserved /\ reserved <= NFree
      BY <1>1 DEF PInv, Promise
    <2>o. /\ \A i \in 1 .. Len(admitted) + 1 : due[i] \in Nat
          /\ due[Len(admitted) + 1] = 0
          /\ \A i \in 1 .. Len(admitted) : due[i] = Need(admitted[i]) + due[i + 1]
      BY <1>7, <2>1 DEF Owed
    <2>a. PICK more : more = [i \in 1 .. Len(admitted) + 2 |->
                                 IF i <= Len(admitted) + 1 THEN due[i] + n ELSE 0]
      OBVIOUS
    <2>2. ASSUME NEW i \in 1 .. Len(admitted) + 1
          PROVE  due[i] + n \in Nat /\ more[i] = due[i] + n
      BY <1>5, <1>7, <2>a, <2>o
    <2>3. more[Len(admitted) + 2] = 0 BY <1>7, <2>a
    <2>4. more \in [1 .. Len(admitted) + 2 -> Nat]
      <3>1. ASSUME NEW i \in 1 .. Len(admitted) + 2
            PROVE  (IF i <= Len(admitted) + 1 THEN due[i] + n ELSE 0) \in Nat
        BY <1>5, <1>7, <2>o
      <3> QED BY <2>a, <3>1
    <2>5. ASSUME NEW i \in 1 .. Len(admitted')
          PROVE  more[i] = Need(admitted'[i]) + more[i + 1]
      <3>1. CASE i \in 1 .. Len(admitted)
        <4>1. i \in 1 .. Len(admitted) + 1 /\ i + 1 \in 1 .. Len(admitted) + 1
          BY <1>7, <3>1
        <4>2. due[i] = Need(admitted[i]) + due[i + 1] BY <2>o, <3>1
        <4>3. more[i] = due[i] + n /\ more[i + 1] = due[i + 1] + n BY <2>2, <4>1
        <4>4. Need(admitted[i]) \in Nat BY <1>2, <3>1, Lists, NeedCounts
        <4>5. due[i] \in Nat /\ due[i + 1] \in Nat BY <2>o, <4>1
        <4>6. admitted'[i] = admitted[i] BY <1>9, <3>1
        <4> QED BY <1>5, <4>2, <4>3, <4>4, <4>5, <4>6
      <3>2. CASE i = Len(admitted) + 1
        <4>1. i \in 1 .. Len(admitted) + 1 /\ i + 1 = Len(admitted) + 2 BY <1>7, <3>2
        <4>2. more[i] = due[i] + n /\ more[i + 1] = 0 /\ due[i] = 0 BY <2>o, <2>2, <2>3, <3>2, <4>1
        <4>3. Need(admitted'[i]) = n BY <1>6, <1>9, <3>2
        <4> QED BY <1>5, <4>2, <4>3
      <3>3. i \in 1 .. Len(admitted) \/ i = Len(admitted) + 1 BY <1>7, <1>9
      <3> QED BY <3>1, <3>2, <3>3
    <2>6. Len(admitted') + 1 = Len(admitted) + 2 BY <1>7, <1>9
    <2>7. Owed(more)' BY <1>3, <2>3, <2>4, <2>5, <2>6 DEF Owed
    <2>8. more[1] = reserved' /\ reserved' <= NFree'
      <3>1. 1 \in 1 .. Len(admitted) + 1 BY <1>7
      <3>2. more[1] = due[1] + n BY <2>2, <3>1
      <3>3. NFree \in Nat /\ reserved \in Nat BY <1>2, FreeType, Lists
      <3> QED BY <1>1, <1>3, <1>5, <2>1, <3>2, <3>3
    <2>9. \E owing : Owed(owing)' /\ owing[1] = reserved' /\ reserved' <= NFree' BY <2>7, <2>8
    <2> QED BY <1>1, <2>9 DEF Promise
  <1> QED BY <1>3, <1>10, <1>11, <1>12, <1>14, <1>15, <1>16, <1>17 DEF PInv

\* A cached prefix makes room: nothing that anybody was promised is lost.
LEMMA EvictStep ==
  ASSUME PInv, NEW index, EvictFor(index)
  PROVE  PInv'
  <1>1. /\ pc = "admit" /\ pc' = pc /\ entries # <<>> /\ EvictOldest
        /\ UNCHANGED requestVars
        /\ UNCHANGED <<waiting, running, admitted, reserved, states, at, arrival, outlived>>
    BY DEF EvictFor, stepVars, history
  <1>2. MemInv BY DEF PInv
  <1>3. UNCHANGED <<block_table, stored, output_token_ids>> /\ finished' = finished
    BY <1>1 DEF requestVars
  <1>4. MemInv' /\ free \subseteq free' BY <1>1, <1>2, <1>3, EvictMemory
  <1>5. NFree' \in Nat /\ NFree <= NFree' /\ NFree \in Nat BY <1>2, <1>4, FreeGrows, FreeType
  <1>6. \A s : Same(s) BY <1>3 DEF Same
  <1>7. \A s : (Cold(s)' <=> Cold(s)) /\ (Served(s)' <=> Served(s)) /\ (Decoded(s)' <=> Decoded(s))
                /\ Need(s)' = Need(s)
    BY <1>6, Frame
  <1>8. TypeOK'
    <2>1. free' \subseteq Blocks /\ refcount' \in [Blocks -> Nat] BY <1>4 DEF MemInv, MemoryTypes
    <2> QED BY <1>1, <2>1 DEF PInv, TypeOK, requestVars
  <1>9. Roles' BY <1>1 DEF PInv, Roles, Once
  <1>10. InStep' BY <1>1, <1>3 DEF PInv, InStep, Admitting
  <1>11. InBatch' BY <1>1, <1>7 DEF PInv, InBatch, Outsiders, Pending
  <1>12. Slotted' BY <1>1 DEF Slotted
  <1>13. BeingAdmitted' BY <1>1, <1>7 DEF PInv, BeingAdmitted, Admitting
  <1>14. Promise'
    <2>1. PICK due : Owed(due) /\ due[1] = reserved /\ reserved <= NFree
      BY <1>1 DEF PInv, Promise
    <2>2. Owed(due)' BY <1>1, <1>7, <2>1 DEF Owed
    <2>3. reserved' <= NFree' /\ due[1] = reserved' BY <1>1, <1>5, <2>1, Lists
    <2> QED BY <1>1, <2>2, <2>3 DEF Promise
  <1> QED BY <1>4, <1>8, <1>9, <1>10, <1>11, <1>12, <1>13, <1>14 DEF PInv

\* The step turns to those let in, to the batch, or ends.
LEMMA StopStep ==
  ASSUME PInv, pc = "admit", StartWork, UNCHANGED cacheVars
  PROVE  PInv'
  <1>1. /\ states' = IF admitted # <<>> THEN admitted ELSE running
        /\ reserved' = 0 /\ at' = 1
        /\ pc' = IF admitted # <<>> THEN "prefill" ELSE IF running # <<>> THEN "grow" ELSE "idle"
        /\ UNCHANGED <<poolVars, requestVars, cacheVars>>
        /\ UNCHANGED <<waiting, running, admitted, arrival, outlived>>
    BY DEF StartWork, history
  <1>2. MemInv BY DEF PInv
  <1>3. /\ MemInv' /\ finished' = finished /\ NFree' = NFree
        /\ \A s : (Cold(s)' <=> Cold(s)) /\ (Served(s)' <=> Served(s)) /\ (Decoded(s)' <=> Decoded(s))
        /\ \A s : Need(s)' = Need(s)
    BY <1>1, <1>2, Quiet
  <1>4. \A r \in Range(running) : ~finished[r] BY DEF PInv, InStep
  <1>5. Len(admitted) \in Nat /\ Len(running) \in Nat BY Lists
  <1>6. TypeOK' BY <1>1 DEF PInv, TypeOK, poolVars, requestVars
  <1>7. Roles' BY <1>1 DEF PInv, Roles, Once
  <1>8. InStep'
    <2>1. CASE admitted # <<>>
      BY <1>1, <1>3, <1>4, <1>5, <2>1 DEF InStep, Admitting
    <2>2. CASE admitted = <<>>
      <3>1. Once(running) BY DEF PInv, Roles
      <3>2. states' = running /\ running' = running /\ admitted' = admitted /\ reserved' = 0
            /\ pc' \in {"grow", "idle"}
        BY <1>1, <2>2
      <3>3. Once(states)' BY <3>1, <3>2 DEF Once
      <3> QED BY <1>3, <1>4, <2>2, <3>2, <3>3 DEF InStep, Admitting
    <2> QED BY <2>1, <2>2
  <1>9. InBatch'
    <2>1. \A s \in Outsiders' : Cold(s)' BY <1>1, <1>3 DEF PInv, InBatch, Outsiders
    <2>2. \A s \in Range(running') : Served(s)' BY <1>1, <1>3 DEF PInv, InBatch, Pending
    <2>3. pc' # "emit_decode" BY <1>1
    <2> QED BY <2>1, <2>2, <2>3 DEF InBatch, Pending
  <1>10. Slotted' BY <1>1, <1>5 DEF Slotted
  <1>11. BeingAdmitted'
    <2>1. \A i \in 1 .. Len(admitted) : Cold(admitted[i]) BY DEF PInv, BeingAdmitted
    <2> QED BY <1>1, <1>3, <1>5, <2>1 DEF BeingAdmitted, Admitting
  <1>12. Promise'
    <2>1. PICK due : Owed(due) /\ due[1] = reserved /\ reserved <= NFree
      BY DEF PInv, Promise
    <2>2. Covered(due, 1) BY <1>2, <2>1, OwedCovered
    <2>a. Covered(due, 1)'
      <3>1. Keys' = Keys /\ \A s : AllTokens(s)' = AllTokens(s)
        BY <1>1 DEF cacheVars, requestVars, Keys, AllTokens
      <3>2. \A i \in 1 .. Len(admitted) : i >= 1 => StillNeeds(admitted[i])
        BY <1>1, <1>3, <3>1 DEF StillNeeds
      <3> QED BY <1>1, <1>5, <2>2, <3>1, <3>2, CoveredKept
    <2>3. due[1] <= NFree' BY <1>3, <2>1
    <2>4. \E owing : Covered(owing, 1)' /\ owing[1] <= NFree' BY <2>a, <2>3
    <2>5. at' = 1 /\ pc' \notin {"admit", "fill", "emit_prefill"} BY <1>1
    <2>6. \E owing : Covered(owing, at)' /\ owing[at'] <= NFree' BY <2>4, <2>5
    <2> QED BY <2>5, <2>6 DEF Promise
  <1> QED BY <1>3, <1>6, <1>7, <1>8, <1>9, <1>10, <1>11, <1>12 DEF PInv

--------------------------------------------------------------------------------
(* Prefill. *)

\* The request that prefill or its emission is at.
LEMMA AtHand ==
  ASSUME PInv, pc \in Admitting, at <= Len(states)
  PROVE  /\ states = admitted /\ at \in 1 .. Len(admitted) /\ at + 1 \in 1 .. Len(admitted) + 1
         /\ states[at] = admitted[at] /\ states[at] \in Requests
         /\ states[at] \in Range(admitted) /\ states[at] \notin Range(running)
         /\ \A i \in 1 .. Len(admitted) : i # at => admitted[i] # states[at]
  <1>1. states = admitted BY DEF PInv, InStep
  <1>2. at \in 1 .. Len(admitted) /\ at + 1 \in 1 .. Len(admitted) + 1 BY <1>1, Lists
  <1>3. admitted[at] \in Requests /\ admitted[at] \in Range(admitted) BY <1>2, Lists
  <1>4. Range(running) \cap Range(admitted) = {} /\ Once(admitted) BY DEF PInv, Roles
  <1>5. \A i \in 1 .. Len(admitted) : i # at => admitted[i] # admitted[at]
    BY <1>2, <1>4 DEF Once
  <1> QED BY <1>1, <1>2, <1>3, <1>4, <1>5

\* The cached prefix of a prompt becomes part of its table.
LEMMA ShareStep ==
  ASSUME PInv, ShareCached
  PROVE  PInv'
  <1>1. /\ pc = "prefill" /\ at <= Len(states) /\ pc' = "fill"
        /\ UNCHANGED <<free, stored, output_token_ids, kv>> /\ finished' = finished
        /\ UNCHANGED <<waiting, running, admitted, reserved, states, at, arrival, outlived>>
    BY DEF ShareCached, stepVars, history
  <1>2. PICK r \in Requests : /\ r = states[at] /\ r = admitted[at] /\ r \in Range(admitted)
                              /\ r \notin Range(running)
                              /\ \A i \in 1 .. Len(admitted) : i # at => admitted[i] # r
    BY <1>1, AtHand DEF Admitting
  <1>3. states = admitted /\ at \in 1 .. Len(admitted) /\ at + 1 \in 1 .. Len(admitted) + 1
    BY <1>1, AtHand DEF Admitting
  <1>4. MemInv BY DEF PInv
  <1>5. Cold(r) BY <1>1, <1>2, <1>3 DEF PInv, BeingAdmitted, Admitting
  <1>6. Shares(r) BY <1>2 DEF ShareCached, Shares
  <1>7. block_table[r] = <<>> /\ stored[r] = 0 BY <1>5 DEF Cold
  <1>8. /\ MemInv' /\ Keys' = Keys /\ block_table'[r] \in Seq(Blocks)
        /\ Len(block_table'[r]) = Min({Len(Hits(AllTokens(r))), MaxShared(AllTokens(r))})
    BY <1>1, <1>2, <1>4, <1>6, <1>7, ShareMemory
  <1>9. block_table \in [Requests -> Seq(Blocks)] BY <1>4 DEF MemInv, MemoryTypes
  <1>10. \A s \in Requests : s # r => block_table'[s] = block_table[s] BY <1>6, <1>9 DEF Shares
  <1>11. ASSUME NEW s \in Requests, s # r
         PROVE  /\ Cold(s)' <=> Cold(s)
                /\ Served(s)' <=> Served(s)
    <2>1. Same(s) BY <1>1, <1>10, <1>11 DEF Same
    <2> QED BY <2>1, Frame
  <1>12. stored'[r] = 0 BY <1>1, <1>7
  <1>13. TypeOK'
    <2>1. /\ refcount' \in [Blocks -> Nat] /\ block_table' \in [Requests -> Seq(Blocks)]
      BY <1>8 DEF MemInv, MemoryTypes
    <2> QED BY <1>1, <2>1 DEF PInv, TypeOK
  <1>14. Roles' BY <1>1 DEF PInv, Roles, Once
  <1>15. InStep' BY <1>1, <1>3 DEF PInv, InStep, Admitting
  <1>16. InBatch'
    <2>1. ASSUME NEW s \in Outsiders' PROVE Cold(s)'
      <3>1. s \in Outsiders /\ s # r /\ s \in Requests BY <1>1, <1>2 DEF Outsiders
      <3> QED BY <1>11, <3>1 DEF PInv, InBatch
    <2>2. ASSUME NEW s \in Range(running') PROVE Served(s)'
      <3>1. s \in Range(running) /\ s # r /\ s \in Requests BY <1>1, <1>2, Lists
      <3>2. Served(s) BY <1>1, <3>1 DEF PInv, InBatch, Pending
      <3> QED BY <1>11, <3>1, <3>2
    <2> QED BY <1>1, <2>1, <2>2 DEF InBatch, Pending
  <1>17. Slotted' BY <1>1 DEF Slotted
  <1>18. BeingAdmitted'
    <2>1. ASSUME NEW i \in 1 .. Len(admitted), i < at PROVE Served(admitted[i])'
      <3>1. admitted[i] \in Requests /\ admitted[i] # r BY <1>2, <1>3, <2>1, Lists
      <3>2. Served(admitted[i]) BY <1>1, <2>1 DEF PInv, BeingAdmitted, Admitting
      <3> QED BY <1>1, <1>11, <3>1, <3>2
    <2>2. ASSUME NEW i \in 1 .. Len(admitted), i > at PROVE Cold(admitted[i])'
      <3>1. admitted[i] \in Requests /\ admitted[i] # r BY <1>2, <1>3, <2>2, Lists
      <3>2. Cold(admitted[i]) BY <1>1, <2>2 DEF PInv, BeingAdmitted, Admitting
      <3> QED BY <1>1, <1>11, <3>1, <3>2
    <2> QED BY <1>1, <1>2, <1>3, <1>12, <2>1, <2>2 DEF BeingAdmitted
  <1>19. Promise'
    <2>1. PICK due : Covered(due, at) /\ due[at] <= NFree BY <1>1 DEF PInv, Promise
    <2>2. PICK h \in 0 .. FullBlocks(AllTokens(r)) :
              Resident(r, h) /\ due[at] + h = Need(r) + due[at + 1]
      BY <1>2, <1>3, <2>1, Lists DEF Covered
    <2>n. due[at] \in Nat /\ due[at + 1] \in Nat
      <3>1. due \in [1 .. Len(admitted) + 1 -> Nat] BY <2>1 DEF Covered
      <3>2. at \in 1 .. Len(admitted) + 1 BY <1>3, Lists
      <3> QED BY <1>3, <3>1, <3>2
    <2>3. Covered(due, at + 1)'
      <3>1. ASSUME NEW i \in 1 .. Len(admitted), i >= at + 1 PROVE StillNeeds(admitted[i])
        <4>1. TotalLen(admitted[i])' = TotalLen(admitted[i]) /\ AllTokens(admitted[i])' = AllTokens(admitted[i])
          BY <1>1 DEF TotalLen, AllTokens
        <4> QED BY <4>1 DEF StillNeeds, Need, BlocksNeeded
      <3>2. at \in Nat /\ at + 1 \in Nat /\ at <= at + 1 BY <1>3, Lists
      <3> QED BY <1>1, <1>8, <2>1, <3>1, <3>2, CoveredKept
    <2>4. Lacking(r)' + h <= Need(r) /\ Lacking(r)' \in Int /\ Need(r) \in Nat /\ h \in Nat
      <3>1. PICK k \in Nat : k = BlocksNeeded(TotalLen(r)) BY <1>4, NeedCounts
      <3>2. TotalLen(r)' = TotalLen(r) BY <1>1 DEF TotalLen
      <3>3. PICK m \in Nat : m = Len(block_table'[r]) BY <1>8, LenProperties
      <3>4. Lacking(r)' = k - m BY <3>1, <3>2, <3>3 DEF Lacking, BlocksNeeded
      <3>5. k + h <= Need(r) + m /\ Need(r) \in Nat /\ h \in Nat
        BY <1>4, <1>8, <2>2, <3>1, <3>3, NeedAndShare, NeedCounts
      <3> QED BY <3>4, <3>5
    <2>5. NFree' = NFree /\ NFree \in Nat BY <1>1, <1>4, FreeType DEF NFree
    <2>7. Lacking(r)' + due[at + 1] <= NFree' BY <2>1, <2>2, <2>n, <2>4, <2>5
    <2>8. Lacking(states[at])' = Lacking(r)' BY <1>1, <1>2
    <2>9. \E owing : Covered(owing, at + 1)' /\ Lacking(states[at])' + owing[at' + 1] <= NFree'
      BY <1>1, <2>3, <2>7, <2>8
    <2> QED BY <1>1, <2>9 DEF Promise
  <1> QED BY <1>8, <1>13, <1>14, <1>15, <1>16, <1>17, <1>18, <1>19 DEF PInv

\* What it still lacks was promised to it, so nobody is evicted for it: the
\* blocks are taken and the suffix is computed.
LEMMA Promised ==
  ASSUME PInv, pc = "fill"
  PROVE  /\ Available(Lacking(states[at])) /\ Lacking(states[at]) \in Nat
         /\ stored[states[at]] = 0
  <1>1. at <= Len(states) BY DEF PInv, InStep
  <1>2. /\ states = admitted /\ at \in 1 .. Len(admitted) /\ at + 1 \in 1 .. Len(admitted) + 1
        /\ states[at] \in Requests
    BY <1>1, AtHand DEF Admitting
  <1>3. stored[states[at]] = 0 BY <1>2 DEF PInv, BeingAdmitted, Admitting
  <1>4. MemInv BY DEF PInv
  <1>5. Lacking(states[at]) \in Nat BY <1>2, <1>3, <1>4, LackingType
  <1>6. PICK due : Covered(due, at + 1) /\ Lacking(states[at]) + due[at + 1] <= NFree
    BY DEF PInv, Promise
  <1>7. due[at + 1] \in Nat BY <1>2, <1>6 DEF Covered
  <1>8. NFree \in Nat BY <1>4, FreeType
  <1> QED BY <1>3, <1>5, <1>6, <1>7, <1>8 DEF Available

\* The request at hand gets its blocks and its KV.
LEMMA FillStep ==
  ASSUME PInv, Fill
  PROVE  PInv'
  <1>1. /\ pc = "fill"
        /\ UNCHANGED <<output_token_ids, finished, admitted, reserved, at, arrival>>
    BY DEF Fill
  <1>2. at <= Len(states) BY <1>1 DEF PInv, InStep
  <1>3. PICK r \in Requests : /\ r = states[at] /\ r = admitted[at] /\ r \in Range(admitted)
                              /\ r \notin Range(running)
                              /\ \A i \in 1 .. Len(admitted) : i # at => admitted[i] # r
    BY <1>1, <1>2, AtHand DEF Admitting
  <1>4. states = admitted /\ at \in 1 .. Len(admitted) /\ at + 1 \in 1 .. Len(admitted) + 1
    BY <1>1, <1>2, AtHand DEF Admitting
  <1>5. Available(Lacking(r)) /\ Lacking(r) \in Nat /\ stored[r] = 0 BY <1>1, <1>3, Promised
  <1>6. FillRest(r) BY <1>3, <1>5 DEF Fill
  <1>7. MemInv BY DEF PInv
  <1>8. MemInv' /\ Keys \subseteq Keys' BY <1>1, <1>5, <1>6, <1>7, FillMemory
  <1>9. PICK taken \in Takings(Lacking(r)) :
            /\ block_table' = [block_table EXCEPT ![r] = block_table[r] \o taken]
            /\ stored' = [stored EXCEPT ![r] = TotalLen(r)]
            /\ free' = free \ Range(taken) /\ pc' = "emit_prefill"
            /\ UNCHANGED <<waiting, running, states, outlived>>
    BY <1>6 DEF FillRest
  <1>10. block_table \in [Requests -> Seq(Blocks)] /\ stored \in [Requests -> Nat]
    BY <1>7 DEF MemInv, MemoryTypes
  <1>11. stored'[r] = TotalLen(r) /\ TotalLen(r)' = TotalLen(r) BY <1>1, <1>9, <1>10 DEF TotalLen
  <1>12. ASSUME NEW s \in Requests, s # r
         PROVE  /\ Cold(s)' <=> Cold(s)
                /\ Served(s)' <=> Served(s)
    <2>1. Same(s) BY <1>1, <1>9, <1>10, <1>12 DEF Same
    <2> QED BY <2>1, Frame
  <1>13. TypeOK'
    <2>1. /\ refcount' \in [Blocks -> Nat] /\ block_table' \in [Requests -> Seq(Blocks)]
          /\ free' \subseteq Blocks /\ stored' \in [Requests -> Nat]
      BY <1>8 DEF MemInv, MemoryTypes
    <2> QED BY <1>1, <1>9, <2>1 DEF PInv, TypeOK
  <1>14. Roles' BY <1>1, <1>9 DEF PInv, Roles, Once
  <1>15. InStep' BY <1>1, <1>2, <1>4, <1>9 DEF PInv, InStep, Admitting
  <1>16. InBatch'
    <2>1. ASSUME NEW s \in Outsiders' PROVE Cold(s)'
      <3>1. s \in Outsiders /\ s # r /\ s \in Requests BY <1>1, <1>3, <1>9 DEF Outsiders
      <3> QED BY <1>12, <3>1 DEF PInv, InBatch
    <2>2. ASSUME NEW s \in Range(running') PROVE Served(s)'
      <3>1. s \in Range(running) /\ s # r /\ s \in Requests BY <1>3, <1>9, Lists
      <3>2. Served(s) BY <1>1, <3>1 DEF PInv, InBatch, Pending
      <3> QED BY <1>12, <3>1, <3>2
    <2> QED BY <1>9, <2>1, <2>2 DEF InBatch, Pending
  <1>17. Slotted' BY <1>9 DEF Slotted
  <1>18. BeingAdmitted'
    <2>1. ASSUME NEW i \in 1 .. Len(admitted), i < at PROVE Served(admitted[i])'
      <3>1. admitted[i] \in Requests /\ admitted[i] # r BY <1>3, <1>4, <2>1, Lists
      <3>2. Served(admitted[i]) BY <1>1, <2>1 DEF PInv, BeingAdmitted, Admitting
      <3> QED BY <1>1, <1>12, <3>1, <3>2
    <2>2. ASSUME NEW i \in 1 .. Len(admitted), i > at PROVE Cold(admitted[i])'
      <3>1. admitted[i] \in Requests /\ admitted[i] # r BY <1>3, <1>4, <2>2, Lists
      <3>2. Cold(admitted[i]) BY <1>1, <2>2 DEF PInv, BeingAdmitted, Admitting
      <3> QED BY <1>1, <1>12, <3>1, <3>2
    <2>3. stored'[admitted[at]] = TotalLen(admitted[at])' BY <1>1, <1>3, <1>11
    <2> QED BY <1>1, <1>4, <1>9, <2>1, <2>2, <2>3 DEF BeingAdmitted
  <1>19. Promise'
    <2>1. PICK due : Covered(due, at + 1) /\ Lacking(r) + due[at + 1] <= NFree
      BY <1>1, <1>3 DEF PInv, Promise
    <2>2. due[at + 1] \in Nat BY <1>4, <2>1 DEF Covered
    <2>3. Covered(due, at + 1)'
      <3>1. ASSUME NEW i \in 1 .. Len(admitted), i >= at + 1 PROVE StillNeeds(admitted[i])
        <4>1. TotalLen(admitted[i])' = TotalLen(admitted[i]) /\ AllTokens(admitted[i])' = AllTokens(admitted[i])
          BY <1>1 DEF TotalLen, AllTokens
        <4> QED BY <4>1 DEF StillNeeds, Need, BlocksNeeded
      <3>2. at + 1 \in Nat BY <1>4, Lists
      <3> QED BY <1>1, <1>8, <2>1, <3>1, <3>2, CoveredKept
    <2>4. NFree' = NFree - Lacking(r)
      <3>1. Lacking(r) <= NFree BY <1>5 DEF Available
      <3> QED BY <1>5, <1>7, <1>9, <3>1, TakingsCount
    <2>5. NFree \in Nat BY <1>7, FreeType
    <2>6. due[at + 1] <= NFree' BY <1>5, <2>1, <2>2, <2>4, <2>5
    <2>7. \E owing : Covered(owing, at + 1)' /\ owing[at' + 1] <= NFree' BY <1>1, <2>3, <2>6
    <2> QED BY <1>9, <2>7 DEF Promise
  <1> QED BY <1>8, <1>13, <1>14, <1>15, <1>16, <1>17, <1>18, <1>19 DEF PInv

--------------------------------------------------------------------------------
(* Tokens. *)

\* A request whose tokens all have their KV is handed the next token: it keeps
\* its memory, all its tokens but the last having their KV, or has finished and
\* gives it back.
LEMMA Handed ==
  ASSUME PInv, PrefixEmit, NEW r \in Requests, r = states[at], stored[r] = TotalLen(r)
  PROVE  /\ MemInv' /\ NFree' \in Nat /\ NFree <= NFree' /\ Keys \subseteq Keys'
         /\ Served(r)'
         /\ \A s \in Requests : s # r => Same(s)
         /\ finished' \in [Requests -> BOOLEAN]
  <1>0. MemInv BY DEF PInv
  <1>1. PICK token \in Vocab : Deliver(r, token) BY DEF PrefixEmit
  <1>2. /\ output_token_ids \in [Requests -> Seq(Vocab)] /\ finished \in [Requests -> BOOLEAN]
        /\ block_table \in [Requests -> Seq(Blocks)] /\ stored \in [Requests -> Nat]
    BY DEF PInv, TypeOK
  <1>3. output_token_ids' = [output_token_ids EXCEPT ![r] = Append(@, token)] BY <1>1 DEF Deliver
  <1>4. Append(output_token_ids[r], token) \in Seq(Vocab)
        /\ Len(Append(output_token_ids[r], token)) = Len(output_token_ids[r]) + 1
    BY <1>2, AppendProperties
  <1>5. /\ output_token_ids' \in [Requests -> Seq(Vocab)]
        /\ \A s \in Requests : s # r => output_token_ids'[s] = output_token_ids[s]
        /\ output_token_ids'[r] = Append(output_token_ids[r], token)
    BY <1>2, <1>3, <1>4
  <1>6. /\ finished' \in [Requests -> BOOLEAN]
        /\ \A s \in Requests : s # r => finished'[s] = finished[s]
    <2>1. EndsWith(r, token) \in BOOLEAN BY DEF EndsWith
    <2>2. finished' = [finished EXCEPT ![r] = @ \/ EndsWith(r, token)] BY <1>1 DEF Deliver
    <2> QED BY <1>2, <2>1, <2>2
  <1>7. CASE finished'[r]
    <2>1. PrefixRelease(r) BY <1>7 DEF PrefixEmit
    <2>2. MemInv' /\ free \subseteq free' /\ Keys \subseteq Keys' BY <1>0, <1>5, <2>1, ReleaseMemory
    <2>3. NFree' \in Nat /\ NFree <= NFree' BY <1>0, <2>2, FreeGrows
    <2>4. /\ block_table' = [block_table EXCEPT ![r] = <<>>]
          /\ stored' = [stored EXCEPT ![r] = 0]
      BY <2>1 DEF PrefixRelease
    <2>5. Cold(r)' BY <1>2, <2>4 DEF Cold
    <2>6. \A s \in Requests : s # r => Same(s) BY <1>2, <1>5, <1>6, <2>4 DEF Same
    <2> QED BY <1>6, <1>7, <2>2, <2>3, <2>5, <2>6 DEF Served
  <1>8. CASE ~finished'[r]
    <2>1. UNCHANGED <<poolVars, cacheVars, block_table, stored>> BY <1>8 DEF PrefixEmit
    <2>2. UNCHANGED <<free, refcount, block_table, stored, entries, kv>>
      BY <2>1 DEF poolVars, cacheVars
    <2>3. MemInv' BY <1>0, <1>3, <2>2, DeliverMemory
    <2>4. NFree' = NFree /\ NFree \in Nat /\ Keys' = Keys BY <1>0, <2>2, FreeType DEF NFree, Keys
    <2>5. Settled(r)'
      <3>1. TotalLen(r) \in Nat /\ TotalLen(r) > 0 BY <1>0, TableType
      <3>2. PICK n \in Nat : n = Len(output_token_ids[r]) BY <1>2, LenProperties
      <3>3. PICK p \in Nat : p = Len(Prompt[r]) BY EngineAssumption, LenProperties
      <3>4. TotalLen(r) = p + n /\ TotalLen(r)' = p + (n + 1)
        BY <1>4, <1>5, <3>2, <3>3 DEF TotalLen
      <3>5. stored'[r] = TotalLen(r) BY <2>2
      <3> QED BY <3>1, <3>4, <3>5 DEF Settled
    <2>6. \A s \in Requests : s # r => Same(s) BY <1>5, <1>6, <2>2 DEF Same
    <2> QED BY <1>6, <1>8, <2>3, <2>4, <2>5, <2>6 DEF Served
  <1> QED BY <1>7, <1>8

\* The first token of a request that has been prefilled.
LEMMA EmitPrefillStep ==
  ASSUME PInv, PrefixEmit, pc = "emit_prefill"
  PROVE  PInv'
  <1>1. /\ at <= Len(states) /\ at' = at + 1 /\ pc' = "prefill"
        /\ UNCHANGED <<waiting, running, admitted, reserved, states, arrival, outlived>>
    BY DEF PrefixEmit, history
  <1>2. PICK r \in Requests : /\ r = states[at] /\ r = admitted[at] /\ r \in Range(admitted)
                              /\ r \notin Range(running)
                              /\ \A i \in 1 .. Len(admitted) : i # at => admitted[i] # r
    BY <1>1, AtHand DEF Admitting
  <1>3. states = admitted /\ at \in 1 .. Len(admitted) /\ at + 1 \in 1 .. Len(admitted) + 1
    BY <1>1, AtHand DEF Admitting
  <1>4. stored[r] = TotalLen(r) BY <1>2, <1>3 DEF PInv, BeingAdmitted, Admitting
  <1>5. /\ MemInv' /\ NFree' \in Nat /\ NFree <= NFree' /\ Served(r)' /\ Keys \subseteq Keys'
        /\ finished' \in [Requests -> BOOLEAN]
    BY <1>2, <1>4, Handed
  <1>6. ASSUME NEW s \in Requests, s # r
        PROVE  /\ Cold(s)' <=> Cold(s)
               /\ Served(s)' <=> Served(s)
               /\ StillNeeds(s) /\ finished'[s] = finished[s]
    <2>1. Same(s) BY <1>2, <1>4, <1>6, Handed
    <2> QED BY <2>1, Frame DEF Same, StillNeeds, AllTokens
  <1>7. TypeOK'
    <2>1. /\ refcount' \in [Blocks -> Nat] /\ block_table' \in [Requests -> Seq(Blocks)]
          /\ free' \subseteq Blocks /\ stored' \in [Requests -> Nat]
          /\ output_token_ids' \in [Requests -> Seq(Vocab)]
      BY <1>5 DEF MemInv, MemoryTypes
    <2>2. at' \in Nat \ {0} BY <1>1, Lists
    <2> QED BY <1>1, <1>5, <2>1, <2>2 DEF PInv, TypeOK
  <1>8. Roles' BY <1>1 DEF PInv, Roles, Once
  <1>9. InStep'
    <2>1. \A s \in Range(running') : ~finished'[s]
      BY <1>1, <1>2, <1>6, Lists DEF PInv, InStep, Admitting
    <2>2. at' <= Len(states') + 1 BY <1>1, <1>3, Lists
    <2> QED BY <1>1, <1>3, <2>1, <2>2 DEF PInv, InStep, Admitting
  <1>10. InBatch'
    <2>1. ASSUME NEW s \in Outsiders' PROVE Cold(s)'
      <3>1. s \in Outsiders /\ s # r /\ s \in Requests BY <1>1, <1>2 DEF Outsiders
      <3> QED BY <1>6, <3>1 DEF PInv, InBatch
    <2>2. ASSUME NEW s \in Range(running') PROVE Served(s)'
      <3>1. s \in Range(running) /\ s # r /\ s \in Requests BY <1>1, <1>2, Lists
      <3>2. Served(s) BY <3>1 DEF PInv, InBatch, Pending
      <3> QED BY <1>6, <3>1, <3>2
    <2> QED BY <1>1, <2>1, <2>2 DEF InBatch, Pending
  <1>11. Slotted' BY <1>1 DEF Slotted
  <1>12. BeingAdmitted'
    <2>1. ASSUME NEW i \in 1 .. Len(admitted), i < at + 1 PROVE Served(admitted[i])'
      <3>1. CASE i = at BY <1>1, <1>2, <1>5, <3>1
      <3>2. CASE i < at
        <4>1. admitted[i] \in Requests /\ admitted[i] # r BY <1>2, <1>3, <3>2, Lists
        <4>2. Served(admitted[i]) BY <3>2 DEF PInv, BeingAdmitted, Admitting
        <4> QED BY <1>1, <1>6, <4>1, <4>2
      <3> QED BY <1>3, <2>1, <3>1, <3>2
    <2>2. ASSUME NEW i \in 1 .. Len(admitted), i > at PROVE Cold(admitted[i])'
      <3>1. admitted[i] \in Requests /\ admitted[i] # r BY <1>2, <1>3, <2>2, Lists
      <3>2. Cold(admitted[i]) BY <2>2 DEF PInv, BeingAdmitted, Admitting
      <3> QED BY <1>1, <1>6, <3>1, <3>2
    <2>3. \A i \in 1 .. Len(admitted) : /\ i < at + 1 => Served(admitted[i])'
                                        /\ i > at + 1 => Cold(admitted[i])'
                                        /\ i = at + 1 => Cold(admitted[i])'
      BY <1>3, <2>1, <2>2
    <2>4. pc' = "prefill" /\ at' = at + 1 /\ admitted' = admitted BY <1>1
    <2> QED BY <2>3, <2>4 DEF BeingAdmitted
  <1>13. Promise'
    <2>1. PICK due : Covered(due, at + 1) /\ due[at + 1] <= NFree BY DEF PInv, Promise
    <2>2. due[at + 1] \in Nat BY <1>3, <2>1 DEF Covered
    <2>n. PICK k \in Nat : k = at + 1 BY Lists
    <2>3. Covered(due, k)'
      <3>1. ASSUME NEW i \in 1 .. Len(admitted), i >= k PROVE StillNeeds(admitted[i])
        <4>1. admitted[i] \in Requests /\ admitted[i] # r BY <1>2, <1>3, <2>n, <3>1, Lists
        <4> QED BY <1>6, <4>1
      <3>2. Covered(due, k) /\ k <= k BY <2>1, <2>n
      <3> QED BY <1>1, <1>5, <3>1, <3>2, CoveredKept
    <2>4. NFree \in Nat BY FreeType DEF PInv
    <2>5. due[at + 1] <= NFree' BY <1>5, <2>1, <2>2, <2>4
    <2>6. Covered(due, at)' /\ due[at'] <= NFree' BY <1>1, <2>n, <2>3, <2>5 DEF Covered
    <2> QED BY <1>1, <2>6 DEF Promise
  <1> QED BY <1>5, <1>7, <1>8, <1>9, <1>10, <1>11, <1>12, <1>13 DEF PInv

\* A token for a request of the batch.
LEMMA EmitDecodeStep ==
  ASSUME PInv, PrefixEmit, pc = "emit_decode"
  PROVE  PInv'
  <1>1. /\ at <= Len(states) /\ at' = at + 1 /\ pc' = pc
        /\ UNCHANGED <<waiting, running, admitted, reserved, states, arrival, outlived>>
    BY DEF PrefixEmit, history
  <1>2. /\ Once(states) /\ Range(states) \subseteq Range(running) /\ admitted = <<>>
        /\ reserved = 0
    BY DEF PInv, InStep, Admitting
  <1>3. at \in 1 .. Len(states) BY <1>1, Lists
  <1>4. PICK r \in Requests : r = states[at] /\ r \in Range(running) BY <1>2, <1>3, Lists
  <1>5. r \in Pending BY <1>3, <1>4, Lists DEF Pending
  <1>6. Decoded(r) BY <1>4, <1>5 DEF PInv, InBatch
  <1>7. stored[r] = TotalLen(r) BY <1>6 DEF Decoded
  <1>8. MemInv' /\ Served(r)' /\ finished' \in [Requests -> BOOLEAN]
    BY <1>4, <1>7, Handed
  <1>9. ASSUME NEW s \in Requests, s # r
        PROVE  /\ Cold(s)' <=> Cold(s)
               /\ Served(s)' <=> Served(s)
               /\ Decoded(s)' <=> Decoded(s)
    <2>1. Same(s) BY <1>4, <1>7, <1>9, Handed
    <2> QED BY <2>1, Frame
  <1>10. TypeOK'
    <2>1. /\ refcount' \in [Blocks -> Nat] /\ block_table' \in [Requests -> Seq(Blocks)]
          /\ free' \subseteq Blocks /\ stored' \in [Requests -> Nat]
          /\ output_token_ids' \in [Requests -> Seq(Vocab)]
      BY <1>8 DEF MemInv, MemoryTypes
    <2>2. at' \in Nat \ {0} BY <1>1, Lists
    <2> QED BY <1>1, <1>8, <2>1, <2>2 DEF PInv, TypeOK
  <1>11. Roles' BY <1>1 DEF PInv, Roles, Once
  <1>12. InStep' BY <1>1 DEF PInv, InStep, Admitting, Once
  <1>13. \A s : s \in Pending' <=> s \in Pending /\ s # r
    <2>1. ASSUME NEW s, s \in Pending' PROVE s \in Pending /\ s # r
      <3>1. PICK j \in 1 .. Len(states) : j >= at + 1 /\ s = states[j] BY <1>1, <2>1 DEF Pending
      <3>2. j # at /\ j >= at BY <1>3, <3>1
      <3>3. states[j] # states[at] BY <1>2, <1>3, <3>2 DEF Once
      <3> QED BY <1>4, <3>1, <3>2, <3>3 DEF Pending
    <2>2. ASSUME NEW s, s \in Pending, s # r PROVE s \in Pending'
      <3>1. PICK j \in 1 .. Len(states) : j >= at /\ s = states[j] BY <2>2 DEF Pending
      <3>2. j # at BY <1>4, <2>2, <3>1
      <3>3. j >= at + 1 BY <1>3, <3>1, <3>2
      <3> QED BY <1>1, <3>1, <3>3 DEF Pending
    <2> QED BY <2>1, <2>2
  <1>14. InBatch'
    <2>1. ASSUME NEW s \in Outsiders' PROVE Cold(s)'
      <3>1. s \in Outsiders /\ s # r /\ s \in Requests BY <1>1, <1>4 DEF Outsiders
      <3> QED BY <1>9, <3>1 DEF PInv, InBatch
    <2>2. ASSUME NEW s \in Range(running'), s \in Pending' PROVE Decoded(s)'
      <3>1. s \in Range(running) /\ s # r /\ s \in Pending BY <1>1, <1>13, <2>2
      <3>2. Decoded(s) /\ s \in Requests BY <3>1, Lists DEF PInv, InBatch
      <3> QED BY <1>9, <3>1, <3>2
    <2>3. ASSUME NEW s \in Range(running'), s \notin Pending' PROVE Served(s)'
      <3>1. CASE s = r BY <1>8, <3>1
      <3>2. CASE s # r
        <4>1. s \in Range(running) /\ s \notin Pending /\ s \in Requests
          BY <1>1, <1>13, <2>3, <3>2, Lists
        <4>2. Served(s) BY <4>1 DEF PInv, InBatch
        <4> QED BY <1>9, <3>2, <4>1, <4>2
      <3> QED BY <3>1, <3>2
    <2> QED BY <2>1, <2>2, <2>3 DEF InBatch
  <1>15. Slotted' /\ BeingAdmitted' /\ Promise'
    BY <1>1 DEF Slotted, BeingAdmitted, Promise, Admitting
  <1> QED BY <1>8, <1>10, <1>11, <1>12, <1>14, <1>15 DEF PInv

\* Those let in join the batch, and those who were in it decode.
LEMMA JoinStep ==
  ASSUME PInv, PrefixJoin
  PROVE  PInv'
  <1>1. /\ pc = "prefill" /\ at > Len(states)
        /\ running' = running \o admitted /\ admitted' = <<>> /\ states' = running /\ at' = 1
        /\ pc' = IF running # <<>> THEN "grow" ELSE "idle"
        /\ UNCHANGED <<poolVars, requestVars, cacheVars>>
        /\ UNCHANGED <<waiting, reserved, arrival, outlived>>
    BY DEF PrefixJoin, JoinRunning, history
  <1>2. MemInv BY DEF PInv
  <1>3. /\ MemInv' /\ finished' = finished
        /\ \A s : (Cold(s)' <=> Cold(s)) /\ (Served(s)' <=> Served(s)) /\ (Decoded(s)' <=> Decoded(s))
    BY <1>1, <1>2, Quiet
  <1>4. /\ Once(running) /\ Once(admitted) /\ Range(running) \cap Range(admitted) = {}
        /\ running \in Seq(Requests) /\ admitted \in Seq(Requests)
    BY Lists DEF PInv, Roles
  <1>5. /\ running' \in Seq(Requests) /\ Len(running') = Len(running) + Len(admitted)
        /\ Once(running') /\ Range(running') = Range(running) \cup Range(admitted)
    BY <1>1, <1>4, OnceJoin
  <1>6. /\ admitted' \in Seq(Requests) /\ Len(admitted') = 0 /\ Range(admitted') = {}
        /\ Once(admitted')
    BY <1>1, NobodyListed DEF Once
  <1>7. /\ states = admitted /\ reserved = 0 /\ at > Len(admitted)
        /\ \A r \in Range(running) : ~finished[r]
    BY <1>1 DEF PInv, InStep, Admitting
  <1>8. TypeOK'
    <2>1. Len(running') + Len(admitted') <= MaxBatchSize
      BY <1>5, <1>6, Lists, EngineAssumption DEF PInv, TypeOK
    <2> QED BY <1>1, <1>4, <1>5, <1>6, <2>1 DEF PInv, TypeOK, poolVars, requestVars
  <1>9. Roles'
    <2>1. /\ Once(waiting') /\ Range(waiting') = Range(waiting) /\ Range(arrival') = Range(arrival)
      BY <1>1 DEF PInv, Roles, Once
    <2> QED BY <1>5, <1>6, <2>1 DEF PInv, Roles
  <1>10. InStep'
    <2>1. Once(states') BY <1>1, <1>4 DEF Once
    <2>2. Range(states') = Range(running) /\ Range(states') \subseteq Range(running') BY <1>1, <1>5
    <2> QED BY <1>1, <1>3, <1>7, <2>1, <2>2 DEF InStep, Admitting, Once
  <1>11. InBatch'
    <2>1. ASSUME NEW s \in Outsiders' PROVE Cold(s)'
      <3>1. s \in Outsiders BY <1>5, <1>6 DEF Outsiders
      <3> QED BY <1>3, <3>1 DEF PInv, InBatch
    <2>2. ASSUME NEW s \in Range(running') PROVE Served(s)'
      <3>1. CASE s \in Range(running)
        <4>1. Served(s) BY <1>1, <3>1 DEF PInv, InBatch, Pending
        <4> QED BY <1>3, <4>1
      <3>2. CASE s \in Range(admitted)
        <4>1. PICK i \in 1 .. Len(admitted) : admitted[i] = s BY <3>2, Lists
        <4>2. i < at BY <1>7, Lists
        <4>3. Served(s) BY <1>1, <4>1, <4>2 DEF PInv, BeingAdmitted, Admitting
        <4> QED BY <1>3, <4>3
      <3> QED BY <1>5, <2>2, <3>1, <3>2
    <2> QED BY <1>1, <2>1, <2>2 DEF InBatch, Pending
  <1>12. Slotted'
    <2>1. \A i \in 1 .. Len(states') : ~(i < at')
      <3>1. Len(states') \in Nat BY <1>1, Lists
      <3> QED BY <1>1, <3>1
    <2> QED BY <2>1 DEF Slotted
  <1>13. BeingAdmitted' /\ Promise'
    BY <1>1 DEF BeingAdmitted, Promise, Admitting
  <1> QED BY <1>3, <1>8, <1>9, <1>10, <1>11, <1>12, <1>13 DEF PInv

--------------------------------------------------------------------------------
(* Decoding. *)

\* Whoever is to decode is in the batch, and all its tokens but the last have
\* their KV.
LEMMA ToDecode ==
  ASSUME PInv, pc = "grow", NEW r \in Range(states)
  PROVE  /\ r \in Requests /\ r \in Range(running) /\ ~finished[r] /\ Settled(r)
         /\ stored[r] \in Nat /\ stored[r] > 0
  <1>1. r \in Range(running) /\ ~finished[r] BY DEF PInv, InStep
  <1>2. r \in Requests BY <1>1, Lists
  <1>3. Served(r) BY <1>1 DEF PInv, InBatch, Pending
  <1>4. Settled(r) BY <1>1, <1>3 DEF Served
  <1>5. stored[r] \in Nat BY <1>2 DEF PInv, TypeOK
  <1> QED BY <1>1, <1>2, <1>4, <1>5 DEF Settled

\* A slot for the next token of one request.
LEMMA GrowStep ==
  ASSUME PInv, GrowOne, UNCHANGED cacheVars
  PROVE  PInv'
  <1>1. /\ pc = "grow" /\ at <= Len(states) /\ at' = at + 1 /\ pc' = pc
        /\ UNCHANGED <<waiting, running, stored, output_token_ids, finished, admitted, reserved,
                       states, arrival, outlived, entries, kv>>
    BY DEF GrowOne, history, cacheVars
  <1>2. at \in 1 .. Len(states) BY <1>1, Lists
  <1>3. PICK r \in Requests : r = states[at] /\ r \in Range(states) BY <1>2, Lists
  <1>4. r \in Range(running) /\ stored[r] \in Nat /\ stored[r] > 0 BY <1>1, <1>3, ToDecode
  <1>5. TypeOK /\ MemInv BY DEF PInv
  <1>6. PICK n \in Nat : n = Missing(r, 1) BY <1>5, MissingType
  <1>7. PICK taken \in Takings(n) : Extend(r, taken) BY <1>3, <1>6 DEF GrowOne
  <1>8. /\ MemInv' /\ block_table' = [block_table EXCEPT ![r] = @ \o taken]
        /\ Len(block_table'[r]) = Len(block_table[r]) + n
    BY <1>1, <1>4, <1>5, <1>7, GrowMemory
  <1>9. block_table \in [Requests -> Seq(Blocks)] BY <1>5 DEF TypeOK
  <1>10. ASSUME NEW s \in Requests
         PROVE  /\ s # r => (Cold(s)' <=> Cold(s))
                /\ Served(s) /\ ~finished[s] => Served(s)'
                /\ s # r => (Served(s)' <=> Served(s))
                /\ s # r => block_table'[s] = block_table[s]
    <2>1. s # r => Same(s) BY <1>1, <1>8, <1>9 DEF Same
    <2>2. TotalLen(s)' = TotalLen(s) BY <1>1 DEF TotalLen
    <2>3. Settled(s)' <=> Settled(s) BY <1>1, <2>2 DEF Settled
    <2>4. s # r => (Cold(s)' <=> Cold(s)) /\ (Served(s)' <=> Served(s)) BY <2>1, Frame
    <2>5. Served(s) /\ ~finished[s] => Served(s)' BY <1>1, <2>3 DEF Served
    <2> QED BY <2>1, <2>4, <2>5 DEF Same
  <1>11. TypeOK'
    <2>1. /\ refcount' \in [Blocks -> Nat] /\ block_table' \in [Requests -> Seq(Blocks)]
          /\ free' \subseteq Blocks
      BY <1>8 DEF MemInv, MemoryTypes
    <2>2. at' \in Nat \ {0} BY <1>1, Lists
    <2> QED BY <1>1, <2>1, <2>2 DEF PInv, TypeOK
  <1>12. Roles' BY <1>1 DEF PInv, Roles, Once
  <1>13. InStep' BY <1>1 DEF PInv, InStep, Admitting, Once
  <1>14. InBatch'
    <2>1. ASSUME NEW s \in Outsiders' PROVE Cold(s)'
      <3>1. s \in Outsiders /\ s # r /\ s \in Requests BY <1>1, <1>4 DEF Outsiders
      <3> QED BY <1>10, <3>1 DEF PInv, InBatch
    <2>2. ASSUME NEW s \in Range(running') PROVE Served(s)'
      <3>1. s \in Range(running) /\ s \in Requests BY <1>1, Lists
      <3>2. Served(s) BY <1>1, <3>1 DEF PInv, InBatch, Pending
      <3>3. CASE s = r
        <4>1. ~finished[r] BY <1>1, <1>3, ToDecode
        <4> QED BY <1>10, <3>1, <3>2, <3>3, <4>1
      <3>4. CASE s # r BY <1>10, <3>1, <3>2, <3>4
      <3> QED BY <3>3, <3>4
    <2> QED BY <1>1, <2>1, <2>2 DEF InBatch, Pending
  <1>15. Slotted'
    <2>1. ASSUME NEW i \in 1 .. Len(states), i < at + 1
          PROVE  BlocksNeeded(stored[states[i]] + 1) <= Len(block_table'[states[i]])
      <3>1. CASE i = at
        <4>0. PICK m \in Nat : m = stored[r] + 1 BY <1>4
        <4>1. PICK k \in Nat : k = BlocksNeeded(stored[r] + 1)
          <5>1. BlocksNeeded(m) \in Nat BY Rounding
          <5> QED BY <4>0, <5>1
        <4>2. PICK l \in Nat : l = Len(block_table[r]) BY <1>9, LenProperties
        <4>3. n >= k - l BY <1>6, <4>1, <4>2 DEF Missing
        <4> QED BY <1>3, <1>8, <3>1, <4>1, <4>2, <4>3
      <3>2. CASE i < at
        <4>1. states[i] # r
          BY <1>1, <1>2, <1>3, <3>2 DEF PInv, InStep, Once
        <4>2. BlocksNeeded(stored[states[i]] + 1) <= Len(block_table[states[i]])
          BY <1>1, <3>2 DEF PInv, Slotted
        <4>3. states[i] \in Requests BY Lists
        <4> QED BY <1>10, <4>1, <4>2, <4>3
      <3> QED BY <1>2, <2>1, <3>1, <3>2
    <2>2. ASSUME NEW i \in 1 .. Len(states)', i < at'
          PROVE  BlocksNeeded(stored'[states'[i]] + 1) <= Len(block_table'[states'[i]])
      BY <1>1, <2>1, <2>2
    <2> QED BY <2>2 DEF Slotted, BlocksNeeded
  <1>16. BeingAdmitted' /\ Promise'
    BY <1>1 DEF BeingAdmitted, Promise, Admitting
  <1> QED BY <1>8, <1>11, <1>12, <1>13, <1>14, <1>15, <1>16 DEF PInv

\* No block is left for the next token: the newest of the batch gives its back.
LEMMA ShortStep ==
  ASSUME PInv, PrefixShort("idle")
  PROVE  PInv'
  <1> DEFINE victim == Last(running)
  <1>1. /\ pc = "grow" /\ at <= Len(states) /\ at' = 1 /\ pc' \in {"grow", "idle"}
        /\ PrefixRelease(victim)
        /\ running' = Front(running) /\ waiting' = <<victim>> \o waiting
        /\ outlived' = (IF finished[victim] THEN outlived \cup {victim} ELSE outlived)
        /\ states' = Without(states, victim)
        /\ UNCHANGED <<output_token_ids, finished, admitted, reserved, arrival>>
    BY DEF PrefixShort, Requeue
  <1>2. running # <<>>
    <2>1. states[at] \in Range(running)
      <3>1. states[at] \in Range(states) BY <1>1, Lists
      <3> QED BY <1>1, <3>1, ToDecode
    <2>2. PICK i \in 1 .. Len(running) : running[i] = states[at] BY <2>1, Lists
    <2> QED BY <2>2, EmptySeq
  <1>3. Once(running) /\ running \in Seq(Requests) /\ waiting \in Seq(Requests) /\ Once(waiting)
        /\ Range(running) \cap Range(waiting) = {}
    BY Lists DEF PInv, Roles
  <1>4. PICK r \in Requests : r = victim /\ r \in Range(running) BY <1>2, <1>3, OnceLast
  <1>5. /\ running' \in Seq(Requests) /\ Len(running') = Len(running) - 1 /\ Once(running')
        /\ Range(running') = Range(running) \ {r}
    BY <1>1, <1>2, <1>3, <1>4, OnceLast
  <1>6. /\ waiting' \in Seq(Requests) /\ Once(waiting') /\ Range(waiting') = Range(waiting) \cup {r}
    <2>1. r \notin Range(waiting) BY <1>3, <1>4
    <2>2. waiting' = <<r>> \o waiting BY <1>1, <1>4
    <2> QED BY <1>3, <2>1, <2>2, OnceInFront
  <1>7. /\ Once(states) /\ states \in Seq(Requests) /\ Range(states) \subseteq Range(running)
        /\ admitted = <<>> /\ reserved = 0 /\ \A s \in Range(states) : ~finished[s]
    BY <1>1, Lists DEF PInv, InStep, Admitting
  <1>8. /\ states' \in Seq(Requests) /\ Once(states') /\ Range(states') = Range(states) \ {r}
    BY <1>1, <1>4, <1>7, OnceWithout
  <1>9. MemInv BY DEF PInv
  <1>10. PrefixRelease(r) BY <1>1, <1>4
  <1> HIDE DEF victim
  <1>11. output_token_ids' \in [Requests -> Seq(Vocab)] /\ output_token_ids' = output_token_ids
    BY <1>1 DEF PInv, TypeOK
  <1>12. MemInv' BY <1>9, <1>10, <1>11, ReleaseMemory
  <1>13. /\ block_table' = [block_table EXCEPT ![r] = <<>>]
         /\ stored' = [stored EXCEPT ![r] = 0]
         /\ block_table \in [Requests -> Seq(Blocks)] /\ stored \in [Requests -> Nat]
    BY <1>10 DEF PrefixRelease, PInv, TypeOK
  <1>14. Cold(r)' BY <1>13 DEF Cold
  <1>15. ASSUME NEW s \in Requests, s # r
         PROVE  (Cold(s)' <=> Cold(s)) /\ (Served(s)' <=> Served(s))
    <2>1. Same(s) BY <1>1, <1>13, <1>15 DEF Same
    <2> QED BY <2>1, Frame
  <1>16. TypeOK'
    <2>1. /\ refcount' \in [Blocks -> Nat] /\ block_table' \in [Requests -> Seq(Blocks)]
          /\ free' \subseteq Blocks /\ stored' \in [Requests -> Nat]
      BY <1>12 DEF MemInv, MemoryTypes
    <2>2. Len(running') + Len(admitted') <= MaxBatchSize
      BY <1>1, <1>5, Lists, EngineAssumption DEF PInv, TypeOK
    <2>3. outlived' \in SUBSET Requests BY <1>1, <1>4 DEF PInv, TypeOK
    <2>a. /\ finished' = finished /\ output_token_ids' = output_token_ids /\ admitted' = admitted
          /\ reserved' = reserved /\ arrival' = arrival /\ at' = 1 /\ pc' \in {"grow", "idle"}
      BY <1>1
    <2>4. /\ finished' \in [Requests -> BOOLEAN] /\ output_token_ids' \in [Requests -> Seq(Vocab)]
          /\ admitted' \in Seq(Requests) /\ arrival' \in Seq(Requests) /\ reserved' \in Nat
          /\ at' \in Nat \ {0}
          /\ pc' \in {"idle", "retire", "admit", "prefill", "emit_prefill", "grow", "emit_decode",
                     "raised", "fill", "settle"}
      BY <2>a DEF PInv, TypeOK
    <2> QED BY <1>5, <1>6, <1>8, <2>1, <2>2, <2>3, <2>4 DEF TypeOK
  <1>17. Roles'
    <2>1. /\ Once(admitted') /\ Range(admitted') = Range(admitted) /\ Range(arrival') = Range(arrival)
      BY <1>1 DEF PInv, Roles, Once
    <2>2. r \in Range(arrival) /\ r \notin Range(admitted) BY <1>4 DEF PInv, Roles
    <2> QED BY <1>5, <1>6, <2>1, <2>2 DEF PInv, Roles
  <1>18. InStep'
    <2>1. Range(states') \subseteq Range(running') BY <1>5, <1>7, <1>8
    <2>2. \A s \in Range(states') : ~finished'[s] BY <1>1, <1>7, <1>8
    <2> QED BY <1>1, <1>7, <1>8, <2>1, <2>2 DEF InStep, Admitting
  <1>19. InBatch'
    <2>1. ASSUME NEW s \in Outsiders' PROVE Cold(s)'
      <3>1. s \in Requests /\ (s = r \/ s \in Outsiders) BY <1>1, <1>5 DEF Outsiders
      <3>2. CASE s = r BY <1>14, <3>2
      <3>3. CASE s # r
        <4>1. Cold(s) BY <3>1, <3>3 DEF PInv, InBatch
        <4> QED BY <1>15, <3>1, <3>3, <4>1
      <3> QED BY <3>2, <3>3
    <2>2. ASSUME NEW s \in Range(running') PROVE Served(s)'
      <3>1. s \in Range(running) /\ s # r /\ s \in Requests BY <1>5, Lists
      <3>2. Served(s) BY <1>1, <3>1 DEF PInv, InBatch, Pending
      <3> QED BY <1>15, <3>1, <3>2
    <2> QED BY <1>1, <2>1, <2>2 DEF InBatch, Pending
  <1>20. Slotted'
    <2>1. \A i \in 1 .. Len(states') : ~(i < at')
      <3>1. Len(states') \in Nat BY <1>8, LenProperties
      <3> QED BY <1>1, <3>1
    <2> QED BY <2>1 DEF Slotted
  <1>21. BeingAdmitted' /\ Promise'
    BY <1>1 DEF BeingAdmitted, Promise, Admitting
  <1> QED BY <1>12, <1>16, <1>17, <1>18, <1>19, <1>20, <1>21 DEF PInv

\* Everybody's last token gets its KV.
LEMMA DecodeStep ==
  ASSUME PInv, PrefixDecode
  PROVE  PInv'
  <1>1. /\ pc = "grow" /\ at > Len(states) /\ pc' = "emit_decode" /\ at' = 1
        /\ stored' = [r \in Requests |-> IF r \in Range(states) THEN stored[r] + 1 ELSE stored[r]]
        /\ UNCHANGED <<poolVars, waiting, running, block_table, output_token_ids, finished,
                       admitted, reserved, states, arrival, outlived>>
    BY DEF PrefixDecode, Decode, history
  <1>2. /\ Once(states) /\ states \in Seq(Requests) /\ Range(states) \subseteq Range(running)
    BY <1>1, Lists DEF PInv, InStep
  <1>3. ASSUME NEW r \in Range(states) PROVE Ready(r)
    <2>1. Settled(r) /\ stored[r] \in Nat /\ stored[r] > 0 BY <1>1, ToDecode
    <2>2. PICK i \in 1 .. Len(states) : states[i] = r BY Lists
    <2>3. i < at BY <1>1, Lists
    <2>4. BlocksNeeded(stored[r] + 1) <= Len(block_table[r]) BY <1>1, <2>2, <2>3 DEF PInv, Slotted
    <2>5. stored[r] + 1 <= TotalLen(r) BY <2>1 DEF Settled
    <2> QED BY <2>1, <2>4, <2>5 DEF Ready
  <1>4. MemInv BY DEF PInv
  <1>5. MemInv' BY <1>2, <1>3, <1>4, DecodeMemory
  <1>6. TypeOK'
    <2>1. stored' \in [Requests -> Nat] BY <1>5 DEF MemInv, MemoryTypes
    <2> QED BY <1>1, <2>1 DEF PInv, TypeOK, poolVars
  <1>7. Roles' BY <1>1 DEF PInv, Roles, Once
  <1>8. InStep' BY <1>1 DEF PInv, InStep, Admitting, Once
  <1>9. ASSUME NEW s \in Requests, s \notin Range(states)
        PROVE  (Cold(s)' <=> Cold(s)) /\ (Served(s)' <=> Served(s))
    <2>1. Same(s) BY <1>1, <1>9 DEF Same
    <2> QED BY <2>1, Frame
  <1>10. ASSUME NEW s \in Range(states) PROVE Decoded(s)'
    <2>1. s \in Requests /\ ~finished[s] /\ Settled(s) BY <1>1, ToDecode
    <2>2. stored'[s] = TotalLen(s) BY <1>1, <2>1 DEF Settled
    <2>3. TotalLen(s)' = TotalLen(s) BY <1>1 DEF TotalLen
    <2> QED BY <1>1, <2>1, <2>2, <2>3 DEF Decoded
  <1>11. \A s : s \in Pending' <=> s \in Range(states)
    <2>1. ASSUME NEW s, s \in Range(states) PROVE s \in Pending'
      <3>1. PICK i \in 1 .. Len(states) : states[i] = s BY <2>1, Lists
      <3>2. i >= 1 BY <3>1
      <3> QED BY <1>1, <3>1, <3>2 DEF Pending
    <2>2. ASSUME NEW s, s \in Pending' PROVE s \in Range(states)
      <3>1. PICK i \in 1 .. Len(states) : states[i] = s BY <1>1, <2>2 DEF Pending
      <3> QED BY <3>1, Lists
    <2> QED BY <2>1, <2>2
  <1>12. InBatch'
    <2>1. ASSUME NEW s \in Outsiders' PROVE Cold(s)'
      <3>1. s \in Outsiders /\ s \in Requests /\ s \notin Range(states) BY <1>1, <1>2 DEF Outsiders
      <3> QED BY <1>9, <3>1 DEF PInv, InBatch
    <2>2. ASSUME NEW s \in Range(running'), s \notin Pending' PROVE Served(s)'
      <3>1. s \in Range(running) /\ s \in Requests /\ s \notin Range(states)
        BY <1>1, <1>11, <2>2, Lists
      <3>2. Served(s) BY <1>1, <3>1 DEF PInv, InBatch, Pending
      <3> QED BY <1>9, <3>1, <3>2
    <2>3. \A s \in Range(running') : s \in Pending' => Decoded(s)' BY <1>10, <1>11
    <2> QED BY <2>1, <2>2, <2>3 DEF InBatch
  <1>13. Slotted' /\ BeingAdmitted' /\ Promise'
    BY <1>1 DEF Slotted, BeingAdmitted, Promise, Admitting
  <1> QED BY <1>5, <1>6, <1>7, <1>8, <1>12, <1>13 DEF PInv

\* Everybody who decoded has its token.
LEMMA EndOfStep ==
  ASSUME PInv, EndStep, UNCHANGED cacheVars
  PROVE  PInv'
  <1>1. /\ pc = "emit_decode" /\ at > Len(states) /\ pc' = "idle" /\ states' = <<>> /\ at' = 1
        /\ UNCHANGED <<poolVars, requestVars, cacheVars>>
        /\ UNCHANGED <<waiting, running, admitted, reserved, arrival, outlived>>
    BY DEF EndStep, history
  <1>2. MemInv BY DEF PInv
  <1>3. /\ MemInv' /\ finished' = finished
        /\ \A s : (Cold(s)' <=> Cold(s)) /\ (Served(s)' <=> Served(s)) /\ (Decoded(s)' <=> Decoded(s))
    BY <1>1, <1>2, Quiet
  <1>4. TypeOK'
    <2>1. states' \in Seq(Requests) BY <1>1, NobodyListed
    <2> QED BY <1>1, <2>1 DEF PInv, TypeOK, poolVars, requestVars
  <1>5. Roles' BY <1>1 DEF PInv, Roles, Once
  <1>6. InStep' BY <1>1 DEF PInv, InStep, Admitting
  <1>7. Pending = {}
    <2>1. \A j \in 1 .. Len(states) : ~(j >= at) BY <1>1, Lists
    <2> QED BY <2>1 DEF Pending
  <1>8. InBatch' BY <1>1, <1>3, <1>7 DEF PInv, InBatch, Outsiders, Pending
  <1>9. Slotted' /\ BeingAdmitted' /\ Promise'
    BY <1>1 DEF Slotted, BeingAdmitted, Promise, Admitting
  <1> QED BY <1>3, <1>4, <1>5, <1>6, <1>8, <1>9 DEF PInv

--------------------------------------------------------------------------------
(* The invariant holds. *)

\* In a new engine.
LEMMA InitPrefix == PrefixInit => PInv
  <1> SUFFICES ASSUME PrefixInit PROVE PInv
    OBVIOUS
  <1>1. /\ free = Blocks /\ refcount = [b \in Blocks |-> 0]
        /\ waiting = <<>> /\ running = <<>> /\ admitted = <<>> /\ states = <<>> /\ arrival = <<>>
        /\ block_table = [r \in Requests |-> <<>>] /\ stored = [r \in Requests |-> 0]
        /\ output_token_ids = [r \in Requests |-> <<>>]
        /\ finished = [r \in Requests |-> FALSE]
        /\ pc = "idle" /\ reserved = 0 /\ at = 1 /\ outlived = {}
        /\ entries = <<>> /\ kv = [b \in Blocks |-> <<>>]
    BY DEF PrefixInit, Init, PoolInit
  <1>2. /\ <<>> \in Seq(Requests) /\ <<>> \in Seq(Vocab) /\ <<>> \in Seq(Entry)
        /\ <<>> \in Seq(Blocks) /\ Len(<<>>) = 0
    BY NobodyListed
  <1>3. Range(<<>>) = {} BY NobodyListed
  <1>4. TypeOK BY <1>1, <1>2, EngineAssumption DEF TypeOK
  <1>5. MemInv
    <2>1. MemoryTypes BY <1>1, <1>2 DEF MemoryTypes
    <2>2. CountsHold
      <3>1. \A b \in Blocks : Holders(b) = {} BY <1>1, <1>3 DEF Holders
      <3>2. CachedBlocks = {} BY <1>1, <1>3 DEF CachedBlocks
      <3>3. IsFiniteSet({}) /\ Cardinality({}) = 0 BY FS_EmptySet
      <3>4. \A b \in Blocks : refcount[b] = 0 /\ b \in free /\ b \notin CachedBlocks BY <1>1, <3>2
      <3>5. \A b \in Blocks : IsFiniteSet(Holders(b)) /\ Cardinality(Holders(b)) = 0
        BY <3>1, <3>3
      <3> QED BY <3>4, <3>5 DEF CountsHold
    <2>3. TablesOnce BY <1>1, <1>2 DEF TablesOnce
    <2>4. EntriesOnce BY <1>1, <1>2 DEF EntriesOnce
    <2>5. Honest BY <1>1, <1>3 DEF Honest
    <2>6. FreeClear BY <1>1 DEF FreeClear
    <2>7. SharedFull BY <1>1 DEF SharedFull
    <2>8. TablesFiled
      <3> SUFFICES ASSUME NEW r \in Requests PROVE Filed(r)
        BY DEF TablesFiled
      <3>1. block_table[r] = <<>> /\ stored[r] = 0 /\ Len(block_table[r]) = 0 BY <1>1, <1>2
      <3>2. Held(r) = 0
        <4>1. 0 * BlockSize = 0 BY BlockSizes
        <4> QED BY <3>1, <4>1 DEF Held
      <3>3. TotalLen(r) \in Nat BY <2>1, TokensType DEF MemoryTypes
      <3>4. BlocksNeeded(0) = 0 BY Rounding
      <3> QED BY <3>1, <3>2, <3>3, <3>4 DEF Filed
    <2> QED BY <2>1, <2>2, <2>3, <2>4, <2>5, <2>6, <2>7, <2>8 DEF MemInv
  <1>6. Roles BY <1>1, <1>2, <1>3 DEF Roles, Once
  <1>7. InStep BY <1>1 DEF InStep, Admitting
  <1>8. InBatch BY <1>1, <1>3 DEF InBatch, Outsiders, Cold
  <1>9. Slotted /\ BeingAdmitted /\ Promise
    BY <1>1 DEF Slotted, BeingAdmitted, Promise, Admitting
  <1> QED BY <1>4, <1>5, <1>6, <1>7, <1>8, <1>9 DEF PInv

\* A step that changes nothing keeps it.
LEMMA PrefixStutters ==
  ASSUME PInv, UNCHANGED prefixVars
  PROVE  PInv'
  <1>1. /\ UNCHANGED <<poolVars, requestVars, cacheVars>>
        /\ UNCHANGED <<waiting, running, pc, admitted, reserved, states, at, arrival, outlived>>
    BY DEF prefixVars, vars, stepVars, history, poolVars
  <1>2. MemInv BY DEF PInv
  <1>3. /\ MemInv' /\ finished' = finished /\ NFree' = NFree
        /\ block_table' = block_table /\ stored' = stored
        /\ \A s : (Cold(s)' <=> Cold(s)) /\ (Served(s)' <=> Served(s)) /\ (Decoded(s)' <=> Decoded(s))
                  /\ TotalLen(s)' = TotalLen(s) /\ Need(s)' = Need(s) /\ Lacking(s)' = Lacking(s)
    BY <1>1, <1>2, Quiet
  <1>4. TypeOK' BY <1>1 DEF PInv, TypeOK, poolVars, requestVars
  <1>5. Roles' BY <1>1 DEF PInv, Roles, Once
  <1>6. InStep' BY <1>1, <1>3 DEF PInv, InStep, Admitting, Once
  <1>7. InBatch' BY <1>1, <1>3 DEF PInv, InBatch, Outsiders, Pending
  <1>8. Slotted' BY <1>1, <1>3 DEF PInv, Slotted, BlocksNeeded
  <1>9. BeingAdmitted' BY <1>1, <1>3 DEF PInv, BeingAdmitted, Admitting
  <1>10. Promise'
    <2>1. \A due : Owed(due)' <=> Owed(due) BY <1>1, <1>3 DEF Owed
    <2>c. ASSUME NEW due, NEW n \in Nat, Covered(due, n) PROVE Covered(due, n)'
      <3>1. Keys' = Keys /\ \A s : AllTokens(s)' = AllTokens(s)
        BY <1>1 DEF cacheVars, requestVars, Keys, AllTokens
      <3>2. \A i \in 1 .. Len(admitted) : i >= n => StillNeeds(admitted[i])
        BY <1>1, <1>3, <3>1 DEF StillNeeds
      <3>3. admitted' = admitted /\ n <= n BY <1>1
      <3> QED BY <2>c, <3>1, <3>2, <3>3, CoveredKept
    <2>n. at \in Nat /\ at + 1 \in Nat BY Lists
    <2>2. at' = at /\ reserved' = reserved /\ pc' = pc /\ NFree' = NFree
          /\ Lacking(states[at])' = Lacking(states[at])
      BY <1>1, <1>3
    <2>3. CASE pc = "admit"
      <3>1. PICK due : Owed(due) /\ due[1] = reserved /\ reserved <= NFree
        BY <2>3 DEF PInv, Promise
      <3>2. Owed(due)' /\ due[1] = reserved' /\ reserved' <= NFree' BY <2>1, <2>2, <3>1
      <3> QED BY <2>2, <2>3, <3>2 DEF Promise
    <2>4. CASE pc = "prefill"
      <3>1. PICK due : Covered(due, at) /\ due[at] <= NFree BY <2>4 DEF PInv, Promise
      <3>2. PICK n \in Nat : n = at BY <2>n
      <3>3. Covered(due, n)' BY <2>c, <3>1, <3>2
      <3>4. Covered(due, at)' /\ due[at'] <= NFree' BY <2>2, <3>1, <3>2, <3>3
      <3> QED BY <2>2, <2>4, <3>4 DEF Promise
    <2>5. CASE pc = "fill"
      <3>1. PICK due : Covered(due, at + 1) /\ Lacking(states[at]) + due[at + 1] <= NFree
        BY <2>5 DEF PInv, Promise
      <3>4. PICK n \in Nat : n = at + 1 BY <2>n
      <3>5. Covered(due, n)' BY <2>c, <3>1, <3>4
      <3>2. Covered(due, at + 1)' BY <2>2, <3>4, <3>5
      <3>3. Lacking(states[at])' + due[at' + 1] <= NFree' BY <2>2, <3>1
      <3> QED BY <2>2, <2>5, <3>2, <3>3 DEF Promise
    <2>6. CASE pc = "emit_prefill"
      <3>1. PICK due : Covered(due, at + 1) /\ due[at + 1] <= NFree BY <2>6 DEF PInv, Promise
      <3>3. PICK n \in Nat : n = at + 1 BY <2>n
      <3>4. Covered(due, n)' BY <2>c, <3>1, <3>3
      <3>2. Covered(due, at + 1)' /\ due[at' + 1] <= NFree' BY <2>2, <3>1, <3>3, <3>4
      <3> QED BY <2>2, <2>6, <3>2 DEF Promise
    <2>7. CASE pc \notin {"admit", "prefill", "fill", "emit_prefill"} BY <2>2, <2>7 DEF Promise
    <2> QED BY <2>3, <2>4, <2>5, <2>6, <2>7
  <1> QED BY <1>3, <1>4, <1>5, <1>6, <1>7, <1>8, <1>9, <1>10 DEF PInv

\* Whatever a step does besides admission and emission.
LEMMA WorkSteps ==
  ASSUME PInv, PrefixWork
  PROVE  PInv'
  <1>1. CASE RetireOne /\ UNCHANGED cacheVars BY <1>1, RetireStep
  <1>2. CASE Retired /\ UNCHANGED cacheVars BY <1>2, RetiredStep
  <1>3. CASE ShareCached BY <1>3, ShareStep
  <1>4. CASE Fill BY <1>4, FillStep
  <1>5. CASE PrefixJoin BY <1>5, JoinStep
  <1>6. CASE GrowOne /\ UNCHANGED cacheVars BY <1>6, GrowStep
  <1>7. CASE PrefixGrowShort BY <1>7, ShortStep DEF PrefixGrowShort
  <1>8. CASE PrefixDecode BY <1>8, DecodeStep
  <1>9. CASE EndStep /\ UNCHANGED cacheVars BY <1>9, EndOfStep
  <1> QED BY <1>1, <1>2, <1>3, <1>4, <1>5, <1>6, <1>7, <1>8, <1>9 DEF PrefixWork

\* Admission, when it is the request at index that is considered.
LEMMA AdmissionSteps ==
  ASSUME PInv, NEW index, waiting # <<>> => index \in 1 .. Len(waiting),
         (AdmitAt(index) /\ UNCHANGED cacheVars) \/ EvictFor(index) \/ StopAdmitting(index)
  PROVE  PInv'
  <1>1. CASE AdmitAt(index) /\ UNCHANGED cacheVars
    <2>1. waiting # <<>> BY <1>1 DEF AdmitAt, RoomInBatch
    <2> QED BY <1>1, <2>1, AdmitStep
  <1>2. CASE EvictFor(index) BY <1>2, EvictStep
  <1>3. CASE StopAdmitting(index)
    <2>1. pc = "admit" /\ StartWork /\ UNCHANGED cacheVars BY <1>3 DEF StopAdmitting
    <2> QED BY <2>1, StopStep
  <1> QED BY <1>1, <1>2, <1>3

\* A token for one request.
LEMMA EmitSteps ==
  ASSUME PInv, PrefixEmit
  PROVE  PInv'
  <1>1. pc \in {"emit_prefill", "emit_decode"} BY DEF PrefixEmit
  <1> QED BY <1>1, EmitPrefillStep, EmitDecodeStep

\* The step begins, whether or not there is work.
LEMMA BeginSteps ==
  ASSUME PInv, BeginStep, UNCHANGED cacheVars
  PROVE  PInv'
  <1>1. /\ pc = "idle" /\ pc' = "retire"
        /\ UNCHANGED <<poolVars, waiting, running, requestVars, stepVars, history>>
    BY DEF BeginStep
  <1> QED BY <1>1, BeginPrefixStep

\* The head of the queue is in the queue.
LEMMA HeadWaits == PInv /\ waiting # <<>> => NextWaiting \in 1 .. Len(waiting)
  <1> SUFFICES ASSUME PInv, waiting # <<>> PROVE NextWaiting \in 1 .. Len(waiting)
    OBVIOUS
  <1>1. Len(waiting) \in Nat /\ waiting \in Seq(Requests) BY Lists
  <1>2. Len(waiting) # 0 BY <1>1, EmptySeq
  <1> QED BY <1>1, <1>2 DEF NextWaiting

\* No step of the engine breaks the invariant.
LEMMA PrefixSteps == PInv /\ [PrefixNext]_prefixVars => PInv'
  <1> SUFFICES ASSUME PInv, [PrefixNext]_prefixVars PROVE PInv'
    OBVIOUS
  <1>1. CASE BeginStep /\ UNCHANGED cacheVars BY <1>1, BeginSteps
  <1>2. CASE PrefixAdmission
    <2>1. \/ AdmitAt(NextWaiting) /\ UNCHANGED cacheVars
          \/ EvictFor(NextWaiting) \/ StopAdmitting(NextWaiting)
      BY <1>2 DEF PrefixAdmission, Admit, EvictToAdmit, PrefixAdmitDone
    <2> QED BY <2>1, HeadWaits, AdmissionSteps
  <1>3. CASE PrefixWork BY <1>3, WorkSteps
  <1>4. CASE PrefixEmit BY <1>4, EmitSteps
  <1>5. ASSUME NEW r \in Requests, AddRequest(r), UNCHANGED cacheVars PROVE PInv'
    BY <1>5, ArriveStep
  <1>6. CASE UNCHANGED prefixVars BY <1>6, PrefixStutters
  <1> QED BY <1>1, <1>2, <1>3, <1>4, <1>5, <1>6 DEF PrefixNext, PrefixStep

\* It always holds.
LEMMA PrefixInvariant == PrefixSpec => []PInv
  BY InitPrefix, PrefixSteps, PTL DEF PrefixSpec

--------------------------------------------------------------------------------
(* What a step does to who is where, for the engines built on this one. *)

\* Nobody moves; requests being admitted stay where they are.
Stays == /\ UNCHANGED <<waiting, running, admitted, outlived>>
         /\ \/ admitted = <<>>
            \/ pc \in Admitting /\ pc' \in Admitting /\ at' = at

\* Somebody who has finished leaves the batch.
Leaves == \E i \in 1 .. Len(running) :
              /\ finished[running[i]] /\ running' = RemoveAt(running, i)
              /\ admitted = <<>>
              /\ UNCHANGED <<waiting, admitted, outlived>>

\* The newest of the batch goes back to the head of the queue.
TakenBack == /\ running # <<>> /\ admitted = <<>>
             /\ ~finished[Last(running)] \/ Last(running) \in outlived'
             /\ outlived \subseteq outlived'
             /\ running' = Front(running) /\ waiting' = <<Last(running)>> \o waiting
             /\ UNCHANGED admitted

\* Those admitted join the batch, each after its first token.
Joins == /\ pc = "prefill" /\ at > Len(states)
         /\ running' = running \o admitted /\ admitted' = <<>>
         /\ UNCHANGED <<waiting, outlived>>

\* A step besides admission and emission does one of the four, and ends nobody's
\* stream.
LEMMA WorkMoves ==
  ASSUME PInv, PrefixWork
  PROVE  /\ finished' = finished /\ arrival' = arrival /\ pc # "idle"
         /\ pc' = "admit" => admitted' = <<>>
         /\ Stays \/ Leaves \/ TakenBack \/ Joins
  <1>0. pc \notin Admitting \cup {"admit"} => admitted = <<>> BY DEF PInv, InStep
  <1>1. CASE RetireOne /\ UNCHANGED cacheVars
    <2>1. pc = "retire" BY <1>1 DEF RetireOne, PInv, InStep, Admitting
    <2>2. admitted = <<>> BY <1>0, <2>1 DEF Admitting
    <2> QED BY <1>1, <2>1, <2>2 DEF RetireOne, Leaves, requestVars, stepVars, history
  <1>2. CASE Retired /\ UNCHANGED cacheVars
    BY <1>0, <1>2 DEF Retired, Stays, requestVars, stepVars, history, Admitting
  <1>3. CASE ShareCached BY <1>3 DEF ShareCached, Stays, stepVars, history, Admitting
  <1>4. CASE Fill
    <2>1. pc = "fill" /\ finished' = finished /\ arrival' = arrival /\ admitted' = admitted /\ at' = at
      BY <1>4 DEF Fill
    <2>2. FillRest(states[at]) BY <1>4, <2>1, Promised DEF Fill
    <2>3. pc' = "emit_prefill" /\ UNCHANGED <<waiting, running, outlived>> BY <2>2 DEF FillRest
    <2> QED BY <2>1, <2>3 DEF Stays, Admitting
  <1>5. CASE PrefixJoin
    BY <1>5 DEF PrefixJoin, JoinRunning, Joins, requestVars, history
  <1>6. CASE GrowOne /\ UNCHANGED cacheVars
    BY <1>0, <1>6 DEF GrowOne, Stays, stepVars, history, Admitting
  <1>7. CASE PrefixGrowShort
    <2>1. pc = "grow" /\ at <= Len(states) /\ Requeue(Last(running))
          /\ UNCHANGED <<finished, admitted, arrival>>
      BY <1>7 DEF PrefixGrowShort, PrefixShort
    <2>2. states[at] \in Range(running)
      <3>1. states[at] \in Range(states) BY <2>1, Lists
      <3> QED BY <2>1, <3>1, ToDecode
    <2>3. PICK i \in 1 .. Len(running) : running[i] = states[at] BY <2>2, Lists
    <2>4. running # <<>> BY <2>3, EmptySeq
    <2>5. admitted = <<>> BY <1>0, <2>1 DEF Admitting
    <2> QED BY <2>1, <2>4, <2>5 DEF Requeue, TakenBack
  <1>8. CASE PrefixDecode
    BY <1>0, <1>8 DEF PrefixDecode, Decode, Stays, history, Admitting
  <1>9. CASE EndStep /\ UNCHANGED cacheVars
    BY <1>0, <1>9 DEF EndStep, Stays, requestVars, history, Admitting
  <1> QED BY <1>1, <1>2, <1>3, <1>4, <1>5, <1>6, <1>7, <1>8, <1>9 DEF PrefixWork

--------------------------------------------------------------------------------
(* What follows from it. *)

\* It says what must be true of the pool, of the counts and of the promises.
LEMMA PoolFollows == PInv => PrefixTypeOK /\ CountsExact /\ PromiseKept
  <1> SUFFICES ASSUME PInv PROVE PrefixTypeOK /\ CountsExact /\ PromiseKept
    OBVIOUS
  <1>1. PrefixTypeOK
    <2>1. kv \in [Blocks -> Seq(Vocab)] /\ entries \in Seq(Entry) BY DEF PInv, MemInv, MemoryTypes
    <2>2. kv \in [Blocks -> Seq(Vocab) \cup {Garbage}] BY <2>1
    <2> QED BY <2>1, <2>2 DEF PrefixTypeOK, Entry, PInv
  <1>2. CountsExact
    <2>1. CountsHold /\ TablesOnce /\ EntriesOnce BY DEF PInv, MemInv
    <2>2. \A b \in Blocks :
              /\ refcount[b] = Cardinality({r \in Requests : b \in Range(block_table[r])})
                               + IF b \in CachedBlocks THEN 1 ELSE 0
              /\ b \in free <=> refcount[b] = 0
      BY <2>1 DEF CountsHold, Holders
    <2> QED BY <2>1, <2>2 DEF CountsExact, TablesOnce, EntriesOnce
  <1>3. PromiseKept BY Promised DEF PromiseKept
  <1> QED BY <1>1, <1>2, <1>3

\* It says that every sequence between steps reads its own context.
LEMMA ContextFollows == PInv => ReadsOwnContext
  <1> SUFFICES ASSUME PInv PROVE ReadsOwnContext
    OBVIOUS
  <1>1. MemInv BY DEF PInv
  <1>2. \A b \in Blocks : kv[b] # Garbage
    <2>1. kv \in [Blocks -> Seq(Vocab)] BY <1>1 DEF MemInv, MemoryTypes
    <2> QED BY <2>1, GarbageAssumption
  <1>3. ASSUME pc = "idle", NEW r \in Range(running), ~finished[r] PROVE HoldsContext(r, stored[r])
    <2>1. r \in Requests BY Lists
    <2>2. Settled(r) BY <1>3 DEF PInv, InBatch, Pending, Served
    <2>3. PICK n \in Nat : n = stored[r] /\ n = Held(r)
      BY <1>1, <2>1, <2>2, TableType DEF Settled, Held
    <2>4. /\ n <= TotalLen(r) /\ BlocksNeeded(n) <= Len(block_table[r])
          /\ Len(block_table[r]) \in Nat
          /\ \A i \in 1 .. Len(block_table[r]) : kv[block_table[r][i]] = Context(r, n, i)
      BY <1>1, <2>1, <2>3, TableType
    <2>5. BlocksNeeded(n) \in Nat BY Rounding
    <2>6. output_token_ids \in [Requests -> Seq(Vocab)] BY DEF PInv, TypeOK
    <2>7. ASSUME NEW i \in 1 .. BlocksNeeded(n)
          PROVE  kv[block_table[r][i]] = SubSeq(AllTokens(r), 1, Min({i * BlockSize, n}))
      <3>1. i \in Nat /\ i > 0 /\ i <= BlocksNeeded(n) /\ i \in 1 .. Len(block_table[r])
        BY <2>4, <2>5
      <3>2. Context(r, n, i) = SubSeq(AllTokens(r), 1, Min({i * BlockSize, n}))
        BY <2>1, <2>4, <2>6, <3>1, ContextType
      <3> QED BY <2>4, <3>1, <3>2
    <2> QED BY <2>3, <2>7 DEF HoldsContext
  <1> QED BY <1>2, <1>3 DEF ReadsOwnContext

\* Every block's count is exactly the tables it stands in and the cache, the
\* pool has the blocks that nobody holds, and what admission promised is there
\* when prefill takes it.
THEOREM SharingExact == PrefixSpec => []PoolExact
  <1>1. PInv => PoolExact BY PoolFollows DEF PoolExact
  <1> QED BY <1>1, PrefixInvariant, PTL

\* lookup() never returns a block that holds anything but the prefix it is
\* filed under, though blocks are evicted, reused and published all the time.
THEOREM HonestCache == PrefixSpec => []CacheIsHonest
  <1>1. PInv => CacheIsHonest BY DEF PInv, MemInv, Honest, CacheIsHonest
  <1> QED BY <1>1, PrefixInvariant, PTL

\* Between steps everybody in the batch gathers the KV of its own tokens, all of
\* them and nothing else, whoever computed the blocks.
THEOREM OwnContext == PrefixSpec => []ReadsOwnContext
  BY ContextFollows, PrefixInvariant, PTL

================================================================================

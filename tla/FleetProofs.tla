------------------------------- MODULE FleetProofs ------------------------------
(***************************************************************************)
(* Theorems about a fleet of engines with contiguous caches behind its     *)
(* router: what padding and sharing a pass leave out of a sequence's       *)
(* cache, what the router knows, and what the ledgers of engines, router   *)
(* and driver have to do with one another.                                 *)
(*                                                                         *)
(* FleetInv is inductive.  Its parts speak of the lists of the replicas    *)
(* and where a request stands (Lists, Whereabouts), of what was said and   *)
(* cached for each request (Served, Slots, Handoffs), and of the counters  *)
(* of the router and the driver (Spread, Affine, Assigned, InFlight); the  *)
(* properties of the run follow from it, most of them because a request    *)
(* stands in one list of one replica, at one position, for as long as it   *)
(* is served.                                                              *)
(***************************************************************************)
EXTENDS Fleet, SequenceFacts

--------------------------------------------------------------------------------
(* The layouts of a pass, against a sequence computed by itself. *)

\* The largest of some lengths that have a bound.
LEMMA LongestIs ==
  ASSUME NEW P \in SUBSET Nat, NEW n \in Nat, \A m \in P : m <= n, NEW l \in P
  PROVE  Longest(P) \in P /\ Longest(P) \in Nat /\ l <= Longest(P)
  <1>1. \E m \in P : \A i \in P : m >= i BY Largest
  <1>2. Max(P) \in P /\ \A i \in P : Max(P) >= i BY <1>1 DEF Max
  <1>3. PICK m \in P : m = Max(P) /\ \A i \in P : m >= i BY <1>2
  <1>4. m \in Nat /\ l \in Nat /\ l <= m BY <1>3
  <1> QED BY <1>3, <1>4 DEF Longest

\* A sequence that continues another by one is that one with a member appended.
LEMMA GrownTo ==
  ASSUME NEW s, s \in Seq(Range(s)), NEW t, t \in Seq(Range(t)), NEW n \in Nat, NEW e,
         Len(s) = n, Len(t) = n + 1, \A k \in 1 .. n : t[k] = s[k], t[n + 1] = e
  PROVE  t = Append(s, e)
  <1>1. PICK V : V = Range(s) \cup Range(t) \cup {e} OBVIOUS
  <1>2. \A k \in 1 .. n : s[k] \in V BY <1>1, ElementOfSeq, LenProperties DEF Range
  <1>3. \A k \in 1 .. n + 1 : t[k] \in V BY <1>1, LenProperties DEF Range
  <1>4. s \in Seq(V) /\ t \in Seq(V)
    <2>1. s \in [1 .. n -> V] /\ t \in [1 .. n + 1 -> V] BY <1>2, <1>3, LenProperties
    <2> QED BY <2>1, SeqDef
  <1>5. PICK u \in Seq(V) : u = Append(s, e) BY <1>1, <1>4, AppendProperties
  <1>6. /\ Len(u) = n + 1 /\ u[n + 1] = e /\ \A k \in 1 .. n : u[k] = s[k]
    BY <1>1, <1>4, <1>5, AppendProperties
  <1>7. \A k \in 1 .. n + 1 : t[k] = u[k]
    <2>1. \A k \in 1 .. n + 1 : k \in 1 .. n \/ k = n + 1 OBVIOUS
    <2> QED BY <1>6, <2>1
  <1> QED BY <1>4, <1>5, <1>6, <1>7, SeqEqual

\* As many columns as a row is wide.
LEMMA ColumnsCount ==
  ASSUME NEW n \in Nat
  PROVE  Cardinality(0 .. n - 1) = n
  BY FS_Interval

\* What the k-th of some tokens attends to when they are computed by themselves.
OwnReads(tokens, k) == {<<tokens[j], j - 1>> : j \in 1 .. k}

\* The cache of a sequence by itself has an entry for each token.
LEMMA OwnCacheIs ==
  ASSUME NEW S, NEW s \in Seq(S)
  PROVE  /\ Len(OwnCache(s)) = Len(s) /\ Len(s) \in Nat
         /\ OwnCache(s) \in Seq(Range(OwnCache(s)))
         /\ \A k \in 1 .. Len(s) :
                OwnCache(s)[k] = [token |-> s[k], position |-> k - 1, reads |-> OwnReads(s, k)]
  <1>1. PICK n \in Nat : n = Len(s) BY LenProperties
  <1>2. PICK c : c = OwnCache(s) OBVIOUS
  <1>3. DOMAIN c = 1 .. n BY <1>1, <1>2 DEF OwnCache
  <1>4. c \in [1 .. n -> Range(c)]
    <2>1. c = [k \in 1 .. n |-> c[k]] BY <1>1, <1>2 DEF OwnCache
    <2>2. \A k \in 1 .. n : c[k] \in Range(c) BY <1>3 DEF Range
    <2> QED BY <2>1, <2>2
  <1>5. c \in Seq(Range(c)) /\ Len(c) = n BY <1>4, SeqDef, LenProperties
  <1> QED BY <1>1, <1>2, <1>5 DEF OwnCache, OwnReads

\* What a column holds for those who attend to it, of a cache of h columns with
\* new ones behind it; and the columns that the new column c attends to.
KeyOf(cache, ids, positions, h, k) ==
    IF k < h THEN <<cache[k].token, cache[k].position>> ELSE <<ids[k - h], positions[k - h]>>

Attended(valid, h, q, c) == {k \in 0 .. h + q - 1 : valid[k] /\ (q > 1 => k <= c)}

\* What forward() writes into a new column: it attends to every column before it
\* that the mask lets through, and to all of them if it is the only query.
LEMMA ForwardIs ==
  ASSUME NEW cache, NEW ids, NEW positions, NEW valid, NEW h \in Nat, NEW q \in Nat,
         Cardinality(DOMAIN cache) = h, Cardinality(DOMAIN ids) = q, NEW c \in h .. h + q - 1
  PROVE  Forward(cache, ids, positions, valid)[c] =
             [token |-> ids[c - h], position |-> positions[c - h],
              reads |-> {KeyOf(cache, ids, positions, h, k) : k \in Attended(valid, h, q, c)}]
  <1> DEFINE Key(held, k) == IF k < held THEN <<cache[k].token, cache[k].position>>
                             ELSE <<ids[k - held], positions[k - held]>>
             Seen(held, queries, d) ==
               LET total == held + queries
               IN {k \in 0 .. total - 1 : valid[k] /\ (queries > 1 => Causal(d, k, total, queries))}
             New(held, queries, k) ==
               [token |-> ids[k - held], position |-> positions[k - held],
                reads |-> {Key(held, j) : j \in Seen(held, queries, k - held)}]
             Entries(held, queries) ==
               LET total == held + queries
               IN [k \in 0 .. total - 1 |-> IF k < held THEN cache[k] ELSE New(held, queries, k)]
  <1>1. Forward(cache, ids, positions, valid)[c] = Entries(h, q)[c]
    <2>1. Forward(cache, ids, positions, valid) =
              Entries(Cardinality(DOMAIN cache), Cardinality(DOMAIN ids))
      BY DEF Forward, AttentionReads
    <2> HIDE DEF Entries
    <2> QED BY <2>1
  <1>2. Entries(h, q)[c] = New(h, q, c)
    <2>1. c \in 0 .. h + q - 1 /\ ~(c < h) OBVIOUS
    <2> HIDE DEF New
    <2> QED BY <2>1
  <1>3. Seen(h, q, c - h) = Attended(valid, h, q, c)
    <2>1. \A k \in 0 .. h + q - 1 : Causal(c - h, k, h + q, q) <=> k <= c BY DEF Causal
    <2> QED BY <2>1 DEF Attended
  <1> HIDE DEF Seen, Entries
  <1> QED BY <1>1, <1>2, <1>3 DEF KeyOf

\* The columns of a sequence, numbered from 0.
LEMMA ColumnsAre ==
  ASSUME NEW S, NEW s \in Seq(S)
  PROVE  /\ Cardinality(DOMAIN Columns(s)) = Len(s) /\ Len(s) \in Nat
         /\ \A c \in 0 .. Len(s) - 1 : Columns(s)[c] = s[c + 1]
  <1>1. Len(s) \in Nat BY LenProperties
  <1>2. DOMAIN Columns(s) = 0 .. Len(s) - 1 BY DEF Columns
  <1> QED BY <1>1, <1>2, ColumnsCount DEF Columns

Keys(key, D) == {key[d] : d \in D}

\* A column that attends to the n columns from pad on, which hold tokens at the
\* positions of a sequence by itself.
LEMMA ReadsOwn ==
  ASSUME NEW tokens, NEW pad \in Nat, NEW k \in Nat, NEW key,
         \A d \in pad .. pad + k - 1 : key[d] = <<tokens[d - pad + 1], d - pad>>
  PROVE  Keys(key, pad .. pad + k - 1) = OwnReads(tokens, k)
  <1>1. ASSUME NEW d \in pad .. pad + k - 1 PROVE key[d] \in OwnReads(tokens, k)
    <2>1. PICK j \in 1 .. k : j = d - pad + 1 /\ j - 1 = d - pad OBVIOUS
    <2>2. key[d] = <<tokens[j], j - 1>> BY <2>1
    <2> QED BY <2>2 DEF OwnReads
  <1>2. ASSUME NEW j \in 1 .. k
        PROVE  <<tokens[j], j - 1>> \in {key[d] : d \in pad .. pad + k - 1}
    <2>1. PICK d \in pad .. pad + k - 1 : d - pad + 1 = j /\ d - pad = j - 1
      <3>1. pad + j - 1 \in pad .. pad + k - 1 OBVIOUS
      <3> QED BY <3>1
    <2>2. key[d] = <<tokens[j], j - 1>> BY <2>1
    <2> QED BY <2>2
  <1> QED BY <1>1, <1>2 DEF Keys, OwnReads

\* _prefill_batch pads on the left: the mask and the shifted positions leave a
\* sequence the cache it would have had alone, however wide the rectangle.
LEMMA PrefillIsOwn ==
  ASSUME NEW S, NEW tokens \in Seq(S), tokens # <<>>, NEW width \in Nat, Len(tokens) <= width
  PROVE  PrefillCache(tokens, width) = OwnCache(tokens)
  <1>1. PICK n \in Nat : n = Len(tokens) /\ n > 0
    <2>1. Len(tokens) \in Nat /\ Len(tokens) # 0 BY LenProperties, EmptySeq
    <2> QED BY <2>1
  <1>2. PICK pad \in Nat : pad = width - n /\ width = pad + n BY <1>1
  <1>3. PICK ids, positions, valid :
            /\ ids = [c \in 0 .. width - 1 |-> IF c < pad THEN PadToken ELSE tokens[c - pad + 1]]
            /\ positions = [c \in 0 .. width - 1 |-> IF c < pad THEN 0 ELSE c - pad]
            /\ valid = [c \in 0 .. width - 1 |-> c >= pad]
    OBVIOUS
  <1>4. PrefillRow(tokens, width) = [ids |-> ids, positions |-> positions, valid |-> valid]
    BY <1>1, <1>2, <1>3 DEF PrefillRow
  <1>5. ASSUME NEW c \in 0 .. width - 1, c >= pad
        PROVE  ids[c] = tokens[c - pad + 1] /\ positions[c] = c - pad
    BY <1>3, <1>5
  <1>6. \A c \in 0 .. width - 1 : valid[c] = (c >= pad) BY <1>3
  <1>7. Cardinality(DOMAIN <<>>) = 0
    <2>1. DOMAIN <<>> = {} OBVIOUS
    <2> QED BY <2>1, FS_EmptySet
  <1>8. Cardinality(DOMAIN ids) = width BY <1>3, ColumnsCount
  <1>9. PICK present : present = Forward(<<>>, ids, positions, valid) OBVIOUS
  <1>10. PICK key : key = [d \in 0 .. width - 1 |-> <<ids[d], positions[d]>>] OBVIOUS
  <1>11. \A d \in 0 .. width - 1 : KeyOf(<<>>, ids, positions, 0, d) = key[d]
    <2>1. \A d \in 0 .. width - 1 : ~(d < 0) /\ d - 0 = d OBVIOUS
    <2> QED BY <1>10, <2>1 DEF KeyOf
  <1>12. ASSUME NEW k \in 1 .. n
         PROVE  present[pad + k - 1] = [token |-> tokens[k], position |-> k - 1,
                                        reads |-> OwnReads(tokens, k)]
    <2>1. PICK c \in 0 .. width - 1 : /\ c = pad + k - 1 /\ c >= pad
                                      /\ c - pad + 1 = k /\ c - pad = k - 1
      BY <1>2
    <2>2. c \in 0 .. 0 + width - 1 /\ c - 0 = c OBVIOUS
    <2>3. PICK seen : seen = Attended(valid, 0, width, c) OBVIOUS
    <2>4. present[c] = [token |-> ids[c], position |-> positions[c],
                        reads |-> {KeyOf(<<>>, ids, positions, 0, d) : d \in seen}]
      BY <1>7, <1>8, <1>9, <2>2, <2>3, ForwardIs
    <2>5. seen = pad .. pad + k - 1
      <3>1. ASSUME NEW d \in 0 .. width - 1 PROVE d \in seen <=> d >= pad /\ d <= c
        <4>1. valid[d] = (d >= pad) BY <1>6
        <4>2. width > 1 \/ d <= c BY <2>1
        <4>3. 0 + width - 1 = width - 1 OBVIOUS
        <4>4. d \in seen <=> valid[d] /\ (width > 1 => d <= c) BY <2>3, <4>3 DEF Attended
        <4> QED BY <4>1, <4>2, <4>4
      <3>2. \A d : d \in pad .. pad + k - 1 <=> d \in 0 .. width - 1 /\ d >= pad /\ d <= c
        BY <1>2, <2>1
      <3>3. \A d \in seen : d \in 0 .. width - 1 BY <2>3 DEF Attended
      <3>4. \A d : d \in seen <=> d \in pad .. pad + k - 1 BY <3>1, <3>2, <3>3
      <3> QED BY <2>3, <3>4 DEF Attended
    <2>6. \A d \in pad .. pad + k - 1 : d \in 0 .. width - 1 /\ d >= pad BY <1>2, <2>1
    <2>7. \A d \in pad .. pad + k - 1 : key[d] = <<tokens[d - pad + 1], d - pad>>
      BY <1>5, <1>10, <2>6
    <2>8. Keys(key, pad .. pad + k - 1) = OwnReads(tokens, k)
      <3>1. k \in Nat OBVIOUS
      <3> QED BY <2>7, <3>1, ReadsOwn
    <2>9. {KeyOf(<<>>, ids, positions, 0, d) : d \in seen} = {key[d] : d \in pad .. pad + k - 1}
      BY <1>11, <2>5, <2>6
    <2> QED BY <1>5, <2>1, <2>4, <2>8, <2>9 DEF Keys
  <1>13. PrefillCache(tokens, width) = [k \in 1 .. n |-> present[pad + k - 1]]
    BY <1>1, <1>2, <1>4, <1>9 DEF PrefillCache
  <1>14. OwnCache(tokens) = [k \in 1 .. n |-> [token |-> tokens[k], position |-> k - 1,
                                               reads |-> OwnReads(tokens, k)]]
    BY <1>1 DEF OwnCache, OwnReads
  <1> QED BY <1>12, <1>13, <1>14

\* The columns that hold a sequence, and a mask that lets those and one more
\* through, the column `width`.
HoldsOwn(columns, s) ==
    \A c \in 0 .. Len(s) - 1 : columns[c].token = s[c + 1] /\ columns[c].position = c

ShowsOwn(valid, s, width) == \A c \in 0 .. width : valid[c] = (c < Len(s) \/ c = width)

\* The one new token of a sequence, in a column of its own behind the sequence
\* and whatever it is padded with: if the mask hides the padding, it gets the
\* entry that the sequence would have had alone.
LEMMA NewColumn ==
  ASSUME NEW S, NEW s \in Seq(S), NEW token \in S, NEW width \in Nat, Len(s) <= width,
         NEW padded, Cardinality(DOMAIN padded) = width,
         HoldsOwn(padded, s), NEW valid, ShowsOwn(valid, s, width)
  PROVE  Append(OwnCache(s), Forward(padded, Columns(<<token>>), Columns(<<Len(s)>>), valid)[width])
             = OwnCache(Append(s, token))
  <1>1. PICK n \in Nat : n = Len(s) BY LenProperties
  <1>2. PICK cache : cache = OwnCache(s) OBVIOUS
  <1>3. /\ Len(cache) = n /\ cache \in Seq(Range(cache))
        /\ \A k \in 1 .. n : cache[k] = [token |-> s[k], position |-> k - 1, reads |-> OwnReads(s, k)]
    BY <1>1, <1>2, OwnCacheIs
  <1>4. PICK ids : ids = Columns(<<token>>) OBVIOUS
  <1>5. PICK positions : positions = Columns(<<n>>) OBVIOUS
  <1>6. Cardinality(DOMAIN padded) = width OBVIOUS
  <1>7. Cardinality(DOMAIN ids) = 1 /\ ids[0] = token
    <2>1. <<token>> \in Seq(S) /\ Len(<<token>>) = 1 /\ <<token>>[0 + 1] = token OBVIOUS
    <2>2. 0 \in 0 .. Len(<<token>>) - 1 BY <2>1
    <2> QED BY <1>4, <2>1, <2>2, ColumnsAre
  <1>8. positions[0] = n
    <2>1. <<n>> \in Seq(Nat) /\ Len(<<n>>) = 1 /\ <<n>>[0 + 1] = n OBVIOUS
    <2>2. 0 \in 0 .. Len(<<n>>) - 1 BY <2>1
    <2> QED BY <1>5, <2>1, <2>2, ColumnsAre
  <1>9. \A c \in 0 .. n - 1 : padded[c].token = s[c + 1] /\ padded[c].position = c
    BY <1>1 DEF HoldsOwn
  <1>10. \A c \in 0 .. width : valid[c] = (c < n \/ c = width) BY <1>1 DEF ShowsOwn
  <1>11. PICK t \in Seq(S) : t = Append(s, token) BY AppendProperties
  <1>12. Len(t) = n + 1 /\ t[n + 1] = token /\ \A k \in 1 .. n : t[k] = s[k]
    BY <1>1, <1>11, AppendProperties
  <1>13. PICK present : present = Forward(padded, ids, positions, valid) OBVIOUS
  <1>14. present[width] = [token |-> token, position |-> n, reads |-> OwnReads(t, n + 1)]
    <2>1. width \in width .. width + 1 - 1 /\ width - width = 0 OBVIOUS
    <2>2. PICK seen : seen = Attended(valid, width, 1, width) OBVIOUS
    <2>3. PICK key : key = [k \in 0 .. width |-> KeyOf(padded, ids, positions, width, k)] OBVIOUS
    <2>4. present[width] = [token |-> token, position |-> n,
                            reads |-> {KeyOf(padded, ids, positions, width, k) : k \in seen}]
      BY <1>6, <1>7, <1>8, <1>13, <2>1, <2>2, ForwardIs
    <2>5. \A k : k \in seen <=> k \in 0 .. n - 1 \/ k = width
      <3>1. \A k : k \in seen <=> k \in 0 .. width /\ valid[k] BY <2>2 DEF Attended
      <3>2. \A k \in 0 .. n - 1 : k \in 0 .. width /\ k < n BY <1>1
      <3>3. \A k \in 0 .. width : k < n => k \in 0 .. n - 1 BY <1>1
      <3>4. width \in 0 .. width OBVIOUS
      <3> QED BY <1>10, <3>1, <3>2, <3>3, <3>4
    <2>6. {KeyOf(padded, ids, positions, width, k) : k \in seen} = {key[k] : k \in seen}
      <3>1. \A k \in seen : k \in 0 .. width BY <2>5, <1>1
      <3> QED BY <2>3, <3>1
    <2>7. ASSUME NEW k \in 0 .. n - 1 PROVE key[k] = <<t[k + 1], (k + 1) - 1>>
      <3>1. k \in 0 .. width /\ k < width /\ k + 1 \in 1 .. n /\ (k + 1) - 1 = k BY <1>1
      <3> QED BY <1>9, <1>12, <2>3, <3>1 DEF KeyOf
    <2>8. key[width] = <<t[n + 1], (n + 1) - 1>>
      <3>1. width \in 0 .. width /\ ~(width < width) /\ (n + 1) - 1 = n OBVIOUS
      <3> QED BY <1>7, <1>8, <1>12, <2>1, <2>3, <3>1 DEF KeyOf
    <2>9. {key[k] : k \in seen} = OwnReads(t, n + 1)
      <3>1. ASSUME NEW k \in seen PROVE key[k] \in OwnReads(t, n + 1)
        <4>1. CASE k \in 0 .. n - 1
          <5>1. PICK j \in 1 .. n + 1 : j = k + 1 BY <4>1
          <5>2. key[k] = <<t[j], j - 1>> BY <2>7, <4>1, <5>1
          <5> QED BY <5>2 DEF OwnReads
        <4>2. CASE k = width
          <5>1. n + 1 \in 1 .. n + 1 OBVIOUS
          <5> QED BY <2>8, <4>2, <5>1 DEF OwnReads
        <4> QED BY <2>5, <4>1, <4>2
      <3>2. ASSUME NEW j \in 1 .. n + 1 PROVE <<t[j], j - 1>> \in {key[k] : k \in seen}
        <4>1. CASE j = n + 1 BY <2>5, <2>8, <4>1
        <4>2. CASE j # n + 1
          <5>1. PICK k \in 0 .. n - 1 : k + 1 = j
            <6>1. j - 1 \in 0 .. n - 1 /\ (j - 1) + 1 = j BY <4>2
            <6> QED BY <6>1
          <5> QED BY <2>5, <2>7, <5>1
        <4> QED BY <4>1, <4>2
      <3> QED BY <3>1, <3>2 DEF OwnReads
    <2> QED BY <2>4, <2>6, <2>9
  <1>15. PICK entry : entry = present[width] OBVIOUS
  <1>16. PICK own : own = OwnCache(t) OBVIOUS
  <1>17. /\ Len(own) = n + 1 /\ own \in Seq(Range(own))
         /\ \A k \in 1 .. n + 1 : own[k] = [token |-> t[k], position |-> k - 1,
                                            reads |-> OwnReads(t, k)]
    BY <1>12, <1>16, OwnCacheIs
  <1>18. ASSUME NEW k \in 1 .. n PROVE own[k] = cache[k]
    <2>1. k \in 1 .. n + 1 /\ \A j \in 1 .. k : t[j] = s[j] BY <1>12
    <2>2. OwnReads(t, k) = OwnReads(s, k) BY <2>1 DEF OwnReads
    <2>3. own[k] = [token |-> t[k], position |-> k - 1, reads |-> OwnReads(t, k)]
      BY <1>17, <2>1
    <2>4. cache[k] = [token |-> s[k], position |-> k - 1, reads |-> OwnReads(s, k)] BY <1>3
    <2>5. t[k] = s[k] BY <2>1
    <2> QED BY <2>2, <2>3, <2>4, <2>5
  <1>19. own[n + 1] = entry
    <2>1. n + 1 \in 1 .. n + 1 /\ (n + 1) - 1 = n OBVIOUS
    <2> QED BY <1>12, <1>14, <1>15, <1>17, <2>1
  <1>20. own = Append(cache, entry) BY <1>3, <1>17, <1>18, <1>19, GrownTo
  <1> QED BY <1>1, <1>2, <1>4, <1>5, <1>11, <1>13, <1>15, <1>16, <1>20

\* _decode_batch pads on the right and puts the new token behind the padding:
\* the mask leaves it to attend to its own sequence, and the entry that is
\* scattered back is the one the sequence would have had alone.
LEMMA DecodeIsOwn ==
  ASSUME NEW S, NEW s \in Seq(S), NEW token \in S, NEW width \in Nat, Len(s) <= width
  PROVE  DecodeCache(OwnCache(s), token, width) = OwnCache(Append(s, token))
  <1>1. PICK n \in Nat : n = Len(s) BY LenProperties
  <1>2. PICK cache : cache = OwnCache(s) OBVIOUS
  <1>3. /\ Len(cache) = n
        /\ \A k \in 1 .. n : cache[k] = [token |-> s[k], position |-> k - 1, reads |-> OwnReads(s, k)]
    BY <1>1, <1>2, OwnCacheIs
  <1>4. PICK padded : padded = RightPadded(cache, width) OBVIOUS
  <1>5. PICK valid : valid = DecodeMask(cache, width) OBVIOUS
  <1>6. Cardinality(DOMAIN padded) = width
    <2>1. DOMAIN padded = 0 .. width - 1 BY <1>4 DEF RightPadded
    <2> QED BY <2>1, ColumnsCount
  <1>7. HoldsOwn(padded, s)
    <2>1. ASSUME NEW c \in 0 .. n - 1 PROVE padded[c].token = s[c + 1] /\ padded[c].position = c
      <3>1. c \in 0 .. width - 1 /\ c < n BY <1>1
      <3>2. PICK k \in 1 .. n : k = c + 1 /\ k - 1 = c OBVIOUS
      <3>3. padded[c] = cache[k] BY <1>3, <1>4, <3>1, <3>2 DEF RightPadded
      <3>4. cache[k] = [token |-> s[k], position |-> k - 1, reads |-> OwnReads(s, k)] BY <1>3
      <3> QED BY <3>2, <3>3, <3>4
    <2> QED BY <1>1, <2>1 DEF HoldsOwn
  <1>8. ShowsOwn(valid, s, width) BY <1>1, <1>3, <1>5 DEF DecodeMask, ShowsOwn
  <1>9. Append(cache, Forward(padded, Columns(<<token>>), Columns(<<Len(s)>>), valid)[width])
            = OwnCache(Append(s, token))
    <2>1. Append(OwnCache(s), Forward(padded, Columns(<<token>>), Columns(<<Len(s)>>), valid)[width])
              = OwnCache(Append(s, token))
      BY <1>6, <1>7, <1>8, NewColumn
    <2> QED BY <1>2, <2>1
  <1> QED BY <1>1, <1>2, <1>3, <1>4, <1>5, <1>9 DEF DecodeCache

\* CachedEngine decodes alone, without padding or mask, and counts the position
\* of the new token from the tokens: the same entry again.
LEMMA LoneDecodeIsOwn ==
  ASSUME NEW S, NEW s \in Seq(S), NEW token \in S
  PROVE  Append(OwnCache(s), Forward(Columns(OwnCache(s)), Columns(<<token>>), Columns(<<Len(s)>>),
                                     AllValid(Len(s) + 1))[Len(s)]) = OwnCache(Append(s, token))
  <1>1. PICK n \in Nat : n = Len(s) BY LenProperties
  <1>2. PICK cache : cache = OwnCache(s) OBVIOUS
  <1>3. /\ Len(cache) = n /\ cache \in Seq(Range(cache))
        /\ \A k \in 1 .. n : cache[k] = [token |-> s[k], position |-> k - 1, reads |-> OwnReads(s, k)]
    BY <1>1, <1>2, OwnCacheIs
  <1>4. PICK columns : columns = Columns(cache) OBVIOUS
  <1>5. Cardinality(DOMAIN columns) = n /\ \A c \in 0 .. n - 1 : columns[c] = cache[c + 1]
    BY <1>3, <1>4, ColumnsAre
  <1>6. \A c \in 0 .. n - 1 : columns[c].token = s[c + 1] /\ columns[c].position = c
    <2>1. \A c \in 0 .. n - 1 : c + 1 \in 1 .. n /\ (c + 1) - 1 = c OBVIOUS
    <2> QED BY <1>3, <1>5, <2>1
  <1>7. PICK valid : valid = AllValid(n + 1) OBVIOUS
  <1>8. \A c \in 0 .. n : valid[c] = (c < n \/ c = n) BY <1>7 DEF AllValid
  <1>9. /\ Cardinality(DOMAIN columns) = n /\ Len(s) <= n
        /\ HoldsOwn(columns, s) /\ ShowsOwn(valid, s, n)
    BY <1>1, <1>5, <1>6, <1>8 DEF HoldsOwn, ShowsOwn
  <1>10. Append(OwnCache(s), Forward(columns, Columns(<<token>>), Columns(<<Len(s)>>), valid)[n])
            = OwnCache(Append(s, token))
    BY <1>9, NewColumn
  <1> QED BY <1>1, <1>2, <1>4, <1>7, <1>10

\* A pass over a whole sequence computes its cache.
LEMMA LonePassIsOwn ==
  ASSUME NEW S, NEW tokens \in Seq(S)
  PROVE  LonePass(tokens) = OwnCache(tokens)
  <1>1. PICK n \in Nat : n = Len(tokens) BY LenProperties
  <1>2. PICK ids : ids = Columns(tokens) OBVIOUS
  <1>3. Cardinality(DOMAIN ids) = n /\ \A c \in 0 .. n - 1 : ids[c] = tokens[c + 1]
    BY <1>1, <1>2, ColumnsAre
  <1>4. Cardinality(DOMAIN <<>>) = 0
    <2>1. DOMAIN <<>> = {} OBVIOUS
    <2> QED BY <2>1, FS_EmptySet
  <1>5. PICK positions : positions = DefaultPositions(<<>>, ids) OBVIOUS
  <1>6. \A c \in 0 .. n - 1 : positions[c] = c
    <2>1. DOMAIN ids = 0 .. n - 1 BY <1>1, <1>2 DEF Columns
    <2>2. \A c \in 0 .. n - 1 : 0 + c = c OBVIOUS
    <2>3. \A c \in 0 .. n - 1 : positions[c] = 0 + c BY <1>4, <1>5, <2>1 DEF DefaultPositions
    <2> QED BY <2>2, <2>3
  <1>7. PICK valid : valid = AllValid(n) OBVIOUS
  <1>8. \A c \in 0 .. n - 1 : valid[c] = TRUE BY <1>7 DEF AllValid
  <1>9. PICK h \in Nat : h = 0 OBVIOUS
  <1>10. PICK none : none = <<>> OBVIOUS
  <1>11. PICK present : present = Forward(none, ids, positions, valid) OBVIOUS
  <1>12. PICK key : key = [d \in 0 .. n - 1 |-> <<ids[d], positions[d]>>] OBVIOUS
  <1>13. ASSUME NEW k \in 1 .. n
         PROVE  present[k - 1] = [token |-> tokens[k], position |-> k - 1,
                                  reads |-> OwnReads(tokens, k)]
    <2>1. PICK c \in 0 .. n - 1 : c = k - 1 /\ c + 1 = k OBVIOUS
    <2>2. c \in 0 .. 0 + n - 1 /\ c - 0 = c OBVIOUS
    <2>3. PICK seen : seen = Attended(valid, 0, n, c) OBVIOUS
    <2>4. present[c] = [token |-> ids[c - h], position |-> positions[c - h],
                        reads |-> {KeyOf(none, ids, positions, h, d) : d \in seen}]
      <3>1. Cardinality(DOMAIN none) = h /\ Cardinality(DOMAIN ids) = n BY <1>9, <1>10, <1>3, <1>4
      <3>2. c \in h .. h + n - 1 /\ seen = Attended(valid, h, n, c) BY <1>9, <2>2, <2>3
      <3>3. Forward(none, ids, positions, valid)[c] =
                [token |-> ids[c - h], position |-> positions[c - h],
                 reads |-> {KeyOf(none, ids, positions, h, d) : d \in Attended(valid, h, n, c)}]
        BY <3>1, <3>2, ForwardIs
      <3> QED BY <1>11, <3>2, <3>3
    <2>5. \A d : d \in seen <=> d \in 0 .. 0 + k - 1
      <3>1. \A d : d \in seen <=> d \in 0 .. 0 + n - 1 /\ valid[d] /\ (n > 1 => d <= c)
        BY <2>3 DEF Attended
      <3>2. \A d : d \in 0 .. 0 + n - 1 <=> d \in 0 .. n - 1 OBVIOUS
      <3>3. \A d \in 0 .. n - 1 : (n > 1 => d <= c) <=> d \in 0 .. 0 + k - 1 BY <2>1
      <3>4. \A d \in 0 .. 0 + k - 1 : d \in 0 .. n - 1 BY <2>1
      <3> QED BY <1>8, <3>1, <3>2, <3>3, <3>4
    <2>6. \A d \in 0 .. 0 + k - 1 : /\ KeyOf(none, ids, positions, h, d) = key[d]
                                    /\ key[d] = <<tokens[d - 0 + 1], d - 0>>
      <3>1. \A d \in 0 .. 0 + k - 1 : /\ d \in 0 .. n - 1 /\ ~(d < h) /\ d - h = d
                                      /\ d - 0 = d /\ d - 0 + 1 = d + 1
        BY <1>9, <2>1
      <3> QED BY <1>3, <1>6, <1>12, <3>1 DEF KeyOf
    <2>7. Keys(key, 0 .. 0 + k - 1) = OwnReads(tokens, k)
      <3>1. k \in Nat /\ 0 \in Nat OBVIOUS
      <3>2. \A d \in 0 .. 0 + k - 1 : key[d] = <<tokens[d - 0 + 1], d - 0>> BY <2>6
      <3> QED BY <3>1, <3>2, ReadsOwn
    <2>8. {KeyOf(none, ids, positions, h, d) : d \in seen} = Keys(key, 0 .. 0 + k - 1)
      BY <2>5, <2>6 DEF Keys
    <2>9. c - h = c BY <1>9, <2>2
    <2> QED BY <1>3, <1>6, <2>1, <2>4, <2>7, <2>8, <2>9
  <1>14. LonePass(tokens) = [k \in 1 .. n |-> present[k - 1]]
    BY <1>10, <1>1, <1>2, <1>5, <1>7, <1>11 DEF LonePass
  <1>15. OwnCache(tokens) = [k \in 1 .. n |-> [token |-> tokens[k], position |-> k - 1,
                                               reads |-> OwnReads(tokens, k)]]
    BY <1>1 DEF OwnCache, OwnReads
  <1> QED BY <1>13, <1>14, <1>15

--------------------------------------------------------------------------------
(* Lists in which nobody stands twice. *)

Once(s) == \A j, k \in 1 .. Len(s) : s[j] = s[k] => j = k

ListOf(S) == {s \in Seq(S) : Once(s)}

LEMMA NobodyOnce == ASSUME NEW S PROVE <<>> \in ListOf(S) /\ Range(<<>>) = {}
  BY NobodyListed DEF ListOf, Once

\* The first n of a list (admission, when n is the free places), and the rest.
LEMMA FirstAndRest ==
  ASSUME NEW S, NEW s \in ListOf(S), NEW n \in Int
  PROVE  \E first, rest :
             /\ first = First(s, n) /\ rest = SubSeq(s, Len(first) + 1, Len(s))
             /\ first \in ListOf(S) /\ rest \in ListOf(S)
             /\ Range(first) \subseteq Range(s) /\ Range(rest) = Range(s) \ Range(first)
             /\ Len(first) \in Nat /\ (n >= 0 => Len(first) <= n)
  <1>1. PICK l \in Nat : l = Len(s) BY LenProperties DEF ListOf
  <1>2. \A k \in 1 .. l : s[k] \in S BY <1>1, ElementOfSeq DEF ListOf
  <1>3. \A j, k \in 1 .. l : s[j] = s[k] => j = k BY <1>1 DEF ListOf, Once
  <1>4. Min({n, l}) = IF n <= l THEN n ELSE l BY MinOfTwo
  <1>5. PICK m \in Int : m = Min({n, l}) /\ m <= l /\ m <= n BY <1>4
  <1>6. PICK first : first = SubSeq(s, 1, m) OBVIOUS
  <1>7. First(s, n) = first BY <1>1, <1>5, <1>6 DEF First
  <1>8. PICK f \in Nat : f = IF 1 <= m THEN m ELSE 0 BY <1>5
  <1>9. first \in Seq(S) /\ Len(first) = f /\ \A k \in 1 .. f : first[k] = s[k]
    <2>1. \A k \in 1 .. m : s[k] \in S BY <1>2, <1>5
    <2>2. /\ first \in Seq(S) /\ Len(first) = IF 1 <= m THEN m - 1 + 1 ELSE 0
          /\ \A k \in 1 .. m - 1 + 1 : first[k] = s[1 + k - 1]
      BY <1>6, <2>1, SubSeqProperties
    <2>3. \A k \in 1 .. f : k \in 1 .. m - 1 + 1 /\ 1 + k - 1 = k BY <1>8
    <2> QED BY <1>8, <2>2, <2>3
  <1>10. PICK rest : rest = SubSeq(s, f + 1, l) OBVIOUS
  <1>11. rest \in Seq(S) /\ Len(rest) = l - f /\ \A k \in 1 .. l - f : rest[k] = s[f + k]
    <2>1. \A k \in f + 1 .. l : s[k] \in S BY <1>2
    <2>2. /\ rest \in Seq(S) /\ Len(rest) = IF f + 1 <= l THEN l - (f + 1) + 1 ELSE 0
          /\ \A k \in 1 .. l - (f + 1) + 1 : rest[k] = s[f + 1 + k - 1]
      BY <1>10, <2>1, SubSeqProperties
    <2>3. \A k \in 1 .. l - f : k \in 1 .. l - (f + 1) + 1 /\ f + 1 + k - 1 = f + k OBVIOUS
    <2>4. f <= l BY <1>5, <1>8
    <2> QED BY <2>2, <2>3, <2>4
  <1>12. Once(first)
    <2>1. ASSUME NEW j \in 1 .. f, NEW k \in 1 .. f, first[j] = first[k] PROVE j = k
      <3>1. j \in 1 .. l /\ k \in 1 .. l BY <1>5, <1>8
      <3>2. first[j] = s[j] /\ first[k] = s[k] BY <1>9
      <3> QED BY <1>3, <2>1, <3>1, <3>2
    <2> QED BY <1>9, <2>1 DEF Once
  <1>13. Once(rest)
    <2>1. ASSUME NEW j \in 1 .. l - f, NEW k \in 1 .. l - f, rest[j] = rest[k] PROVE j = k
      <3>1. f + j \in 1 .. l /\ f + k \in 1 .. l /\ s[f + j] = s[f + k] BY <1>11, <2>1
      <3>2. f + j = f + k BY <1>3, <3>1
      <3> QED BY <3>2
    <2> QED BY <1>11, <2>1 DEF Once
  <1>14. \A x : x \in Range(s) <=> \E k \in 1 .. l : s[k] = x BY <1>1, Occurs DEF ListOf
  <1>15. \A x : x \in Range(first) <=> \E k \in 1 .. f : first[k] = x BY <1>9, Occurs
  <1>16. \A x : x \in Range(rest) <=> \E k \in 1 .. l - f : rest[k] = x BY <1>11, Occurs
  <1>17. Range(first) \subseteq Range(s)
    <2>1. \A k \in 1 .. f : k \in 1 .. l BY <1>5, <1>8
    <2> QED BY <1>9, <1>14, <1>15, <2>1
  <1>18. Range(rest) = Range(s) \ Range(first)
    <2>1. ASSUME NEW x, x \in Range(rest) PROVE x \in Range(s) \ Range(first)
      <3>1. PICK k \in 1 .. l - f : rest[k] = x BY <1>16, <2>1
      <3>2. f + k \in 1 .. l /\ s[f + k] = x BY <1>11, <3>1
      <3>3. x \in Range(s) BY <1>14, <3>2
      <3>4. ASSUME NEW j \in 1 .. f, first[j] = x PROVE FALSE
        <4>1. j \in 1 .. l /\ s[j] = x
          <5>1. j \in 1 .. l BY <1>5, <1>8
          <5> QED BY <1>9, <3>4, <5>1
        <4>2. j = f + k BY <1>3, <3>2, <4>1
        <4> QED BY <4>2
      <3> QED BY <1>15, <3>3, <3>4
    <2>2. ASSUME NEW x, x \in Range(s), x \notin Range(first) PROVE x \in Range(rest)
      <3>1. PICK k \in 1 .. l : s[k] = x BY <1>14, <2>2
      <3>2. ~(k \in 1 .. f)
        <4>1. ASSUME k \in 1 .. f PROVE FALSE BY <1>9, <1>15, <2>2, <3>1, <4>1
        <4> QED BY <4>1
      <3>3. PICK j \in 1 .. l - f : f + j = k
        <4>1. k - f \in 1 .. l - f /\ f + (k - f) = k BY <3>2
        <4> QED BY <4>1
      <3>4. rest[j] = x BY <1>11, <3>1, <3>3
      <3> QED BY <1>16, <3>4
    <2> QED BY <2>1, <2>2
  <1>19. n >= 0 => f <= n BY <1>5, <1>8
  <1>20. /\ first = First(s, n) /\ rest = SubSeq(s, Len(first) + 1, Len(s)) BY <1>1, <1>7, <1>9, <1>10
  <1> QED BY <1>9, <1>11, <1>12, <1>13, <1>17, <1>18, <1>19, <1>20 DEF ListOf

\* Some of a list, in its order.
LEMMA PickedOnce ==
  ASSUME NEW S, NEW s \in ListOf(S), NEW P \in SUBSET (1 .. Len(s))
  PROVE  /\ Picked(s, P) \in ListOf(S)
         /\ \A x : x \in Range(Picked(s, P)) <=> \E k \in P : s[k] = x
  <1>1. s \in Seq(S) /\ \A j, k \in 1 .. Len(s) : s[j] = s[k] => j = k BY DEF ListOf, Once
  <1>2. PICK o : o = InOrder(P) OBVIOUS
  <1>3. PICK p : p = Picked(s, P) OBVIOUS
  <1>4. PICK c \in Nat : c = Cardinality(P) BY <1>1, PickedType
  <1>5. /\ p \in Seq(S) /\ Len(p) = c
        /\ \A k \in 1 .. c : p[k] = s[o[k]]
        /\ \A k \in 1 .. c : o[k] \in P
        /\ \A k, l \in 1 .. c : o[k] = o[l] => k = l
        /\ \A i \in P : \E k \in 1 .. c : o[k] = i
    <2>1. /\ Picked(s, P) \in Seq(S) /\ Len(Picked(s, P)) = Cardinality(P)
          /\ \A k \in 1 .. Cardinality(P) : Picked(s, P)[k] = s[InOrder(P)[k]]
          /\ \A k \in 1 .. Cardinality(P) : InOrder(P)[k] \in P
          /\ \A k, l \in 1 .. Cardinality(P) : InOrder(P)[k] = InOrder(P)[l] => k = l
          /\ \A i \in P : \E k \in 1 .. Cardinality(P) : InOrder(P)[k] = i
      BY <1>1, PickedType
    <2> QED BY <1>2, <1>3, <1>4, <2>1
  <1>6. \A k \in 1 .. c : o[k] \in 1 .. Len(s) BY <1>5
  <1>7. \A j, k \in 1 .. c : p[j] = p[k] => j = k BY <1>1, <1>5, <1>6, SMTT(30)
  <1>8. \A x : x \in Range(p) <=> \E k \in 1 .. c : p[k] = x BY <1>5, Occurs
  <1>9. \A x : x \in Range(p) <=> \E k \in P : s[k] = x
    <2>1. ASSUME NEW x, NEW k \in 1 .. c, p[k] = x PROVE \E j \in P : s[j] = x
      <3>1. o[k] \in P /\ s[o[k]] = x BY <1>5, <2>1
      <3> QED BY <3>1
    <2>2. ASSUME NEW k \in P PROVE \E j \in 1 .. c : p[j] = s[k]
      <3>1. PICK j \in 1 .. c : o[j] = k BY <1>5
      <3> QED BY <1>5, <3>1
    <2> QED BY <1>8, <2>1, <2>2
  <1> QED BY <1>3, <1>5, <1>7, <1>9 DEF ListOf, Once

\* What Engine.retire and the like keep of a list.
LEMMA UnfinishedOf ==
  ASSUME NEW s \in ListOf(Requests)
  PROVE  /\ Unfinished(s) \in ListOf(Requests)
         /\ Range(Unfinished(s)) = {r \in Range(s) : ~finished[r]}
  <1>1. s \in Seq(Requests) BY DEF ListOf
  <1>2. DOMAIN s = 1 .. Len(s) BY <1>1, LenProperties
  <1>3. PICK P \in SUBSET (1 .. Len(s)) : P = {k \in DOMAIN s : ~finished[s[k]]} BY <1>2
  <1>4. Unfinished(s) = Picked(s, P) BY <1>3 DEF Unfinished
  <1>5. \A x : x \in Range(s) <=> \E k \in 1 .. Len(s) : s[k] = x BY <1>1, Occurs
  <1>6. \A x : x \in Range(Picked(s, P)) <=> \E k \in P : s[k] = x BY <1>3, PickedOnce
  <1>7. \A x : (\E k \in P : s[k] = x) <=> x \in Range(s) /\ ~finished[x] BY <1>2, <1>3, <1>5
  <1>8. Range(Picked(s, P)) = {r \in Range(s) : ~finished[r]} BY <1>6, <1>7
  <1> QED BY <1>3, <1>4, <1>8, PickedOnce

\* One list behind another.
LEMMA BehindOnce ==
  ASSUME NEW S, NEW s \in ListOf(S), NEW t \in ListOf(S), Range(s) \cap Range(t) = {}
  PROVE  /\ s \o t \in ListOf(S) /\ Range(s \o t) = Range(s) \cup Range(t)
         /\ Len(s \o t) = Len(s) + Len(t) /\ Len(s) \in Nat /\ Len(t) \in Nat
  <1>1. s \in Seq(S) /\ t \in Seq(S) BY DEF ListOf
  <1>2. /\ \A i, j \in 1 .. Len(s) : s[i] = s[j] => i = j
        /\ \A i, j \in 1 .. Len(t) : t[i] = t[j] => i = j
    BY DEF ListOf, Once
  <1>3. PICK u : u = s \o t OBVIOUS
  <1>4. /\ s \o t \in Seq(S) /\ Len(s \o t) = Len(s) + Len(t)
        /\ Range(s \o t) = Range(s) \cup Range(t)
        /\ \A i, j \in 1 .. Len(s \o t) : (s \o t)[i] = (s \o t)[j] => i = j
    BY <1>1, <1>2, OnceConcat
  <1>5. Once(u) BY <1>3, <1>4 DEF Once
  <1> QED BY <1>1, <1>3, <1>4, <1>5, LenProperties DEF ListOf

\* Nobody in a list is an empty list.
LEMMA EmptyRange ==
  ASSUME NEW S, NEW s \in ListOf(S)
  PROVE  /\ s = <<>> <=> Range(s) = {}
         /\ s = <<>> <=> Len(s) = 0
         /\ Len(s) \in Nat /\ Range(s) \subseteq S /\ IsFiniteSet(Range(s))
         /\ Len(s) <= 1 => \A x, y \in Range(s) : x = y
  <1>1. s \in Seq(S) BY DEF ListOf
  <1>2. \A x : x \in Range(s) <=> \E k \in 1 .. Len(s) : s[k] = x BY <1>1, Occurs
  <1>3. PICK l \in Nat : l = Len(s) BY <1>1, LenProperties
  <1>4. s = <<>> <=> l = 0 BY <1>1, <1>3, EmptySeq
  <1>5. l # 0 => 1 \in 1 .. l BY <1>3
  <1>6. l = 0 => 1 .. l = {} BY <1>3
  <1>7. \A k \in 1 .. l : s[k] \in S BY <1>1, <1>3, ElementOfSeq
  <1>8. l <= 1 => \A j, k \in 1 .. l : j = k BY <1>3
  <1>9. s = <<>> <=> Range(s) = {} BY <1>2, <1>3, <1>4, <1>5, <1>6
  <1>10. Range(s) \subseteq S BY <1>2, <1>3, <1>7
  <1>11. l <= 1 => \A x, y \in Range(s) : x = y BY <1>2, <1>3, <1>8
  <1>12. IsFiniteSet(Range(s)) BY <1>1, FiniteRange
  <1> QED BY <1>3, <1>4, <1>9, <1>10, <1>11, <1>12

--------------------------------------------------------------------------------
(* The invariant. *)

FleetTypes ==
    /\ kind \in Kinds
    /\ waiting \in [Replicas -> ListOf(Requests)] /\ running \in [Replicas -> ListOf(Requests)]
    /\ output \in [Requests -> Seq(Vocab)] /\ finished \in [Requests -> BOOLEAN]
    /\ total_slot_steps \in Nat /\ wasted_slot_steps \in Nat /\ transfers \in Nat
    /\ policy \in Policies /\ next \in Nat
    /\ policy = "prefix-affinity" =>
           home \in [{Prefix(r) : r \in Requests} -> Replicas] /\ max_imbalance \in Int
    /\ assignments \in [Replicas -> Nat] /\ placed \in [Requests -> Replicas \cup {0}]
    /\ loop \in {"open", "starting", "serving"} /\ index \in 0 .. Len(Trace)
    /\ in_flight \in Nat /\ reported \in Nat /\ raised \in BOOLEAN
    /\ loop = "open" => reported = 0

\* The lists of a replica: who waits has heard nothing, who runs has, and both
\* were sent to this replica.  A single engine lets go of its request at once.
Lists(i) ==
    /\ \A r \in Range(waiting[i]) : placed[r] = i /\ output[r] = <<>>
    /\ \A r \in Range(running[i]) : placed[r] = i /\ output[r] # <<>>
    /\ Single => Len(running[i]) <= 1 /\ \A r \in Range(running[i]) : ~finished[r]

\* Where a request is: with the replica it was sent to, until it is over.
Whereabouts(r) ==
    /\ placed[r] # 0 <=> r \in submitted
    /\ placed[r] = 0 => output[r] = <<>>
    /\ placed[r] # 0 /\ ~finished[r] =>
           r \in Range(waiting[placed[r]]) \cup Range(running[placed[r]])

\* What a request has heard, and what is cached for it.
Served(r) ==
    /\ finished[r] <=> output[r] # <<>> /\ EndsWith(r, output[r])
    /\ Len(output[r]) <= MaxTokens[r]
    /\ past[r] \in Seq(Range(past[r])) /\ (past[r] = <<>> <=> output[r] = <<>>)
    /\ output[r] # <<>> /\ ~finished[r] => past[r] = OwnCache(Front(AllTokens(r)))

\* Round-robin has gone round q times, and part of the way again.
Spread == policy = "round-robin" => \E q \in 0 .. next : \A i \in Replicas :
    assignments[i] = q + IF i <= next % Cardinality(Replicas) THEN 1 ELSE 0

Affine == policy = "prefix-affinity" /\ 100 * Cardinality(Replicas) <= max_imbalance =>
    \A r \in Requests : placed[r] \in {0, home[Prefix(r)]}

Assigned == \A i \in Replicas : assignments[i] = Count({r \in submitted : placed[r] = i})

InFlight == loop # "open" => /\ in_flight - reported = Count({r \in submitted : ~finished[r]})
                             /\ in_flight <= NWorkers

Said == [r \in Requests |-> Len(output[r])]

Slots == kind \in {"static-batch", "continuous-batch"} =>
    /\ total_slot_steps - wasted_slot_steps = SumFunctionOnSet(Said, Requests)
    /\ kind = "continuous-batch" => wasted_slot_steps = 0

Handoffs == kind = "disaggregated" => transfers = Count({r \in Requests : output[r] # <<>>})

Arranged == FleetTypes /\ (\A i \in Replicas : Lists(i)) /\ (\A r \in Requests : Whereabouts(r))

FleetInv == /\ Arranged /\ (\A r \in Requests : Served(r))
            /\ Spread /\ Affine /\ Assigned /\ InFlight /\ Slots /\ Handoffs
            /\ OverrunsOnlyStatic

--------------------------------------------------------------------------------
(* The requests, the replicas and the trace. *)

LEMMA ReplicasAre ==
  /\ Cardinality(Replicas) \in Nat \ {0} /\ Replicas = 1 .. Cardinality(Replicas)
  /\ Replicas \subseteq Nat \ {0} /\ IsFiniteSet(Replicas) /\ Replicas # {}
  <1>1. /\ IsFiniteSet(Replicas) /\ Replicas # {} /\ Replicas = 1 .. Cardinality(Replicas)
    BY ReplicaAssumption
  <1>2. Cardinality(Replicas) \in Nat /\ Cardinality(Replicas) # 0
    BY <1>1, FS_CardinalityType, FS_EmptySet
  <1>3. PICK n \in Nat \ {0} : n = Cardinality(Replicas) BY <1>2
  <1>4. \A i \in 1 .. n : i \in Nat \ {0} OBVIOUS
  <1>5. Replicas = 1 .. n BY <1>1, <1>3
  <1> QED BY <1>1, <1>2, <1>4, <1>5

LEMMA TraceOnce ==
  /\ IsFiniteSet(Requests) /\ Trace \in Seq(Requests) /\ Len(Trace) \in Nat
  /\ \A j, k \in 1 .. Len(Trace) : Trace[j] = Trace[k] => j = k
  /\ \A r : r \in Requests <=> \E k \in 1 .. Len(Trace) : Trace[k] = r
  <1>1. Trace \in Seq(Requests) /\ Range(Trace) = Requests /\ Len(Trace) = Cardinality(Requests)
    BY TraceAssumption
  <1>2. PICK n \in Nat : n = Len(Trace) BY <1>1, LenProperties
  <1>3. \A r : r \in Requests <=> \E k \in 1 .. n : Trace[k] = r BY <1>1, <1>2, Occurs
  <1>4. PICK f : f = [k \in 1 .. n |-> Trace[k]] OBVIOUS
  <1>5. f \in Surjection(1 .. n, Requests)
    <2>1. f \in [1 .. n -> Requests] BY <1>3, <1>4
    <2>2. \A r \in Requests : \E k \in 1 .. n : f[k] = r BY <1>3, <1>4
    <2> QED BY <2>1, <2>2 DEF Surjection
  <1>6. IsFiniteSet(1 .. n) /\ Cardinality(1 .. n) = n BY FS_Interval
  <1>7. f \in Injection(1 .. n, Requests) BY <1>1, <1>2, <1>5, <1>6, FS_SurjSameCardinalityImpliesInj
  <1>8. \A j, k \in 1 .. n : Trace[j] = Trace[k] => j = k BY <1>4, <1>7 DEF Injection, IsInjective
  <1>9. IsFiniteSet(Requests) BY <1>5, <1>6, FS_Surjection
  <1> QED BY <1>1, <1>2, <1>3, <1>8, <1>9

LEMMA BeginningOfTrace ==
  ASSUME NEW n \in 0 .. Len(Trace)
  PROVE  \A r : r \in Range(First(Trace, n)) <=> \E k \in 1 .. n : Trace[k] = r
  <1>1. PICK l \in Nat : l = Len(Trace) BY TraceOnce
  <1>2. Min({n, Len(Trace)}) = n BY <1>1, MinOfTwo
  <1>3. First(Trace, n) = SubSeq(Trace, 1, n) BY <1>2 DEF First
  <1>4. PICK b : b = SubSeq(Trace, 1, n) OBVIOUS
  <1>5. Trace \in Seq(Requests) BY TraceOnce
  <1>6. b \in Seq(Requests) /\ Len(b) = n /\ \A i \in 1 .. n : b[i] = Trace[i]
    BY <1>4, <1>5, Beginning
  <1>7. \A r : r \in Range(b) <=> \E k \in 1 .. Len(b) : b[k] = r BY <1>6, Occurs
  <1>8. \A r : r \in Range(b) <=> \E k \in 1 .. n : Trace[k] = r BY <1>6, <1>7
  <1> QED BY <1>3, <1>4, <1>8

\* The request submitted next is a new one.
LEMMA NextInTrace ==
  ASSUME FleetTypes, pending # <<>>, index' = index + 1
  PROVE  /\ Head(pending) \in Requests /\ Head(pending) \notin submitted
         /\ submitted' = submitted \cup {Head(pending)} /\ index' \in 0 .. Len(Trace)
  <1>1. PICK l \in Nat : l = Len(Trace) BY TraceOnce
  <1>2. PICK n \in 0 .. l : n = index BY <1>1 DEF FleetTypes
  <1>3. n < l /\ pending[1] = Trace[n + 1]
    <2>1. \A k \in n + 1 .. l : Trace[k] \in Requests BY <1>1, TraceOnce, ElementOfSeq
    <2>2. pending = SubSeq(Trace, n + 1, l) BY <1>1, <1>2 DEF pending
    <2>3. /\ pending \in Seq(Requests) /\ Len(pending) = IF n + 1 <= l THEN l - (n + 1) + 1 ELSE 0
          /\ \A k \in 1 .. l - (n + 1) + 1 : pending[k] = Trace[n + 1 + k - 1]
      BY <2>1, <2>2, SubSeqProperties
    <2>4. Len(pending) # 0 BY <2>3, EmptySeq
    <2>5. n < l BY <2>3, <2>4
    <2>6. 1 \in 1 .. l - (n + 1) + 1 /\ n + 1 + 1 - 1 = n + 1 BY <2>5
    <2> QED BY <2>3, <2>5, <2>6
  <1>4. PICK r : r = Trace[n + 1] OBVIOUS
  <1>5. Head(pending) = r
    <2>1. Head(pending) = pending[1] OBVIOUS
    <2> QED BY <1>3, <1>4, <2>1
  <1>6. n + 1 \in 1 .. l /\ n + 1 \in 0 .. l BY <1>3
  <1>7. r \in Requests BY <1>1, <1>4, <1>6, TraceOnce
  <1>8. \A x : x \in submitted <=> \E k \in 1 .. n : Trace[k] = x
    <2>1. submitted = Range(First(Trace, n)) BY <1>2 DEF submitted
    <2> QED BY <1>1, <2>1, BeginningOfTrace
  <1>9. \A x : x \in submitted' <=> \E k \in 1 .. n + 1 : Trace[k] = x
    <2>1. submitted' = Range(First(Trace, n + 1)) BY <1>2 DEF submitted
    <2>2. n + 1 \in 0 .. Len(Trace) BY <1>1, <1>6
    <2> QED BY <2>1, <2>2, BeginningOfTrace
  <1>10. \A k \in 1 .. n + 1 : k \in 1 .. n \/ k = n + 1 OBVIOUS
  <1>11. \A k \in 1 .. n : k \in 1 .. n + 1 OBVIOUS
  <1>12. n + 1 \in 1 .. n + 1 OBVIOUS
  <1>13. submitted' = submitted \cup {r} BY <1>4, <1>8, <1>9, <1>10, <1>11, <1>12
  <1>14. r \notin submitted
    <2>1. ASSUME NEW k \in 1 .. n, Trace[k] = r PROVE FALSE
      <3>1. k \in 1 .. l /\ k # n + 1 BY <1>3
      <3> QED BY <1>1, <1>4, <1>6, <2>1, <3>1, TraceOnce
    <2> QED BY <1>8, <2>1
  <1>15. index' = n + 1 BY <1>2
  <1> QED BY <1>1, <1>5, <1>6, <1>7, <1>13, <1>14, <1>15

--------------------------------------------------------------------------------
(* Costs and loads, and who is chosen by them. *)

\* What a request is taken to cost, and what a set of them is.
LEMMA CostsAre ==
  ASSUME FleetTypes
  PROVE  \E cost \in [Requests -> Nat] :
             /\ \A r \in Requests : cost[r] = Cost(r)
             /\ \A S \in SUBSET Requests : CostOf(S) = SumFunctionOnSet(cost, S)
  <1>1. PICK cost : cost = [r \in Requests |-> Cost(r)] OBVIOUS
  <1>2. ASSUME NEW r \in Requests PROVE Cost(r) \in Nat
    <2>1. PICK p \in Nat : p = Len(Prompt[r])
      <3>1. Prompt[r] \in Seq(Vocab \cup {PadToken}) BY ReplicaAssumption
      <3> QED BY <3>1, LenProperties
    <2>2. PICK o \in Nat : o = Len(output[r])
      <3>1. output[r] \in Seq(Vocab) BY DEF FleetTypes
      <3> QED BY <3>1, LenProperties
    <2>3. PICK m \in Nat : m = MaxTokens[r] BY ReplicaAssumption
    <2>4. PICK d \in Int : d = m - o OBVIOUS
    <2>5. Max({d, 0}) = IF d <= 0 THEN 0 ELSE d BY MaxOfTwo
    <2>6. Cost(r) = p + Max({d, 0}) BY <2>1, <2>2, <2>3, <2>4 DEF Cost
    <2> QED BY <2>5, <2>6
  <1>3. cost \in [Requests -> Nat] /\ \A r \in Requests : cost[r] = Cost(r) BY <1>1, <1>2
  <1>4. ASSUME NEW S \in SUBSET Requests PROVE CostOf(S) = SumFunctionOnSet(cost, S)
    <2>1. PICK part : part = [r \in S |-> Cost(r)] OBVIOUS
    <2>2. CostOf(S) = SumFunctionOnSet(part, S)
      <3>1. DOMAIN part = S BY <2>1
      <3>2. CostOf(S) = SumFunction(part) BY <2>1 DEF CostOf
      <3> QED BY <3>1, <3>2 DEF SumFunction
    <2>3. IsFiniteSet(S) BY TraceOnce, FS_Subset
    <2>4. \A r \in S : part[r] = cost[r] BY <1>1, <2>1
    <2> QED BY <2>2, <2>3, <2>4, SumSame
  <1> QED BY <1>3, <1>4

LEMMA CostOfType ==
  ASSUME FleetTypes, NEW S \in SUBSET Requests
  PROVE  CostOf(S) \in Nat
  <1>1. PICK cost \in [Requests -> Nat] : CostOf(S) = SumFunctionOnSet(cost, S) BY CostsAre
  <1>2. cost \in [Requests -> Int] /\ \A x \in S : cost[x] >= 0 OBVIOUS
  <1>3. IsFiniteSet(Requests) BY TraceOnce
  <1>4. SumFunctionOnSet(cost, S) \in Nat BY <1>2, <1>3, SumNat
  <1> QED BY <1>1, <1>4

\* What the router sees of a single engine: the prompt of its request.
LEMMA PromptsType ==
  ASSUME NEW S \in SUBSET Requests
  PROVE  SumFunction([r \in S |-> Len(Prompt[r])]) \in Nat
  <1>1. PICK part : part = [r \in S |-> Len(Prompt[r])] OBVIOUS
  <1>2. \A r \in S : Len(Prompt[r]) \in Nat
    <2>1. \A r \in S : Prompt[r] \in Seq(Vocab \cup {PadToken}) BY ReplicaAssumption
    <2> QED BY <2>1, LenProperties
  <1>3. part \in [S -> Int] /\ DOMAIN part = S /\ \A r \in S : part[r] >= 0 BY <1>1, <1>2
  <1>4. IsFiniteSet(S) BY TraceOnce, FS_Subset
  <1>5. SumFunctionOnSet(part, S) \in Nat BY <1>3, <1>4, SumNat
  <1> QED BY <1>1, <1>3, <1>5 DEF SumFunction

LEMMA LoadType ==
  ASSUME FleetTypes, NEW i \in Replicas
  PROVE  Load(i) \in Nat
  <1>1. Range(waiting[i]) \in SUBSET Requests /\ Range(running[i]) \in SUBSET Requests
    <2>1. waiting[i] \in ListOf(Requests) /\ running[i] \in ListOf(Requests) BY DEF FleetTypes
    <2> QED BY <2>1, EmptyRange
  <1>2. CostOf(Range(waiting[i])) \in Nat /\ CostOf(Range(running[i])) \in Nat BY <1>1, CostOfType
  <1>3. SumFunction([r \in Range(running[i]) |-> Len(Prompt[r])]) \in Nat BY <1>1, PromptsType
  <1>4. PICK e \in Nat : e = CASE Single -> SumFunction([r \in Range(running[i]) |-> Len(Prompt[r])])
                               [] kind = "disaggregated" -> 0
                               [] OTHER -> CostOf(Range(running[i]))
    BY <1>2, <1>3
  <1>5. Load(i) = CostOf(Range(waiting[i])) + e BY <1>4 DEF Load
  <1> QED BY <1>2, <1>5

\* min(range(n), key = load) finds a replica.
LEMMA LeastLoadedIs ==
  ASSUME FleetTypes
  PROVE  LeastLoaded \in Replicas
  <1>1. PICK load : load = [i \in Replicas |-> Load(i)] OBVIOUS
  <1>2. \A i \in Replicas : load[i] = Load(i) /\ load[i] \in Nat BY <1>1, LoadType
  <1>3. PICK L : L = {load[i] : i \in Replicas} OBVIOUS
  <1>4. L \in SUBSET Nat /\ L # {} BY <1>2, <1>3, ReplicasAre
  <1>5. PICK m \in L : \A l \in L : m <= l BY <1>4, LeastNumber
  <1>6. PICK I : I = {i \in Replicas : load[i] = m} OBVIOUS
  <1>7. I \in SUBSET Nat /\ I # {}
    <2>1. PICK i \in Replicas : load[i] = m BY <1>3
    <2> QED BY <1>6, <2>1, ReplicasAre
  <1>8. PICK i \in I : \A j \in I : i <= j BY <1>7, LeastNumber
  <1>9. i \in Replicas /\ load[i] = m BY <1>6
  <1>10. ASSUME NEW j \in Replicas PROVE Load(i) < Load(j) \/ (Load(i) = Load(j) /\ i <= j)
    <2>1. load[j] \in L /\ load[j] \in Nat /\ m \in Nat BY <1>2, <1>3, <1>4
    <2>2. m <= load[j] BY <1>5, <2>1
    <2>3. load[j] = m => i <= j BY <1>6, <1>8
    <2>4. Load(i) = m /\ Load(j) = load[j] BY <1>2, <1>9
    <2> QED BY <2>1, <2>2, <2>3, <2>4
  <1> QED BY <1>9, <1>10 DEF LeastLoaded

LEMMA SelectType ==
  ASSUME FleetTypes, NEW r \in Requests
  PROVE  Select(r) \in Replicas
  <1>1. CASE policy = "round-robin"
    <2>1. PICK n \in Nat \ {0} : n = Cardinality(Replicas) /\ Replicas = 1 .. n BY ReplicasAre
    <2>2. next \in Nat BY DEF FleetTypes
    <2>3. PICK k \in 0 .. n - 1 : k = next % n BY <2>2
    <2>4. Select(r) = 1 + k BY <1>1, <2>1, <2>3 DEF Select
    <2>5. 1 + k \in 1 .. n OBVIOUS
    <2> QED BY <2>1, <2>4, <2>5
  <1>2. CASE policy = "least-tokens" BY <1>2, LeastLoadedIs DEF Select
  <1>3. CASE policy = "prefix-affinity"
    <2>1. home[Prefix(r)] \in Replicas BY <1>3 DEF FleetTypes
    <2> QED BY <1>3, <2>1, LeastLoadedIs DEF Select
  <1>4. policy \in {"round-robin", "least-tokens", "prefix-affinity"} BY RouterAssumption DEF FleetTypes
  <1> QED BY <1>1, <1>2, <1>3, <1>4

--------------------------------------------------------------------------------
(* A request is submitted. *)

\* A replica has at most the load of the fleet, so that no load is too hot for a
\* factor that is not below the number of replicas.
LEMMA NeverHot ==
  ASSUME FleetTypes, NEW i \in Replicas, max_imbalance \in Int,
         100 * Cardinality(Replicas) <= max_imbalance
  PROVE  ~TooHot(i)
  <1>1. PICK load : load = [j \in Replicas |-> Load(j)] OBVIOUS
  <1>2. DOMAIN load = Replicas /\ load \in [Replicas -> Int] /\ \A j \in Replicas : load[j] >= 0
    BY <1>1, LoadType
  <1>3. PICK total : total = SumFunctionOnSet(load, Replicas) OBVIOUS
  <1>4. IsFiniteSet(Replicas) BY ReplicasAre
  <1>5. load[i] <= total BY <1>2, <1>3, <1>4, SumTerm
  <1>6. total \in Nat BY <1>2, <1>3, <1>4, SumNat
  <1>7. PICK l \in Nat : l = Load(i) /\ l <= total BY <1>1, <1>5, LoadType
  <1>8. PICK m \in Nat, n \in Nat : m = Cardinality(Replicas) /\ n = 100 * m BY ReplicasAre
  <1>9. PICK f \in Int : f = max_imbalance /\ n <= f BY <1>8
  <1>10. TooHot(i) <=> total > 0 /\ l * n > f * total
    <2>1. SumFunction([j \in Replicas |-> Load(j)]) = total BY <1>1, <1>2, <1>3 DEF SumFunction
    <2>2. TooHot(i) <=> total > 0 /\ l * 100 * m > f * total BY <1>7, <1>8, <1>9, <2>1 DEF TooHot
    <2>3. l * 100 * m = l * (100 * m) BY <1>7, <1>8
    <2> QED BY <1>8, <2>2, <2>3
  <1>11. l * n <= total * n BY <1>6, <1>7
  <1>12. n * total <= f * total BY <1>6, <1>9
  <1>13. PICK a \in Int, b \in Int, c \in Int : a = l * n /\ b = total * n /\ c = f * total
    BY <1>6
  <1>14. n * total = b BY <1>6, <1>13
  <1>15. a <= b /\ b <= c BY <1>11, <1>12, <1>13, <1>14
  <1>16. ~(l * n > f * total) BY <1>13, <1>15
  <1> QED BY <1>10, <1>16

\* The numbers in a circle.
LEMMA GoRound ==
  ASSUME NEW n \in Nat \ {0}, NEW m \in Nat
  PROVE  m % n \in 0 .. n - 1 /\ (m + 1) % n = IF (m % n) + 1 = n THEN 0 ELSE (m % n) + 1
  <1>1. PICK d \in Int, k \in 0 .. n - 1 : m = n * d + k /\ k = m % n
    <2>1. m = n * (m \div n) + (m % n) OBVIOUS
    <2>2. m \div n \in Int OBVIOUS
    <2>3. m % n \in 0 .. n - 1 OBVIOUS
    <2> QED BY <2>1, <2>2, <2>3
  <1>2. PICK e \in Int, l \in 0 .. n - 1 : m + 1 = n * e + l /\ l = (m + 1) % n
    <2>1. PICK p \in Nat : p = m + 1 OBVIOUS
    <2>2. p = n * (p \div n) + (p % n) OBVIOUS
    <2>3. p \div n \in Int OBVIOUS
    <2>4. p % n \in 0 .. n - 1 OBVIOUS
    <2> QED BY <2>1, <2>2, <2>3, <2>4
  <1>3. PICK x \in Int : x = e - d /\ e = d + x OBVIOUS
  <1>4. n * e = n * d + n * x BY <1>3
  <1>5. PICK y \in Int : y = n * x OBVIOUS
  <1>6. y = k + 1 - l
    <2>1. PICK a \in Int, b \in Int : a = n * d /\ b = n * e OBVIOUS
    <2> QED BY <1>1, <1>2, <1>4, <1>5, <2>1
  <1>7. x <= 0 \/ x >= 1 OBVIOUS
  <1>8. CASE x <= -1
    <2>1. n * x <= -n BY <1>8
    <2>2. FALSE BY <1>5, <1>6, <2>1
    <2> QED BY <2>2
  <1>9. CASE x = 0
    <2>1. y = 0 BY <1>5, <1>9
    <2>2. l = k + 1 BY <1>6, <2>1
    <2> QED BY <1>1, <1>2, <2>2
  <1>10. CASE x >= 1
    <2>1. y >= n BY <1>5, <1>10
    <2>2. k + 1 = n /\ l = 0 BY <1>6, <2>1
    <2> QED BY <1>1, <1>2, <2>2
  <1> QED BY <1>8, <1>9, <1>10

\* What submitting does, with the request and its replica named.
Submitted(r, i) ==
    /\ r \in Requests /\ i \in Replicas /\ i = Select(r)
    /\ r \notin submitted /\ placed[r] = 0 /\ output[r] = <<>> /\ finished[r] = FALSE
    /\ \A j \in Replicas : r \notin Range(waiting[j]) /\ r \notin Range(running[j])
    /\ submitted' = submitted \cup {r} /\ index' \in 0 .. Len(Trace)
    /\ next' = IF policy = "round-robin" THEN next + 1 ELSE next
    /\ assignments' = [assignments EXCEPT ![i] = @ + 1]
    /\ placed' = [placed EXCEPT ![r] = i]
    /\ waiting' \in [Replicas -> ListOf(Requests)]
    /\ \A j \in Replicas : Range(waiting'[j]) = Range(waiting[j]) \cup IF j = i THEN {r} ELSE {}
    /\ UNCHANGED <<kind, running, requestVars, counters, policy, home, max_imbalance>>

LEMMA SubmitDoes ==
  ASSUME Arranged, \A r \in Requests : Served(r), Submit
  PROVE  \E r, i : Submitted(r, i)
  <1>1. FleetTypes /\ (\A i \in Replicas : Lists(i)) /\ (\A r \in Requests : Whereabouts(r))
    BY DEF Arranged
  <1>2. PICK r : r = Head(pending) OBVIOUS
  <1>3. /\ r \in Requests /\ r \notin submitted
        /\ submitted' = submitted \cup {r} /\ index' \in 0 .. Len(Trace)
    <2>1. pending # <<>> /\ index' = index + 1 BY DEF Submit
    <2> QED BY <1>1, <1>2, <2>1, NextInTrace
  <1>4. PICK i \in Replicas : i = Select(r) BY <1>1, <1>3, SelectType
  <1>5. /\ next' = IF policy = "round-robin" THEN next + 1 ELSE next
        /\ assignments' = [assignments EXCEPT ![i] = @ + 1]
        /\ placed' = [placed EXCEPT ![r] = i]
        /\ waiting' = [waiting EXCEPT ![i] = Append(@, r)]
        /\ UNCHANGED <<kind, running, requestVars, counters, policy, home, max_imbalance>>
    BY <1>2, <1>4 DEF Submit, AddRequest
  <1>6. placed[r] = 0 /\ output[r] = <<>> /\ finished[r] = FALSE
    <2>1. Whereabouts(r) /\ Served(r) BY <1>1, <1>3
    <2>2. placed[r] = 0 BY <1>3, <2>1 DEF Whereabouts
    <2>3. output[r] = <<>> BY <2>1, <2>2 DEF Whereabouts
    <2>4. ~finished[r] BY <2>1, <2>3 DEF Served
    <2>5. finished[r] \in BOOLEAN BY <1>1, <1>3 DEF FleetTypes
    <2> QED BY <2>2, <2>3, <2>4, <2>5
  <1>7. \A j \in Replicas : r \notin Range(waiting[j]) /\ r \notin Range(running[j])
    <2>1. \A j \in Replicas : j # 0 BY ReplicasAre
    <2> QED BY <1>1, <1>6, <2>1 DEF Lists
  <1>8. ASSUME NEW j \in Replicas
        PROVE  /\ waiting'[j] \in ListOf(Requests)
               /\ Range(waiting'[j]) = Range(waiting[j]) \cup IF j = i THEN {r} ELSE {}
    <2>1. waiting[j] \in ListOf(Requests) BY <1>1 DEF FleetTypes
    <2>2. CASE j = i
      <3>1. waiting'[j] = Append(waiting[j], r) BY <1>1, <1>5, <2>2 DEF FleetTypes
      <3>2. PICK s \in ListOf(Requests) : s = waiting[j] BY <2>1
      <3>3. Append(s, r) = s \o <<r>> BY <1>3, AppendIsConcat DEF ListOf
      <3>4. PICK t \in ListOf(Requests) : t = <<r>> /\ Range(t) = {r}
        <4>1. /\ <<r>> \in Seq(Requests) /\ Range(<<r>>) = {r}
              /\ \A k, l \in 1 .. Len(<<r>>) : <<r>>[k] = <<r>>[l] => k = l
          BY <1>3, OnlyOne
        <4>2. Once(<<r>>) BY <4>1 DEF Once
        <4> QED BY <4>1, <4>2 DEF ListOf
      <3>5. Range(s) \cap Range(t) = {} BY <1>7, <3>2, <3>4
      <3>6. s \o t \in ListOf(Requests) /\ Range(s \o t) = Range(s) \cup Range(t) BY <3>5, BehindOnce
      <3>7. waiting'[j] = s \o t BY <3>1, <3>2, <3>3, <3>4
      <3> QED BY <2>2, <3>2, <3>4, <3>6, <3>7
    <2>3. CASE j # i
      <3>1. waiting'[j] = waiting[j] BY <1>1, <1>5, <2>3 DEF FleetTypes
      <3> QED BY <2>1, <2>3, <3>1
    <2> QED BY <2>2, <2>3
  <1>9. waiting' \in [Replicas -> ListOf(Requests)]
    <2>1. waiting' = [j \in Replicas |-> waiting'[j]] BY <1>1, <1>5 DEF FleetTypes
    <2> QED BY <1>8, <2>1
  <1> QED BY <1>3, <1>4, <1>5, <1>6, <1>7, <1>8, <1>9 DEF Submitted

\* The lists, the counts of the router and what is said, after a submission.
LEMMA SubmitLists ==
  ASSUME Arranged, NEW r, NEW i, Submitted(r, i)
  PROVE  (\A j \in Replicas : Lists(j)') /\ (\A x \in Requests : Whereabouts(x)')
  <1>1. FleetTypes /\ (\A j \in Replicas : Lists(j)) /\ (\A x \in Requests : Whereabouts(x))
    BY DEF Arranged
  <1>2. /\ kind' = kind /\ running' = running /\ output' = output /\ finished' = finished
        /\ placed' = [placed EXCEPT ![r] = i]
    BY DEF Submitted, requestVars
  <1>3. \A x \in Requests : placed'[x] = IF x = r THEN i ELSE placed[x]
    BY <1>1, <1>2 DEF Submitted, FleetTypes
  <1>4. \A j \in Replicas : Range(waiting'[j]) = Range(waiting[j]) \cup IF j = i THEN {r} ELSE {}
    BY DEF Submitted
  <1>5. r \in Requests /\ i \in Replicas /\ i # 0 /\ output[r] = <<>> /\ placed[r] = 0 /\ r \notin submitted
    BY ReplicasAre DEF Submitted
  <1>6. ASSUME NEW j \in Replicas PROVE Lists(j)'
    <2>0. r \notin Range(waiting[j]) /\ r \notin Range(running[j]) BY DEF Submitted
    <2>1. Range(waiting[j]) \subseteq Requests /\ Range(running[j]) \subseteq Requests
      <3>1. waiting[j] \in ListOf(Requests) /\ running[j] \in ListOf(Requests) BY <1>1 DEF FleetTypes
      <3> QED BY <3>1, EmptyRange
    <2>2. \A x \in Range(waiting'[j]) : placed'[x] = j /\ output'[x] = <<>>
      <3>1. \A x \in Range(waiting[j]) : placed[x] = j /\ output[x] = <<>> BY <1>1 DEF Lists
      <3> QED BY <1>2, <1>3, <1>4, <1>5, <2>0, <2>1, <3>1
    <2>3. \A x \in Range(running'[j]) : placed'[x] = j /\ output'[x] # <<>>
      <3>1. \A x \in Range(running[j]) : placed[x] = j /\ output[x] # <<>> BY <1>1 DEF Lists
      <3> QED BY <1>2, <1>3, <2>0, <2>1, <3>1
    <2>4. Single' => Len(running'[j]) <= 1 /\ \A x \in Range(running'[j]) : ~finished'[x]
      BY <1>1, <1>2 DEF Lists, Single
    <2> QED BY <2>2, <2>3, <2>4 DEF Lists
  <1>7. ASSUME NEW x \in Requests PROVE Whereabouts(x)'
    <2>1. Whereabouts(x) BY <1>1
    <2>2. submitted' = submitted \cup {r} BY DEF Submitted
    <2>3. CASE x = r
      <3>1. placed'[x] = i BY <1>3, <2>3
      <3>2. x \in Range(waiting'[i]) BY <1>4, <1>5, <2>3
      <3> QED BY <1>5, <2>2, <2>3, <3>1, <3>2 DEF Whereabouts
    <2>4. CASE x # r
      <3>1. placed'[x] = placed[x] BY <1>3, <2>4
      <3>2. placed[x] # 0 => placed[x] \in Replicas BY <1>1 DEF FleetTypes
      <3>3. placed[x] # 0 => Range(waiting[placed[x]]) \subseteq Range(waiting'[placed[x]])
        BY <1>4, <3>2
      <3> QED BY <1>2, <2>1, <2>2, <2>4, <3>1, <3>3 DEF Whereabouts
    <2> QED BY <2>3, <2>4
  <1> QED BY <1>6, <1>7

LEMMA SubmitSpread ==
  ASSUME FleetTypes, Spread, NEW r, NEW i, Submitted(r, i)
  PROVE  Spread'
  <1> SUFFICES ASSUME policy = "round-robin"
      PROVE  \E q \in 0 .. next' : \A j \in Replicas :
                 assignments'[j] = q + IF j <= next' % Cardinality(Replicas) THEN 1 ELSE 0
    BY DEF Spread, Submitted
  <1>1. PICK n \in Nat \ {0} : n = Cardinality(Replicas) /\ Replicas = 1 .. n BY ReplicasAre
  <1>2. PICK m \in Nat : m = next /\ next' = m + 1 BY DEF FleetTypes, Submitted
  <1>3. PICK k \in 0 .. n - 1 : k = m % n /\ (m + 1) % n = IF k + 1 = n THEN 0 ELSE k + 1
    BY GoRound
  <1>4. i = k + 1
    <2>1. i = 1 + (next % Cardinality(Replicas)) BY DEF Submitted, Select
    <2>2. i = 1 + (m % n) BY <1>1, <1>2, <2>1
    <2> QED BY <1>3, <2>2
  <1>5. PICK q \in 0 .. m : \A j \in 1 .. n : assignments[j] = q + IF j <= k THEN 1 ELSE 0
    BY <1>1, <1>2, <1>3 DEF Spread
  <1>6. \A j \in 1 .. n : assignments'[j] = IF j = i THEN assignments[j] + 1 ELSE assignments[j]
    BY <1>1 DEF Submitted, FleetTypes
  <1>7. CASE k + 1 = n
    <2>1. \A j \in 1 .. n : assignments'[j] = (q + 1) + IF j <= 0 THEN 1 ELSE 0
      BY <1>4, <1>5, <1>6, <1>7
    <2>2. q + 1 \in 0 .. m + 1 OBVIOUS
    <2> QED BY <1>1, <1>2, <1>3, <1>7, <2>1, <2>2
  <1>8. CASE k + 1 # n
    <2>1. \A j \in 1 .. n : assignments'[j] = q + IF j <= k + 1 THEN 1 ELSE 0
      BY <1>4, <1>5, <1>6, <1>8
    <2>2. q \in 0 .. m + 1 OBVIOUS
    <2> QED BY <1>1, <1>2, <1>3, <1>8, <2>1, <2>2
  <1> QED BY <1>7, <1>8

LEMMA SubmitAffine ==
  ASSUME FleetTypes, Affine, NEW r, NEW i, Submitted(r, i)
  PROVE  Affine'
  <1> SUFFICES ASSUME policy = "prefix-affinity", 100 * Cardinality(Replicas) <= max_imbalance,
                      NEW x \in Requests
      PROVE  placed'[x] \in {0, home[Prefix(x)]}
    BY DEF Affine, Submitted
  <1>1. placed'[x] = IF x = r THEN i ELSE placed[x] BY DEF Submitted, FleetTypes
  <1>2. placed[x] \in {0, home[Prefix(x)]} BY DEF Affine
  <1>3. r \in Requests /\ i = Select(r) BY DEF Submitted
  <1>4. home[Prefix(r)] \in Replicas /\ max_imbalance \in Int BY <1>3 DEF FleetTypes
  <1>5. ~TooHot(home[Prefix(r)]) BY <1>4, NeverHot
  <1>6. Select(r) = home[Prefix(r)] BY <1>5 DEF Select
  <1> QED BY <1>1, <1>2, <1>3, <1>6

\* Somebody new in a set of requests.
LEMMA OneMore ==
  ASSUME NEW A \in SUBSET Requests, NEW r \in Requests, r \notin A
  PROVE  Count(A \cup {r}) = Count(A) + 1 /\ Count(A) \in Nat
  <1>1. IsFiniteSet(A) BY TraceOnce, FS_Subset
  <1> QED BY <1>1, FS_AddElement, FS_CardinalityType DEF Count

LEMMA SubmittedType ==
  ASSUME FleetTypes
  PROVE  submitted \in SUBSET Requests
  <1>1. index \in 0 .. Len(Trace) BY DEF FleetTypes
  <1>2. \A r : r \in Range(First(Trace, index)) <=> \E k \in 1 .. index : Trace[k] = r
    BY <1>1, BeginningOfTrace
  <1>3. \A k \in 1 .. index : k \in 1 .. Len(Trace) BY <1>1, TraceOnce
  <1> QED BY <1>2, <1>3, TraceOnce DEF submitted

LEMMA SubmitLedgers ==
  ASSUME FleetTypes, Assigned, NEW r, NEW i, Submitted(r, i)
  PROVE  /\ Assigned'
         /\ Count({x \in submitted' : ~finished'[x]}) = Count({x \in submitted : ~finished[x]}) + 1
  <1>1. submitted' = submitted \cup {r} /\ r \in Requests /\ r \notin submitted /\ i \in Replicas
    BY DEF Submitted
  <1>2. submitted \in SUBSET Requests BY SubmittedType
  <1>3. \A x \in Requests : placed'[x] = IF x = r THEN i ELSE placed[x] BY DEF Submitted, FleetTypes
  <1>4. \A j \in Replicas : assignments'[j] = IF j = i THEN assignments[j] + 1 ELSE assignments[j]
    BY DEF Submitted, FleetTypes
  <1>5. ASSUME NEW j \in Replicas PROVE assignments'[j] = Count({x \in submitted' : placed'[x] = j})
    <2>1. PICK A \in SUBSET Requests : A = {x \in submitted : placed[x] = j} BY <1>2
    <2>2. PICK B : B = {x \in submitted' : placed'[x] = j} OBVIOUS
    <2>3. assignments[j] = Count(A) BY <2>1 DEF Assigned
    <2>4. r \notin A BY <1>1, <2>1
    <2>5. CASE j = i
      <3>1. B = A \cup {r} BY <1>1, <1>2, <1>3, <2>1, <2>2, <2>5
      <3>2. Count(A \cup {r}) = Count(A) + 1 BY <1>1, <2>4, OneMore
      <3> QED BY <1>4, <2>2, <2>3, <2>5, <3>1, <3>2
    <2>6. CASE j # i
      <3>1. B = A BY <1>1, <1>2, <1>3, <2>1, <2>2, <2>6
      <3> QED BY <1>4, <2>2, <2>3, <2>6, <3>1
    <2> QED BY <2>5, <2>6
  <1>6. Count({x \in submitted' : ~finished'[x]}) = Count({x \in submitted : ~finished[x]}) + 1
    <2>1. PICK A \in SUBSET Requests : A = {x \in submitted : ~finished[x]} BY <1>2
    <2>2. PICK B : B = {x \in submitted' : ~finished'[x]} OBVIOUS
    <2>3. finished' = finished /\ finished[r] = FALSE BY DEF Submitted, requestVars
    <2>4. B = A \cup {r} BY <1>1, <2>1, <2>2, <2>3
    <2>5. r \notin A BY <1>1, <2>1
    <2>6. Count(A \cup {r}) = Count(A) + 1 BY <1>1, <2>5, OneMore
    <2> QED BY <2>1, <2>2, <2>4, <2>6
  <1> QED BY <1>5, <1>6 DEF Assigned

LEMMA SubmitStep ==
  ASSUME FleetInv, Submit, loop' = loop, raised' = raised, in_flight' \in Nat, reported' \in Nat,
         loop = "open" => reported' = 0,
         loop # "open" => /\ in_flight' - reported' = in_flight - reported + 1
                          /\ in_flight' <= NWorkers
  PROVE  FleetInv'
  <1>1. /\ Arranged /\ FleetTypes /\ (\A x \in Requests : Served(x))
        /\ Spread /\ Affine /\ Assigned /\ InFlight /\ Slots /\ Handoffs /\ OverrunsOnlyStatic
    BY DEF FleetInv, Arranged
  <1>2. PICK r, i : Submitted(r, i) BY <1>1, SubmitDoes
  <1>3. /\ UNCHANGED <<kind, running, requestVars, counters, policy, home, max_imbalance>>
        /\ r \in Requests /\ i \in Replicas
    BY <1>2 DEF Submitted
  <1>4. FleetTypes'
    <2>1. waiting' \in [Replicas -> ListOf(Requests)] /\ index' \in 0 .. Len(Trace)
      BY <1>2 DEF Submitted
    <2>2. next' \in Nat BY <1>1, <1>2 DEF Submitted, FleetTypes
    <2>3. assignments' \in [Replicas -> Nat]
      <3>1. assignments' = [assignments EXCEPT ![i] = @ + 1] BY <1>2 DEF Submitted
      <3> QED BY <1>1, <1>3, <3>1 DEF FleetTypes
    <2>4. placed' \in [Requests -> Replicas \cup {0}]
      <3>1. placed' = [placed EXCEPT ![r] = i] BY <1>2 DEF Submitted
      <3> QED BY <1>1, <1>3, <3>1 DEF FleetTypes
    <2> QED BY <1>1, <1>3, <2>1, <2>2, <2>3, <2>4 DEF FleetTypes, requestVars, counters
  <1>5. Arranged' BY <1>1, <1>2, <1>4, SubmitLists DEF Arranged
  <1>6. \A x \in Requests : Served(x)'
    <2>1. output' = output /\ finished' = finished /\ past' = past BY <1>3 DEF requestVars
    <2> QED BY <1>1, <2>1 DEF Served, AllTokens
  <1>7. Spread' /\ Affine' /\ Assigned'
    BY <1>1, <1>2, SubmitSpread, SubmitAffine, SubmitLedgers
  <1>8. InFlight'
    <2>1. Count({x \in submitted' : ~finished'[x]}) = Count({x \in submitted : ~finished[x]}) + 1
      BY <1>1, <1>2, SubmitLedgers
    <2> QED BY <1>1, <2>1 DEF InFlight
  <1>9. Slots' /\ Handoffs' /\ OverrunsOnlyStatic'
    <2>1. kind' = kind /\ output' = output /\ total_slot_steps' = total_slot_steps
          /\ wasted_slot_steps' = wasted_slot_steps /\ transfers' = transfers
      BY <1>3 DEF requestVars, counters
    <2>2. Said' = Said BY <2>1 DEF Said
    <2> QED BY <1>1, <2>1, <2>2 DEF Slots, Handoffs, OverrunsOnlyStatic
  <1> QED BY <1>5, <1>6, <1>7, <1>8, <1>9 DEF FleetInv

\* What the driver does with its own counts.
LEMMA DriverStep ==
  ASSUME FleetInv, UNCHANGED <<replicaVars, routerVars, index>>,
         loop' \in {"open", "starting", "serving"}, in_flight' \in Nat, reported' \in Nat,
         raised' \in BOOLEAN, loop' = "open" => reported' = 0,
         loop' # "open" => /\ in_flight' - reported' = Count({r \in submitted : ~finished[r]})
                           /\ in_flight' <= NWorkers,
         raised' => kind = "static-batch"
  PROVE  FleetInv'
  <1>1. UNCHANGED <<kind, waiting, running, output, finished, past, total_slot_steps,
                    wasted_slot_steps, transfers, policy, next, home, max_imbalance,
                    assignments, placed, index>>
    BY DEF replicaVars, routerVars, requestVars, counters
  <1>2. submitted' = submitted /\ Said' = Said BY <1>1 DEF submitted, Said
  <1>3. Arranged'
    <2>1. FleetTypes' BY <1>1 DEF FleetInv, Arranged, FleetTypes
    <2>2. \A i \in Replicas : Lists(i)' BY <1>1 DEF FleetInv, Arranged, Lists, Single
    <2>3. \A r \in Requests : Whereabouts(r)' BY <1>1, <1>2 DEF FleetInv, Arranged, Whereabouts
    <2> QED BY <2>1, <2>2, <2>3 DEF Arranged
  <1>4. \A r \in Requests : Served(r)' BY <1>1 DEF FleetInv, Served, AllTokens
  <1>5. Spread' /\ Affine' BY <1>1 DEF FleetInv, Spread, Affine
  <1>6. Assigned' BY <1>1, <1>2 DEF FleetInv, Assigned
  <1>7. InFlight' BY <1>1, <1>2 DEF InFlight
  <1>8. Slots' /\ Handoffs' BY <1>1, <1>2 DEF FleetInv, Slots, Handoffs
  <1>9. OverrunsOnlyStatic' BY <1>1 DEF OverrunsOnlyStatic
  <1> QED BY <1>3, <1>4, <1>5, <1>6, <1>7, <1>8, <1>9 DEF FleetInv

LEMMA FleetInit == Init => FleetInv
  <1> SUFFICES ASSUME Init PROVE FleetInv
    OBVIOUS
  <1>1. /\ kind \in Kinds
        /\ waiting = [i \in Replicas |-> <<>>] /\ running = [i \in Replicas |-> <<>>]
        /\ output = [r \in Requests |-> <<>>]
        /\ finished = [r \in Requests |-> FALSE]
        /\ past = [r \in Requests |-> <<>>]
        /\ total_slot_steps = 0 /\ wasted_slot_steps = 0 /\ transfers = 0
    BY DEF Init, RouterInit, ReplicaInit
  <1>2. /\ policy \in Policies /\ next = 0
        /\ policy = "prefix-affinity" =>
               /\ home \in [{Prefix(r) : r \in Requests} -> Replicas]
               /\ max_imbalance \in MaxImbalances
        /\ assignments = [i \in Replicas |-> 0] /\ placed = [r \in Requests |-> 0]
    BY DEF Init, RouterInit
  <1>3. loop \in {"open", "starting"} /\ index = 0 /\ in_flight = 0 /\ reported = 0 /\ raised = FALSE
    BY DEF Init
  <1>4. FleetTypes
    <2>1. waiting \in [Replicas -> ListOf(Requests)] /\ running \in [Replicas -> ListOf(Requests)]
      <3>1. <<>> \in ListOf(Requests) BY NobodyOnce
      <3> QED BY <1>1, <3>1
    <2>2. output \in [Requests -> Seq(Vocab)] /\ finished \in [Requests -> BOOLEAN]
      <3>1. <<>> \in Seq(Vocab) BY EmptySeq
      <3> QED BY <1>1, <3>1
    <2>3. assignments \in [Replicas -> Nat] /\ placed \in [Requests -> Replicas \cup {0}] BY <1>2
    <2>4. index \in 0 .. Len(Trace) BY <1>3, TraceOnce
    <2>5. policy = "prefix-affinity" =>
              home \in [{Prefix(r) : r \in Requests} -> Replicas] /\ max_imbalance \in Int
      <3>1. \A f \in MaxImbalances : f \in Int BY RouterAssumption
      <3> QED BY <1>2, <3>1
    <2>6. /\ total_slot_steps \in Nat /\ wasted_slot_steps \in Nat /\ transfers \in Nat
          /\ next \in Nat /\ in_flight \in Nat /\ reported \in Nat /\ raised \in BOOLEAN
          /\ loop \in {"open", "starting", "serving"}
      BY <1>1, <1>2, <1>3
    <2> QED BY <1>1, <1>2, <1>3, <2>1, <2>2, <2>3, <2>4, <2>5, <2>6 DEF FleetTypes
  <1>5. submitted = {}
    <2>1. 0 \in 0 .. Len(Trace) BY TraceOnce
    <2>2. \A r : r \in Range(First(Trace, 0)) <=> \E k \in 1 .. 0 : Trace[k] = r
      BY <2>1, BeginningOfTrace
    <2>3. submitted = Range(First(Trace, 0)) BY <1>3 DEF submitted
    <2> QED BY <2>2, <2>3
  <1>6. \A i \in Replicas : Lists(i)
    <2>1. Range(<<>>) = {} /\ Len(<<>>) = 0 BY NobodyListed
    <2>2. \A i \in Replicas : waiting[i] = <<>> /\ running[i] = <<>> BY <1>1
    <2> QED BY <2>1, <2>2 DEF Lists
  <1>7. \A r \in Requests : Whereabouts(r) BY <1>1, <1>2, <1>5 DEF Whereabouts
  <1>8. \A r \in Requests : Served(r)
    <2>1. <<>> \in Seq(Range(<<>>)) /\ Len(<<>>) = 0 BY NobodyListed, EmptySeq
    <2>2. \A r \in Requests : MaxTokens[r] \in Nat BY ReplicaAssumption
    <2> QED BY <1>1, <2>1, <2>2 DEF Served
  <1>9. Spread
    <2>1. PICK n \in Nat \ {0} : n = Cardinality(Replicas) /\ Replicas = 1 .. n BY ReplicasAre
    <2>2. next % n = 0
      <3>1. 0 % n = 0 OBVIOUS
      <3> QED BY <1>2, <3>1
    <2>3. \A i \in Replicas : assignments[i] = 0 + IF i <= next % Cardinality(Replicas) THEN 1 ELSE 0
      BY <1>2, <2>1, <2>2
    <2>4. 0 \in 0 .. next BY <1>2
    <2> QED BY <2>3, <2>4 DEF Spread
  <1>10. Affine BY <1>2 DEF Affine
  <1>11. Count({}) = 0 BY FS_EmptySet DEF Count
  <1>12. Assigned
    <2>1. \A i : {r \in submitted : placed[r] = i} = {} BY <1>5
    <2> QED BY <1>2, <1>11, <2>1 DEF Assigned
  <1>13. InFlight
    <2>1. {r \in submitted : ~finished[r]} = {} BY <1>5
    <2>2. 0 <= NWorkers BY TraceAssumption
    <2> QED BY <1>3, <1>11, <2>1, <2>2 DEF InFlight
  <1>14. Slots
    <2>1. Said \in [Requests -> Int] /\ \A r \in Requests : Said[r] = 0 BY <1>1 DEF Said
    <2>2. SumFunctionOnSet(Said, Requests) = 0 BY <2>1, TraceOnce, SumZero
    <2> QED BY <1>1, <2>2 DEF Slots
  <1>15. Handoffs
    <2>1. {r \in Requests : output[r] # <<>>} = {} BY <1>1
    <2> QED BY <1>1, <1>11, <2>1 DEF Handoffs
  <1>16. OverrunsOnlyStatic BY <1>3 DEF OverrunsOnlyStatic
  <1> QED BY <1>4, <1>6, <1>7, <1>8, <1>9, <1>10, <1>12, <1>13, <1>14, <1>15, <1>16
      DEF FleetInv, Arranged

--------------------------------------------------------------------------------
(* A step of the fleet. *)

Left(i) == SubSeq(waiting[i], Len(Prefilled(i)) + 1, Len(waiting[i]))

\* Who takes part in the step of replica i, against its lists.
Sharing(i) ==
    /\ Prefilled(i) \in ListOf(Requests) /\ Left(i) \in ListOf(Requests)
    /\ Kept(i) \in ListOf(Requests) /\ Decoded(i) \in ListOf(Requests)
    /\ Range(Prefilled(i)) \subseteq Range(waiting[i])
    /\ Range(Left(i)) = Range(waiting[i]) \ Range(Prefilled(i))
    /\ Range(Kept(i)) = IF kind \in {"continuous-batch", "disaggregated"}
                        THEN {r \in Range(running[i]) : ~finished[r]} ELSE Range(running[i])
    /\ kind \in {"naive", "cached", "static-batch"} /\ Prefilled(i) # <<>> =>
           running[i] = <<>> /\ Decoded(i) = <<>>
    /\ ~(kind \in {"naive", "cached", "static-batch"} /\ Prefilled(i) # <<>>) => Decoded(i) = Kept(i)
    /\ Range(Decoded(i)) \subseteq Range(Kept(i))
    /\ Single => Len(Prefilled(i)) <= 1 /\ Kept(i) = running[i]

LEMMA KindsAre ==
  ASSUME FleetTypes
  PROVE  /\ kind \in {"naive", "cached", "static-batch", "continuous-batch", "disaggregated"}
         /\ Single <=> kind \in {"naive", "cached"}
  BY ReplicaAssumption DEF FleetTypes, Single

LEMMA SharingIs ==
  ASSUME FleetTypes, NEW i \in Replicas
  PROVE  Sharing(i)
  <1>1. PICK w \in ListOf(Requests) : w = waiting[i] BY DEF FleetTypes
  <1>2. PICK s \in ListOf(Requests) : s = running[i] BY DEF FleetTypes
  <1>3. Kept(i) \in ListOf(Requests)
    <2>1. Unfinished(s) \in ListOf(Requests) BY UnfinishedOf
    <2> QED BY <1>2, <2>1 DEF Kept
  <1>4. Range(Kept(i)) = IF kind \in {"continuous-batch", "disaggregated"}
                         THEN {r \in Range(running[i]) : ~finished[r]} ELSE Range(running[i])
    <2>1. Range(Unfinished(s)) = {r \in Range(s) : ~finished[r]} BY UnfinishedOf
    <2> QED BY <1>2, <2>1 DEF Kept
  <1>5. PICK k \in Nat : k = Len(Kept(i)) BY <1>3, EmptyRange
  <1>6. PICK b \in Nat \ {0}, p \in Nat \ {0} : b = MaxBatchSize /\ p = PrefillBatchSize
    BY ReplicaAssumption
  <1>7. Places(i) \in Int
    <2>1. CASE Single BY <2>1 DEF Places, Single
    <2>2. CASE kind = "static-batch" BY <1>6, <2>2, KindsAre DEF Places
    <2>3. CASE kind = "continuous-batch" BY <1>5, <1>6, <2>3, KindsAre DEF Places
    <2>4. CASE kind = "disaggregated"
      <3>1. PICK d \in Int : d = b - k OBVIOUS
      <3>2. PICK m \in Int : m = Max({d, 0})
        <4>1. Max({d, 0}) = IF d <= 0 THEN 0 ELSE d BY MaxOfTwo
        <4> QED BY <4>1
      <3>3. Min({p, m}) = IF p <= m THEN p ELSE m BY MinOfTwo
      <3>4. Places(i) = Min({p, m}) BY <1>5, <1>6, <2>4, <3>1, <3>2, KindsAre DEF Places
      <3> QED BY <3>3, <3>4
    <2> QED BY <2>1, <2>2, <2>3, <2>4, KindsAre
  <1>8. PICK n \in Int : n = Places(i) BY <1>7
  <1>9. PICK first, rest :
             /\ first = First(w, n) /\ rest = SubSeq(w, Len(first) + 1, Len(w))
             /\ first \in ListOf(Requests) /\ rest \in ListOf(Requests)
             /\ Range(first) \subseteq Range(w) /\ Range(rest) = Range(w) \ Range(first)
             /\ Len(first) \in Nat /\ (n >= 0 => Len(first) <= n)
    BY FirstAndRest
  <1>10. Prefilled(i) = first /\ Left(i) = rest BY <1>1, <1>8, <1>9 DEF Prefilled, Left
  <1>11. Single => n \in 0 .. 1 BY <1>8 DEF Places, Single
  <1>12. Single => Len(first) <= 1 BY <1>9, <1>11
  <1>13. Single => Kept(i) = running[i] BY DEF Kept, Single
  <1>14. ASSUME kind \in {"naive", "cached", "static-batch"}, first # <<>> PROVE running[i] = <<>>
    <2>1. SUFFICES ASSUME running[i] # <<>> PROVE FALSE
      OBVIOUS
    <2>2. n = 0 BY <1>8, <1>14, <2>1 DEF Places, Single
    <2>3. Len(first) = 0 BY <1>9, <2>2
    <2> QED BY <1>9, <1>14, <2>3, EmptyRange
  <1>15. Decoded(i) = IF kind \in {"naive", "cached", "static-batch"} /\ first # <<>>
                      THEN <<>> ELSE Kept(i)
    BY <1>10 DEF Decoded
  <1>16. Decoded(i) \in ListOf(Requests) /\ Range(Decoded(i)) \subseteq Range(Kept(i))
    BY <1>3, <1>15, NobodyOnce
  <1> QED BY <1>1, <1>3, <1>4, <1>9, <1>10, <1>12, <1>13, <1>14, <1>15, <1>16 DEF Sharing

\* Who is served in the next step, and who of them hears a token.
InService(r) ==
    placed[r] # 0 /\ r \in Range(Prefilled(placed[r])) \cup Range(Decoded(placed[r]))

Serving == {r \in Requests : InService(r)}
Talking == {r \in Requests : InService(r) /\ ~finished[r]}

LEMMA InServiceIs ==
  ASSUME Arranged, NEW i \in Replicas
  PROVE  /\ \A r : r \in Range(Prefilled(i)) \cup Range(Decoded(i)) <=>
                       r \in Requests /\ InService(r) /\ placed[r] = i
         /\ Range(Prefilled(i)) \cap Range(Decoded(i)) = {}
         /\ Range(Prefilled(i)) \subseteq Requests /\ Range(Decoded(i)) \subseteq Requests
         /\ \A r \in Range(Prefilled(i)) : output[r] = <<>>
         /\ \A r \in Range(Decoded(i)) : output[r] # <<>>
  <1>1. FleetTypes /\ Lists(i) /\ i # 0 BY ReplicasAre DEF Arranged
  <1>2. Sharing(i) BY <1>1, SharingIs
  <1>3. Range(Prefilled(i)) \subseteq Range(waiting[i]) BY <1>2 DEF Sharing
  <1>4. Range(Decoded(i)) \subseteq Range(running[i]) BY <1>2 DEF Sharing
  <1>5. Range(waiting[i]) \subseteq Requests /\ Range(running[i]) \subseteq Requests
    <2>1. waiting[i] \in ListOf(Requests) /\ running[i] \in ListOf(Requests) BY <1>1 DEF FleetTypes
    <2> QED BY <2>1, EmptyRange
  <1>6. \A r \in Range(Prefilled(i)) : placed[r] = i /\ output[r] = <<>> BY <1>1, <1>3 DEF Lists
  <1>7. \A r \in Range(Decoded(i)) : placed[r] = i /\ output[r] # <<>> BY <1>1, <1>4 DEF Lists
  <1> QED BY <1>1, <1>3, <1>4, <1>5, <1>6, <1>7 DEF InService

\* What Step comes to, each request being in the lists of one replica.
StepIs(token) ==
    /\ token \in [Talking -> Vocab]
    /\ output' = [r \in Requests |-> IF r \in Talking THEN Append(output[r], token[r])
                                     ELSE output[r]]
    /\ finished' = [r \in Requests |-> finished[r] \/ (r \in Talking /\ EndsWith(r, output'[r]))]
    /\ \A r \in Requests : past'[r] =
           IF InService(r) THEN Computed(r, Prefilled(placed[r]), Decoded(placed[r])) ELSE past[r]
    /\ waiting' = [i \in Replicas |-> Left(i)]
    /\ running' = [i \in Replicas |-> Remaining(Kept(i), Prefilled(i), Decoded(i),
                                                {r \in Requests : finished'[r]})]
    /\ IF kind \in {"static-batch", "continuous-batch"}
       THEN /\ total_slot_steps' = total_slot_steps + Cardinality(Serving)
            /\ wasted_slot_steps' = wasted_slot_steps + Cardinality({r \in Serving : finished[r]})
       ELSE UNCHANGED <<total_slot_steps, wasted_slot_steps>>
    /\ transfers' = IF kind # "disaggregated" THEN transfers
                    ELSE transfers + Cardinality({r \in Serving : past[r] = <<>>})
    /\ UNCHANGED <<kind, routerVars>>

LEMMA StepDoes ==
  ASSUME Arranged, Step
  PROVE  \E token : StepIs(token)
  <1>1. PICK pre, dec, kept, token :
            /\ pre = [i \in Replicas |-> Prefilled(i)] /\ dec = [i \in Replicas |-> Decoded(i)]
            /\ kept = [i \in Replicas |-> Kept(i)]
            /\ token \in [UNION {Emitting(i) : i \in Replicas} -> Vocab]
            /\ StepWith(token, pre, dec, kept)
    BY DEF Step, StepAll
  <1>2. FleetTypes BY DEF Arranged
  <1>3. ASSUME NEW i \in Replicas
        PROVE  \A r : r \in Range(pre[i] \o dec[i]) <=> r \in Requests /\ InService(r) /\ placed[r] = i
    <2>1. Sharing(i) BY <1>2, SharingIs
    <2>2. PICK p \in ListOf(Requests) : p = pre[i] /\ p = Prefilled(i) BY <1>1, <2>1 DEF Sharing
    <2>3. PICK d \in ListOf(Requests) : d = dec[i] /\ d = Decoded(i) BY <1>1, <2>1 DEF Sharing
    <2>4. Range(p) \cap Range(d) = {} BY <2>2, <2>3, InServiceIs
    <2>5. Range(p \o d) = Range(p) \cup Range(d) BY <2>4, BehindOnce
    <2>6. \A r : r \in Range(p) \cup Range(d) <=> r \in Requests /\ InService(r) /\ placed[r] = i
      BY <2>2, <2>3, InServiceIs
    <2> QED BY <2>2, <2>3, <2>5, <2>6
  <1>4. \A r \in Requests : InService(r) => placed[r] \in Replicas BY <1>2 DEF InService, FleetTypes
  <1>5. UNION {Range(pre[i] \o dec[i]) : i \in Replicas} = Serving
    <2>1. \A r : r \in UNION {Range(pre[i] \o dec[i]) : i \in Replicas} <=>
                     \E i \in Replicas : r \in Requests /\ InService(r) /\ placed[r] = i
      BY <1>3
    <2> QED BY <1>4, <2>1 DEF Serving
  <1>6. UNION {Emitting(i) : i \in Replicas} = Talking
    <2>1. ASSUME NEW i \in Replicas
          PROVE  \A r : r \in Emitting(i) <=> /\ r \in Requests /\ InService(r) /\ placed[r] = i
                                              /\ ~finished[r]
      BY InServiceIs DEF Emitting
    <2>2. \A r : r \in UNION {Emitting(i) : i \in Replicas} <=>
                     \E i \in Replicas : r \in Requests /\ InService(r) /\ placed[r] = i /\ ~finished[r]
      BY <2>1
    <2> QED BY <1>4, <2>2 DEF Talking
  <1>7. token \in [Talking -> Vocab] /\ DOMAIN token = Talking BY <1>1, <1>6
  <1>8. /\ output' = [r \in Requests |-> IF r \in DOMAIN token THEN Append(output[r], token[r])
                                         ELSE output[r]]
        /\ finished' = [r \in Requests |->
               finished[r] \/ (r \in DOMAIN token /\ EndsWith(r, output'[r]))]
        /\ waiting' = [i \in Replicas |-> SubSeq(waiting[i], Len(pre[i]) + 1, Len(waiting[i]))]
        /\ running' = [i \in Replicas |->
               Remaining(kept[i], pre[i], dec[i], {r \in Requests : finished'[r]})]
        /\ UNCHANGED kind
    BY <1>1 DEF StepWith, Emitted, HandedOff
  <1>9. ASSUME NEW r \in Requests
        PROVE  past'[r] = IF InService(r) THEN Computed(r, Prefilled(placed[r]), Decoded(placed[r]))
                          ELSE past[r]
    <2> DEFINE mine == CHOOSE j \in Replicas : r \in Range(pre[j] \o dec[j])
    <2>1. past'[r] = IF r \notin Serving THEN past[r] ELSE Computed(r, pre[mine], dec[mine])
      BY <1>1, <1>5 DEF StepWith, Emitted, HandedOff
    <2>2. ASSUME InService(r) PROVE mine = placed[r]
      <3>1. placed[r] \in Replicas /\ r \in Range(pre[placed[r]] \o dec[placed[r]])
        BY <1>3, <1>4, <2>2
      <3>2. mine \in Replicas /\ r \in Range(pre[mine] \o dec[mine]) BY <3>1
      <3> HIDE DEF mine
      <3> QED BY <1>3, <3>2
    <2> HIDE DEF mine
    <2>3. InService(r) => pre[placed[r]] = Prefilled(placed[r]) /\ dec[placed[r]] = Decoded(placed[r])
      BY <1>1, <1>4
    <2> QED BY <2>1, <2>2, <2>3 DEF Serving
  <1>10. /\ IF kind \in {"static-batch", "continuous-batch"}
            THEN /\ total_slot_steps' = total_slot_steps + Cardinality(Serving)
                 /\ wasted_slot_steps' = wasted_slot_steps + Cardinality({r \in Serving : finished[r]})
            ELSE UNCHANGED <<total_slot_steps, wasted_slot_steps>>
         /\ transfers' = IF kind # "disaggregated" THEN transfers
                         ELSE transfers + Cardinality({r \in Serving : past[r] = <<>>})
    BY <1>1, <1>5 DEF StepWith, Emitted, HandedOff
  <1>11. waiting' = [i \in Replicas |-> Left(i)] BY <1>1, <1>8 DEF Left
  <1>12. running' = [i \in Replicas |-> Remaining(Kept(i), Prefilled(i), Decoded(i),
                                                  {r \in Requests : finished'[r]})]
    <2>1. \A i \in Replicas : pre[i] = Prefilled(i) /\ dec[i] = Decoded(i) /\ kept[i] = Kept(i)
      BY <1>1
    <2> QED BY <1>8, <2>1
  <1>13. UNCHANGED routerVars BY DEF Step
  <1> QED BY <1>7, <1>8, <1>9, <1>10, <1>11, <1>12, <1>13 DEF StepIs

\* What a replica is left with.
LEMMA RemainingIs ==
  ASSUME Arranged, NEW i \in Replicas, NEW Over
  PROVE  \E left : /\ left = Remaining(Kept(i), Prefilled(i), Decoded(i), Over)
                   /\ left \in ListOf(Requests)
                   /\ Range(left) \subseteq Range(Kept(i)) \cup Range(Prefilled(i))
                   /\ \A r \in Range(Kept(i)) \cup Range(Prefilled(i)) : r \notin Over => r \in Range(left)
                   /\ Single => Len(left) <= 1 /\ \A r \in Range(left) : r \notin Over
  <1>1. FleetTypes /\ Lists(i) BY DEF Arranged
  <1>2. Sharing(i) BY <1>1, SharingIs
  <1>3. PICK k \in ListOf(Requests) : k = Kept(i) BY <1>2 DEF Sharing
  <1>4. PICK p \in ListOf(Requests) : p = Prefilled(i) BY <1>2 DEF Sharing
  <1>5. PICK d \in ListOf(Requests) : d = Decoded(i) BY <1>2 DEF Sharing
  <1>6. PICK left : left = Remaining(k, p, d, Over) OBVIOUS
  <1>7. Range(p) \cap Range(d) = {} BY <1>4, <1>5, InServiceIs
  <1>8. Range(k) \cap Range(p) = {}
    <2>1. Range(k) \subseteq Range(running[i]) BY <1>2, <1>3 DEF Sharing
    <2>2. Range(p) \subseteq Range(waiting[i]) BY <1>2, <1>4 DEF Sharing
    <2> QED BY <1>1, <2>1, <2>2 DEF Lists
  <1>9. CASE kind = "continuous-batch"
    <2>1. left = k \o p BY <1>6, <1>9 DEF Remaining
    <2>2. left \in ListOf(Requests) /\ Range(left) = Range(k) \cup Range(p) BY <1>8, <2>1, BehindOnce
    <2> QED BY <1>3, <1>4, <1>5, <1>6, <1>9, <2>2 DEF Single
  <1>10. CASE kind = "disaggregated"
    <2>1. PICK P \in SUBSET (1 .. Len(p)) : P = {j \in DOMAIN p : p[j] \notin Over}
      <3>1. DOMAIN p = 1 .. Len(p) BY LenProperties DEF ListOf
      <3> QED BY <3>1
    <2>2. PICK q \in ListOf(Requests) : q = Picked(p, P) /\ \A x : x \in Range(q) <=> \E j \in P : p[j] = x
      BY PickedOnce
    <2>3. \A x : x \in Range(q) <=> x \in Range(p) /\ x \notin Over
      <3>1. \A x : x \in Range(p) <=> \E j \in 1 .. Len(p) : p[j] = x BY Occurs DEF ListOf
      <3>2. DOMAIN p = 1 .. Len(p) BY LenProperties DEF ListOf
      <3> QED BY <2>1, <2>2, <3>1, <3>2
    <2>4. left = k \o q BY <1>6, <1>10, <2>1, <2>2 DEF Remaining
    <2>5. Range(k) \cap Range(q) = {} BY <1>8, <2>3
    <2>6. left \in ListOf(Requests) /\ Range(left) = Range(k) \cup Range(q) BY <2>4, <2>5, BehindOnce
    <2> QED BY <1>3, <1>4, <1>5, <1>6, <1>10, <2>3, <2>6 DEF Single
  <1>11. CASE kind \in {"naive", "cached", "static-batch"}
    <2>1. PICK all : all = p \o d OBVIOUS
    <2>2. /\ all \in ListOf(Requests) /\ Range(all) = Range(p) \cup Range(d)
          /\ Len(all) = Len(p) + Len(d) /\ Len(p) \in Nat /\ Len(d) \in Nat
      BY <1>7, <2>1, BehindOnce
    <2>3. left = IF Range(all) \subseteq Over THEN <<>> ELSE all BY <1>6, <1>11, <2>1 DEF Remaining
    <2>4. <<>> \in ListOf(Requests) /\ Range(<<>>) = {} BY NobodyOnce
    <2>5. left \in ListOf(Requests) BY <2>2, <2>3, <2>4
    <2>6. Range(d) \subseteq Range(k) BY <1>2, <1>3, <1>5 DEF Sharing
    <2>7. Range(left) \subseteq Range(k) \cup Range(p) BY <2>2, <2>3, <2>4, <2>6
    <2>8. Range(k) \cup Range(p) = Range(all)
      <3>1. CASE p = <<>>
        <4>1. d = k BY <1>2, <1>3, <1>4, <1>5, <3>1 DEF Sharing
        <4> QED BY <2>2, <4>1
      <3>2. CASE p # <<>>
        <4>1. running[i] = <<>> BY <1>2, <1>4, <1>11, <3>2 DEF Sharing
        <4>2. Range(k) = Range(running[i]) BY <1>2, <1>3, <1>11 DEF Sharing
        <4>3. Range(k) = {} BY <2>4, <4>1, <4>2
        <4> QED BY <2>2, <2>6, <4>3
      <3> QED BY <3>1, <3>2
    <2>9. \A r \in Range(k) \cup Range(p) : r \notin Over => r \in Range(left) BY <2>3, <2>8
    <2>10. ASSUME Single PROVE Len(left) <= 1 /\ \A r \in Range(left) : r \notin Over
      <3>1. Len(all) <= 1
        <4>1. CASE p = <<>>
          <5>1. d = k BY <1>2, <1>3, <1>4, <1>5, <4>1 DEF Sharing
          <5>2. k = running[i] BY <1>2, <1>3, <2>10 DEF Sharing
          <5>3. Len(d) <= 1 BY <1>1, <2>10, <5>1, <5>2 DEF Lists
          <5>4. Len(p) = 0 BY <4>1, EmptyRange
          <5> QED BY <2>2, <5>3, <5>4
        <4>2. CASE p # <<>>
          <5>1. d = <<>> BY <1>2, <1>4, <1>5, <1>11, <4>2 DEF Sharing
          <5>2. Len(d) = 0 BY <5>1, EmptyRange
          <5>3. Len(p) <= 1 BY <1>2, <1>4, <2>10 DEF Sharing
          <5> QED BY <2>2, <5>2, <5>3
        <4> QED BY <4>1, <4>2
      <3>2. \A x, y \in Range(all) : x = y BY <2>2, <3>1, EmptyRange
      <3>3. Len(<<>>) = 0 OBVIOUS
      <3>4. Len(left) <= 1 BY <2>3, <3>1, <3>3
      <3>5. \A r \in Range(left) : r \notin Over BY <2>3, <2>4, <3>2
      <3> QED BY <3>4, <3>5
    <2> QED BY <1>3, <1>4, <1>5, <1>6, <2>5, <2>7, <2>9, <2>10
  <1> QED BY <1>1, <1>9, <1>10, <1>11, KindsAre

\* What a request hears: one token more, if it is served and not over.
LEMMA Hears ==
  ASSUME FleetTypes, NEW token, StepIs(token), NEW r \in Requests
  PROVE  /\ output[r] \in Seq(Vocab) /\ output'[r] \in Seq(Vocab) /\ Len(output[r]) \in Nat
         /\ r \in Talking => /\ output'[r] = Append(output[r], token[r]) /\ token[r] \in Vocab
                             /\ output'[r] # <<>> /\ Len(output'[r]) = Len(output[r]) + 1
                             /\ output'[r] # output[r]
         /\ r \notin Talking => output'[r] = output[r]
         /\ finished'[r] = (finished[r] \/ (r \in Talking /\ EndsWith(r, output'[r])))
         /\ r \notin Talking => finished'[r] = finished[r]
         /\ finished[r] \in BOOLEAN /\ finished'[r] \in BOOLEAN
  <1>1. PICK o \in Seq(Vocab) : o = output[r] BY DEF FleetTypes
  <1>2. output'[r] = IF r \in Talking THEN Append(o, token[r]) ELSE o BY <1>1 DEF StepIs
  <1>3. r \in Talking => token[r] \in Vocab BY DEF StepIs
  <1>4. Len(o) \in Nat BY LenProperties
  <1>5. r \in Talking => /\ Append(o, token[r]) \in Seq(Vocab) /\ Append(o, token[r]) # <<>>
                         /\ Len(Append(o, token[r])) = Len(o) + 1
    BY <1>3, AppendProperties
  <1>6. r \in Talking => Append(o, token[r]) # o BY <1>4, <1>5
  <1>7. finished'[r] = (finished[r] \/ (r \in Talking /\ EndsWith(r, output'[r]))) BY DEF StepIs
  <1>8. finished[r] \in BOOLEAN BY DEF FleetTypes
  <1>9. finished'[r] \in BOOLEAN /\ (r \notin Talking => finished'[r] = finished[r])
    BY <1>7, <1>8, Zenon
  <1> QED BY <1>1, <1>2, <1>3, <1>4, <1>5, <1>6, <1>7, <1>8, <1>9

LEMMA StepLists ==
  ASSUME Arranged, \A r \in Requests : Served(r), NEW token, StepIs(token), index' = index
  PROVE  /\ \A i \in Replicas : Lists(i)' /\ waiting'[i] \in ListOf(Requests)
                                /\ running'[i] \in ListOf(Requests)
         /\ \A r \in Requests : Whereabouts(r)'
  <1>1. FleetTypes /\ (\A i \in Replicas : Lists(i)) /\ (\A r \in Requests : Whereabouts(r))
    BY DEF Arranged
  <1>2. PICK Over \in SUBSET Requests : Over = {r \in Requests : finished'[r]} OBVIOUS
  <1>3. kind' = kind /\ placed' = placed /\ submitted' = submitted
    BY DEF StepIs, routerVars, submitted
  <1>4. \A i \in Replicas : waiting'[i] = Left(i) BY DEF StepIs
  <1>5. \A i \in Replicas : running'[i] = Remaining(Kept(i), Prefilled(i), Decoded(i), Over)
    BY <1>2 DEF StepIs
  <1>6. \A r \in Requests : output[r] = <<>> => finished[r] = FALSE
    BY <1>1 DEF Served, FleetTypes
  <1>7. ASSUME NEW i \in Replicas
        PROVE  /\ Lists(i)' /\ waiting'[i] \in ListOf(Requests) /\ running'[i] \in ListOf(Requests)
               /\ \A r \in Range(waiting[i]) : r \notin Over => r \in Range(waiting'[i]) \cup Range(running'[i])
               /\ \A r \in Range(running[i]) : r \notin Over /\ ~finished[r] => r \in Range(running'[i])
    <2>1. Sharing(i) /\ i # 0 BY <1>1, SharingIs, ReplicasAre
    <2>2. PICK left : /\ left = Remaining(Kept(i), Prefilled(i), Decoded(i), Over)
                      /\ left \in ListOf(Requests)
                      /\ Range(left) \subseteq Range(Kept(i)) \cup Range(Prefilled(i))
                      /\ \A r \in Range(Kept(i)) \cup Range(Prefilled(i)) :
                             r \notin Over => r \in Range(left)
                      /\ Single => Len(left) <= 1 /\ \A r \in Range(left) : r \notin Over
      BY RemainingIs
    <2>3. running'[i] = left BY <1>5, <2>2
    <2>4. Range(waiting[i]) \subseteq Requests /\ Range(running[i]) \subseteq Requests
      <3>1. waiting[i] \in ListOf(Requests) /\ running[i] \in ListOf(Requests) BY <1>1 DEF FleetTypes
      <3> QED BY <3>1, EmptyRange
    <2>5. Range(Kept(i)) \subseteq Range(running[i]) BY <2>1 DEF Sharing
    <2>6. ASSUME NEW r \in Range(waiting'[i]) PROVE placed'[r] = i /\ output'[r] = <<>>
      <3>1. r \in Range(waiting[i]) /\ r \notin Range(Prefilled(i)) BY <1>4, <2>1, <2>6 DEF Sharing
      <3>2. r \in Requests /\ placed[r] = i /\ output[r] = <<>> BY <1>1, <2>4, <3>1 DEF Lists
      <3>3. r \notin Range(Decoded(i)) BY <3>2, InServiceIs
      <3>4. ~InService(r) BY <3>1, <3>2, <3>3 DEF InService
      <3>5. r \notin Talking BY <3>4 DEF Talking
      <3> QED BY <1>1, <1>3, <3>2, <3>5, Hears
    <2>7. ASSUME NEW r \in Range(running'[i]) PROVE placed'[r] = i /\ output'[r] # <<>>
      <3>1. CASE r \in Range(Kept(i))
        <4>1. r \in Requests /\ placed[r] = i /\ output[r] # <<>> BY <1>1, <2>4, <2>5, <3>1 DEF Lists
        <4> QED BY <1>1, <1>3, <4>1, Hears
      <3>2. CASE r \in Range(Prefilled(i))
        <4>1. r \in Requests /\ InService(r) /\ placed[r] = i /\ output[r] = <<>> BY <3>2, InServiceIs
        <4>2. r \in Talking BY <1>6, <4>1 DEF Talking
        <4> QED BY <1>1, <1>3, <4>1, <4>2, Hears
      <3> QED BY <2>2, <2>3, <2>7, <3>1, <3>2
    <2>8. Single' => Len(running'[i]) <= 1 /\ \A r \in Range(running'[i]) : ~finished'[r]
      <3>1. Single' <=> Single BY <1>3 DEF Single
      <3>2. \A r \in Range(left) : r \in Requests
        <4>1. Range(Prefilled(i)) \subseteq Requests BY InServiceIs
        <4> QED BY <2>2, <2>4, <2>5, <4>1
      <3> QED BY <1>2, <2>2, <2>3, <3>1, <3>2
    <2>9. Lists(i)' BY <2>6, <2>7, <2>8 DEF Lists
    <2>10. waiting'[i] \in ListOf(Requests) BY <1>4, <2>1 DEF Sharing
    <2>11. ASSUME NEW r \in Range(waiting[i]), r \notin Over
           PROVE  r \in Range(waiting'[i]) \cup Range(running'[i])
      <3>1. Range(waiting'[i]) = Range(waiting[i]) \ Range(Prefilled(i)) BY <1>4, <2>1 DEF Sharing
      <3> QED BY <2>2, <2>3, <2>11, <3>1
    <2>12. ASSUME NEW r \in Range(running[i]), r \notin Over, ~finished[r] PROVE r \in Range(running'[i])
      <3>1. r \in Range(Kept(i)) BY <2>1, <2>12 DEF Sharing
      <3> QED BY <2>2, <2>3, <2>12, <3>1
    <2> QED BY <2>2, <2>3, <2>9, <2>10, <2>11, <2>12
  <1>8. ASSUME NEW r \in Requests PROVE Whereabouts(r)'
    <2>1. Whereabouts(r) BY <1>1
    <2>2. placed[r] = 0 => output'[r] = <<>>
      <3>1. placed[r] = 0 => r \notin Talking BY DEF Talking, InService
      <3> QED BY <1>1, <2>1, <3>1, Hears DEF Whereabouts
    <2>3. ASSUME placed[r] # 0, ~finished'[r]
          PROVE  r \in Range(waiting'[placed[r]]) \cup Range(running'[placed[r]])
      <3>1. PICK i \in Replicas : i = placed[r] BY <1>1, <2>3 DEF FleetTypes
      <3>2. ~finished[r] BY <1>1, <2>3, Hears, Zenon
      <3>3. r \in Range(waiting[i]) \cup Range(running[i]) BY <2>1, <2>3, <3>1, <3>2 DEF Whereabouts
      <3>4. r \notin Over BY <1>2, <2>3
      <3> QED BY <1>7, <3>1, <3>2, <3>3, <3>4
    <2> QED BY <1>3, <2>1, <2>2, <2>3 DEF Whereabouts
  <1> QED BY <1>7, <1>8

--------------------------------------------------------------------------------
(* What is cached in a step. *)

\* The prompt and what has been said since.
LEMMA TokensAre ==
  ASSUME FleetTypes, NEW r \in Requests
  PROVE  /\ Prompt[r] \in Seq(Vocab \cup {PadToken}) /\ output[r] \in Seq(Vocab \cup {PadToken})
         /\ AllTokens(r) \in Seq(Vocab \cup {PadToken}) /\ AllTokens(r) # <<>>
         /\ Len(Prompt[r]) \in Nat /\ Len(output[r]) \in Nat
         /\ Len(AllTokens(r)) = Len(Prompt[r]) + Len(output[r])
         /\ Len(Prompt[r]) + MaxTokens[r] - 1 <= MaxSeqLen
         /\ MaxTokens[r] \in Nat \ {0} /\ MaxSeqLen \in Nat
  <1>1. PICK V : V = Vocab \cup {PadToken} OBVIOUS
  <1>2. Prompt[r] \in Seq(V) \ {<<>>} BY <1>1, ReplicaAssumption
  <1>3. PICK p \in Seq(V) : p = Prompt[r] /\ p # <<>> BY <1>2
  <1>4. PICK o \in Seq(V) : o = output[r]
    <2>1. output[r] \in Seq(Vocab) BY DEF FleetTypes
    <2>2. Vocab \subseteq V BY <1>1
    <2> QED BY <2>1, <2>2
  <1>5. p \o o \in Seq(V) /\ Len(p \o o) = Len(p) + Len(o) /\ Len(p) \in Nat /\ Len(o) \in Nat
    BY ConcatProperties, LenProperties
  <1>6. Len(p) # 0 BY <1>3, EmptySeq
  <1>7. p \o o # <<>> BY <1>5, <1>6
  <1>8. AllTokens(r) = p \o o BY <1>3, <1>4 DEF AllTokens
  <1> QED BY <1>1, <1>3, <1>4, <1>5, <1>7, <1>8, ReplicaAssumption

\* All but the last, and the last, make up a sequence.
LEMMA FrontAndLast ==
  ASSUME NEW S, NEW s \in Seq(S), s # <<>>
  PROVE  /\ Front(s) \in Seq(S) /\ Last(s) \in S /\ Append(Front(s), Last(s)) = s
         /\ Len(Front(s)) = Len(s) - 1 /\ Len(s) \in Nat \ {0}
  <1>1. PICK f \in Seq(S), e \in S :
            /\ f = Front(s) /\ e = Last(s) /\ Len(f) = Len(s) - 1 /\ Len(s) \in Nat \ {0}
            /\ \A i \in 1 .. Len(s) - 1 : f[i] = s[i]
            /\ e = s[Len(s)]
    BY FrontLast
  <1>2. PICK a \in Seq(S) : /\ a = Append(f, e) /\ Len(a) = Len(f) + 1
                            /\ \A i \in 1 .. Len(f) : a[i] = f[i]
                            /\ a[Len(f) + 1] = e
    BY AppendProperties
  <1>3. \A i \in 1 .. Len(s) : a[i] = s[i]
    <2>1. \A i \in 1 .. Len(s) : i \in 1 .. Len(s) - 1 \/ i = Len(s) BY <1>1
    <2> QED BY <1>1, <1>2, <2>1
  <1>4. Len(a) = Len(s) BY <1>1, <1>2
  <1>5. a = s BY <1>3, <1>4, SeqEqual
  <1> QED BY <1>1, <1>2, <1>5

\* What there was before the last token.
LEMMA FrontOfMore ==
  ASSUME NEW S, NEW p \in Seq(S), NEW o \in Seq(S), NEW e \in S
  PROVE  Front(p \o Append(o, e)) = p \o o
  <1>1. PICK u \in Seq(S) : u = p \o o BY ConcatProperties
  <1>2. PICK q \in Seq(S) : q = Append(o, e) /\ q # <<>> BY AppendProperties
  <1>3. PICK s \in Seq(S) : s = p \o q BY ConcatProperties
  <1>4. /\ Len(u) = Len(p) + Len(o) /\ Len(q) = Len(o) + 1 /\ Len(s) = Len(p) + Len(q)
        /\ Len(p) \in Nat /\ Len(o) \in Nat
    BY <1>1, <1>2, <1>3, ConcatProperties, AppendProperties, LenProperties
  <1>5. s # <<>> BY <1>4, EmptySeq
  <1>6. PICK f \in Seq(S) : f = Front(s) /\ Len(f) = Len(s) - 1 /\ \A i \in 1 .. Len(s) - 1 : f[i] = s[i]
    BY <1>5, FrontLast
  <1>7. Len(f) = Len(u) BY <1>4, <1>6
  <1>8. ASSUME NEW i \in 1 .. Len(f) PROVE f[i] = u[i]
    <2>1. i \in 1 .. Len(s) - 1 /\ i \in 1 .. Len(p) + Len(q) /\ i \in 1 .. Len(p) + Len(o)
      BY <1>4, <1>6
    <2>2. f[i] = s[i] BY <1>6, <2>1
    <2>3. s[i] = IF i <= Len(p) THEN p[i] ELSE q[i - Len(p)] BY <1>3, <2>1, ConcatProperties
    <2>4. u[i] = IF i <= Len(p) THEN p[i] ELSE o[i - Len(p)] BY <1>1, <2>1, ConcatProperties
    <2>5. ~(i <= Len(p)) => q[i - Len(p)] = o[i - Len(p)]
      <3>1. ~(i <= Len(p)) => i - Len(p) \in 1 .. Len(o) BY <1>4, <2>1
      <3>2. \A k \in 1 .. Len(o) : q[k] = o[k] BY <1>2, AppendProperties
      <3> QED BY <3>1, <3>2
    <2> QED BY <2>2, <2>3, <2>4, <2>5
  <1>9. f = u BY <1>7, <1>8, SeqEqual
  <1> QED BY <1>1, <1>2, <1>3, <1>6, <1>9

\* What is computed for a request whose prompt is prefilled is its own cache.
LEMMA PrefillsOwn ==
  ASSUME Arranged, NEW i \in Replicas, ~Overruns(i), NEW r \in Range(Prefilled(i))
  PROVE  Computed(r, Prefilled(i), Decoded(i)) = OwnCache(AllTokens(r))
  <1>1. FleetTypes BY DEF Arranged
  <1>2. r \in Requests /\ r \in Range(Prefilled(i)) /\ Range(Prefilled(i)) \subseteq Requests
    BY InServiceIs
  <1>3. PICK V : V = Vocab \cup {PadToken} OBVIOUS
  <1>4. PICK tokens \in Seq(V) : tokens = AllTokens(r) /\ tokens # <<>> BY <1>1, <1>2, <1>3, TokensAre
  <1>5. CASE kind \in {"naive", "cached"}
    <2>1. Computed(r, Prefilled(i), Decoded(i)) = LonePass(AllTokens(r)) BY <1>2, <1>5 DEF Computed, Single
    <2> QED BY <1>4, <2>1, LonePassIsOwn
  <1>6. CASE kind \in {"static-batch", "continuous-batch", "disaggregated"}
    <2>1. PICK L : L = {Len(AllTokens(s)) : s \in Range(Prefilled(i))} OBVIOUS
    <2>2. PICK m \in Nat : m = MaxSeqLen BY ReplicaAssumption
    <2>3. L \in SUBSET Nat /\ \A l \in L : l <= m
      <3>1. ASSUME NEW s \in Range(Prefilled(i)) PROVE Len(AllTokens(s)) \in Nat /\ Len(AllTokens(s)) <= m
        <4>1. Len(AllTokens(s)) \in Nat BY <1>1, <1>2, TokensAre
        <4>2. ~(Len(AllTokens(s)) > m) BY <2>2 DEF Overruns
        <4> QED BY <4>1, <4>2
      <3> QED BY <2>1, <3>1
    <2>4. PICK l \in L : l = Len(tokens) BY <1>2, <1>4, <2>1
    <2>5. PICK width \in Nat : width = Longest(L) /\ l <= width BY <2>2, <2>3, LongestIs
    <2>6. Computed(r, Prefilled(i), Decoded(i)) = PrefillCache(tokens, width)
      BY <1>2, <1>4, <1>6, <2>1, <2>5 DEF Computed, Single
    <2>7. Len(tokens) <= width BY <2>4, <2>5
    <2> QED BY <1>4, <2>6, <2>7, PrefillIsOwn
  <1> QED BY <1>1, <1>5, <1>6, KindsAre

\* What is computed for a request that is decoded and not over, likewise.
LEMMA DecodesOwn ==
  ASSUME Arranged, NEW i \in Replicas, ~Overruns(i), NEW r \in Range(Decoded(i)),
         ~finished[r], Served(r), \A s \in Requests : Served(s)
  PROVE  Computed(r, Prefilled(i), Decoded(i)) = OwnCache(AllTokens(r))
  <1>1. FleetTypes BY DEF Arranged
  <1>2. /\ r \in Requests /\ r \notin Range(Prefilled(i)) /\ output[r] # <<>>
        /\ Range(Decoded(i)) \subseteq Requests
    BY InServiceIs
  <1>3. PICK V : V = Vocab \cup {PadToken} OBVIOUS
  <1>4. PICK all \in Seq(V) : all = AllTokens(r) /\ all # <<>> BY <1>1, <1>2, <1>3, TokensAre
  <1>5. PICK s \in Seq(V), e \in V : /\ s = Front(all) /\ e = Last(all) /\ Append(s, e) = all
                                     /\ Len(s) = Len(all) - 1 /\ Len(all) \in Nat \ {0}
    BY <1>4, FrontAndLast
  <1>6. past[r] = OwnCache(s) BY <1>2, <1>4, <1>5 DEF Served
  <1>7. Len(past[r]) = Len(s) /\ Len(s) \in Nat BY <1>6, OwnCacheIs
  <1>8. Last(output[r]) = e
    <2>1. PICK p \in Seq(V), o \in Seq(V) : p = Prompt[r] /\ o = output[r] /\ o # <<>>
      BY <1>1, <1>2, <1>3, TokensAre
    <2>2. all = p \o o BY <1>4, <2>1 DEF AllTokens
    <2>3. Len(o) \in Nat \ {0} /\ Last(o) = o[Len(o)] /\ Last(all) = all[Len(all)]
      BY <1>4, <2>1, FrontLast
    <2>4. /\ Len(all) = Len(p) + Len(o) /\ Len(p) \in Nat
          /\ \A k \in 1 .. Len(p) + Len(o) : all[k] = IF k <= Len(p) THEN p[k] ELSE o[k - Len(p)]
      BY <2>2, ConcatProperties, LenProperties
    <2>5. PICK k : k = Len(all) OBVIOUS
    <2>6. k \in 1 .. Len(p) + Len(o) /\ ~(k <= Len(p)) /\ k - Len(p) = Len(o) BY <2>3, <2>4, <2>5
    <2>7. all[k] = o[Len(o)] BY <2>4, <2>6
    <2> QED BY <1>5, <2>1, <2>3, <2>5, <2>7
  <1>9. CASE kind = "naive"
    <2>1. Computed(r, Prefilled(i), Decoded(i)) = LonePass(AllTokens(r)) BY <1>9 DEF Computed, Single
    <2> QED BY <1>4, <2>1, LonePassIsOwn
  <1>10. CASE kind = "cached"
    <2>1. Computed(r, Prefilled(i), Decoded(i)) = LoneDecode(r) BY <1>2, <1>10 DEF Computed, Single
    <2>2. LoneDecode(r) =
              Append(OwnCache(s), Forward(Columns(OwnCache(s)), Columns(<<e>>), Columns(<<Len(s)>>),
                                          AllValid(Len(s) + 1))[Len(s)])
      BY <1>4, <1>5, <1>6, <1>7, <1>8 DEF LoneDecode
    <2>3. LoneDecode(r) = OwnCache(Append(s, e)) BY <2>2, LoneDecodeIsOwn
    <2> QED BY <1>4, <1>5, <2>1, <2>3
  <1>11. CASE kind \in {"static-batch", "continuous-batch", "disaggregated"}
    <2>1. PICK L : L = {Len(past[x]) : x \in Range(Decoded(i))} OBVIOUS
    <2>2. PICK m \in Nat : m = MaxSeqLen BY ReplicaAssumption
    <2>3. L \in SUBSET Nat /\ \A l \in L : l <= m
      <3>1. ASSUME NEW x \in Range(Decoded(i)) PROVE Len(past[x]) \in Nat /\ Len(past[x]) <= m
        <4>1. past[x] \in Seq(Range(past[x])) BY <1>2 DEF Served
        <4>2. Len(past[x]) \in Nat BY <4>1, LenProperties
        <4>3. ~(Len(past[x]) >= m) BY <1>11, <2>2 DEF Overruns, Single
        <4> QED BY <4>2, <4>3
      <3> QED BY <2>1, <3>1
    <2>4. PICK l \in L : l = Len(s) BY <1>7, <2>1
    <2>5. PICK width \in Nat : width = Longest(L) /\ l <= width BY <2>2, <2>3, LongestIs
    <2>6. Computed(r, Prefilled(i), Decoded(i)) = DecodeCache(OwnCache(s), e, width)
      BY <1>2, <1>6, <1>8, <1>11, <2>1, <2>5 DEF Computed, Single
    <2>7. Len(s) <= width BY <2>4, <2>5
    <2>8. DecodeCache(OwnCache(s), e, width) = OwnCache(Append(s, e)) BY <2>7, DecodeIsOwn
    <2> QED BY <1>4, <1>5, <2>6, <2>8
  <1> QED BY <1>1, <1>9, <1>10, <1>11, KindsAre

\* A request that is over is decoded on by static batching only.
LEMMA DecodedOver ==
  ASSUME Arranged, NEW i \in Replicas, NEW r \in Range(Decoded(i)), finished[r]
  PROVE  kind = "static-batch"
  <1>1. FleetTypes /\ Lists(i) BY DEF Arranged
  <1>2. Sharing(i) BY <1>1, SharingIs
  <1>3. r \in Range(Kept(i)) BY <1>2 DEF Sharing
  <1>4. kind \notin {"continuous-batch", "disaggregated"} BY <1>2, <1>3 DEF Sharing
  <1>5. ~Single
    <2>1. r \in Range(running[i]) BY <1>2, <1>3, <1>4 DEF Sharing
    <2> QED BY <1>1, <2>1 DEF Lists
  <1> QED BY <1>1, <1>4, <1>5, KindsAre

\* Whatever is behind a sequence, the result is one.
LEMMA GrownIs ==
  ASSUME NEW s, s \in Seq(Range(s)), NEW e
  PROVE  Append(s, e) \in Seq(Range(Append(s, e))) /\ Append(s, e) # <<>>
  <1>1. PICK S : S = Range(s) \cup {e} OBVIOUS
  <1>2. s \in Seq(S) /\ e \in S BY <1>1
  <1>3. PICK t \in Seq(S) : t = Append(s, e) /\ t # <<>> BY <1>2, AppendProperties
  <1>4. t \in Seq(Range(t))
    <2>1. DOMAIN t = 1 .. Len(t) /\ Len(t) \in Nat /\ t \in [1 .. Len(t) -> S] BY LenProperties
    <2>2. \A k \in 1 .. Len(t) : t[k] \in Range(t) BY <2>1 DEF Range
    <2>3. t \in [1 .. Len(t) -> Range(t)] BY <2>1, <2>2
    <2> QED BY <2>1, <2>3, SeqDef
  <1> QED BY <1>3, <1>4

LEMMA StepServed ==
  ASSUME Arranged, \A r \in Requests : Served(r), \A i \in Replicas : ~Overruns(i),
         NEW token, StepIs(token), NEW r \in Requests
  PROVE  Served(r)'
  <1>1. FleetTypes /\ Served(r) BY DEF Arranged
  <1>2. PICK o \in Seq(Vocab) : o = output[r] BY <1>1, Hears
  <1>3. PICK V : V = Vocab \cup {PadToken} OBVIOUS
  <1>4. CASE ~InService(r)
    <2>1. past'[r] = past[r] BY <1>4 DEF StepIs
    <2>2. r \notin Talking BY <1>4 DEF Talking
    <2>3. output'[r] = output[r] /\ finished'[r] = finished[r] BY <1>1, <2>2, Hears
    <2>4. AllTokens(r)' = AllTokens(r) BY <2>3 DEF AllTokens
    <2> QED BY <1>1, <2>1, <2>3, <2>4 DEF Served
  <1>5. CASE InService(r)
    <2>1. PICK i \in Replicas : i = placed[r] BY <1>1, <1>5 DEF InService, FleetTypes
    <2>2. r \in Range(Prefilled(i)) \cup Range(Decoded(i)) BY <1>5, <2>1 DEF InService
    <2>3. past'[r] = Computed(r, Prefilled(i), Decoded(i)) BY <1>5, <2>1 DEF StepIs
    <2>4. CASE ~finished[r]
      <3>1. r \in Talking BY <1>5, <2>4 DEF Talking
      <3>2. /\ output'[r] = Append(o, token[r]) /\ token[r] \in Vocab /\ output'[r] # <<>>
            /\ Len(output'[r]) = Len(o) + 1
            /\ finished'[r] = (finished[r] \/ (r \in Talking /\ EndsWith(r, output'[r])))
        BY <1>1, <1>2, <3>1, Hears
      <3>3. finished'[r] <=> output'[r] # <<>> /\ EndsWith(r, output'[r]) BY <2>4, <3>1, <3>2
      <3>4. Len(output'[r]) <= MaxTokens[r]
        <4>1. PICK m \in Nat \ {0}, n \in Nat : m = MaxTokens[r] /\ n = Len(o)
          BY ReplicaAssumption, LenProperties
        <4>2. n < m
          <5>1. CASE o = <<>>
            <6>1. n = 0 BY <4>1, <5>1
            <6> QED BY <6>1
          <5>2. CASE o # <<>>
            <6>1. ~EndsWith(r, o) BY <1>1, <1>2, <2>4, <5>2 DEF Served
            <6>2. ~(n >= m) BY <4>1, <6>1 DEF EndsWith
            <6> QED BY <6>2
          <5> QED BY <5>1, <5>2
        <4> QED BY <3>2, <4>1, <4>2
      <3>5. past'[r] = OwnCache(AllTokens(r))
        <4>1. ~Overruns(i) OBVIOUS
        <4> QED BY <2>2, <2>3, <2>4, <4>1, PrefillsOwn, DecodesOwn
      <3>6. Front(AllTokens(r)') = AllTokens(r)
        <4>1. PICK p \in Seq(V) : p = Prompt[r] BY <1>1, <1>3, TokensAre
        <4>2. o \in Seq(V) /\ token[r] \in V BY <1>3, <3>2
        <4>3. Front(p \o Append(o, token[r])) = p \o o BY <4>2, FrontOfMore
        <4>4. AllTokens(r)' = p \o Append(o, token[r]) BY <3>2, <4>1 DEF AllTokens
        <4>5. AllTokens(r) = p \o o BY <1>2, <4>1 DEF AllTokens
        <4> QED BY <4>3, <4>4, <4>5
      <3>7. past'[r] \in Seq(Range(past'[r])) /\ past'[r] # <<>>
        <4>1. PICK all \in Seq(V) : all = AllTokens(r) /\ all # <<>> BY <1>1, <1>3, TokensAre
        <4>2. PICK c : c = OwnCache(all) OBVIOUS
        <4>3. Len(c) = Len(all) /\ Len(all) \in Nat /\ c \in Seq(Range(c)) BY <4>2, OwnCacheIs
        <4>4. Len(all) # 0 BY <4>1, EmptySeq
        <4>5. c # <<>> BY <4>3, <4>4
        <4> QED BY <3>5, <4>1, <4>2, <4>3, <4>5
      <3> QED BY <3>2, <3>3, <3>4, <3>5, <3>6, <3>7 DEF Served
    <2>5. CASE finished[r]
      <3>1. r \notin Talking BY <2>5 DEF Talking
      <3>2. output'[r] = output[r] /\ finished'[r] = finished[r] BY <1>1, <3>1, Hears
      <3>3. output[r] # <<>> BY <1>1, <2>5 DEF Served
      <3>4. r \in Range(Decoded(i)) /\ r \notin Range(Prefilled(i)) BY <2>2, <3>3, InServiceIs
      <3>5. kind = "static-batch" BY <2>5, <3>4, DecodedOver
      <3>6. PICK w, e : w = past[r] /\ w \in Seq(Range(w)) /\ past'[r] = Append(w, e)
        <4>1. PICK width : past'[r] = DecodeCache(past[r], Last(output[r]), width)
          BY <2>3, <3>4, <3>5 DEF Computed, Single
        <4> QED BY <1>1, <4>1 DEF DecodeCache, Served
      <3>7. past'[r] \in Seq(Range(past'[r])) /\ past'[r] # <<>> BY <3>6, GrownIs
      <3> QED BY <1>1, <2>5, <3>2, <3>3, <3>7 DEF Served
    <2> QED BY <2>4, <2>5
  <1> QED BY <1>4, <1>5

--------------------------------------------------------------------------------
(* What is counted in a step. *)

LEMMA StepTypes ==
  ASSUME Arranged, \A r \in Requests : Served(r), NEW token, StepIs(token), index' = index,
         loop' = loop, in_flight' = in_flight, raised' = raised, reported' \in Nat,
         loop = "open" => reported' = 0
  PROVE  FleetTypes'
  <1>1. FleetTypes BY DEF Arranged
  <1>2. waiting' \in [Replicas -> ListOf(Requests)] /\ running' \in [Replicas -> ListOf(Requests)]
    <2>1. waiting' = [i \in Replicas |-> waiting'[i]] /\ running' = [i \in Replicas |-> running'[i]]
      BY DEF StepIs
    <2>2. \A i \in Replicas : waiting'[i] \in ListOf(Requests) /\ running'[i] \in ListOf(Requests)
      BY StepLists
    <2> QED BY <2>1, <2>2
  <1>3. output' \in [Requests -> Seq(Vocab)] /\ finished' \in [Requests -> BOOLEAN]
    <2>1. output' = [r \in Requests |-> output'[r]] /\ finished' = [r \in Requests |-> finished'[r]]
      BY DEF StepIs
    <2>2. \A r \in Requests : output'[r] \in Seq(Vocab) /\ finished'[r] \in BOOLEAN BY <1>1, Hears
    <2> QED BY <2>1, <2>2
  <1>4. total_slot_steps' \in Nat /\ wasted_slot_steps' \in Nat /\ transfers' \in Nat
    <2>1. \A A \in SUBSET Requests : Cardinality(A) \in Nat BY TraceOnce, FS_Subset, FS_CardinalityType
    <2>2. PICK A, B, C \in SUBSET Requests :
              /\ A = Serving /\ B = {r \in Serving : finished[r]} /\ C = {r \in Serving : past[r] = <<>>}
      BY DEF Serving
    <2>3. Cardinality(A) \in Nat /\ Cardinality(B) \in Nat /\ Cardinality(C) \in Nat BY <2>1
    <2> QED BY <1>1, <2>2, <2>3 DEF StepIs, FleetTypes
  <1>5. UNCHANGED <<kind, policy, next, home, max_imbalance, assignments, placed>>
    BY DEF StepIs, routerVars
  <1> QED BY <1>1, <1>2, <1>3, <1>4, <1>5 DEF FleetTypes

\* Static batching pays for the slots of everybody in the batch, and what it
\* wastes are those who are over: the rest are tokens delivered.
LEMMA StepSlots ==
  ASSUME Arranged, \A r \in Requests : Served(r), Slots, NEW token, StepIs(token)
  PROVE  Slots'
  <1>1. FleetTypes BY DEF Arranged
  <1>2. kind' = kind BY DEF StepIs
  <1> SUFFICES ASSUME kind \in {"static-batch", "continuous-batch"}
      PROVE  /\ total_slot_steps' - wasted_slot_steps' = SumFunctionOnSet(Said', Requests)
             /\ kind = "continuous-batch" => wasted_slot_steps' = 0
    BY <1>2 DEF Slots
  <1>3. PICK A \in SUBSET Requests, B \in SUBSET Requests :
            A = {r \in Serving : finished[r]} /\ B = Talking
    BY DEF Serving, Talking
  <1>4. Serving = A \cup B /\ A \cap B = {} BY <1>3 DEF Serving, Talking
  <1>5. /\ IsFiniteSet(A) /\ IsFiniteSet(B) /\ Cardinality(A) \in Nat /\ Cardinality(B) \in Nat
    BY TraceOnce, FS_Subset, FS_CardinalityType
  <1>6. Cardinality(A \cup B) = Cardinality(A) + Cardinality(B) BY <1>4, <1>5, CountUnion
  <1>7. PICK before : before = Said OBVIOUS
  <1>8. PICK after : after = Said' OBVIOUS
  <1>9. /\ before \in [Requests -> Int] /\ after \in [Requests -> Int]
        /\ \A r \in B : after[r] = before[r] + 1
        /\ \A r \in Requests \ B : after[r] = before[r]
    <2>1. ASSUME NEW r \in Requests
          PROVE  /\ before[r] \in Int /\ after[r] \in Int
                 /\ r \in B => after[r] = before[r] + 1
                 /\ r \notin B => after[r] = before[r]
      <3>1. before[r] = Len(output[r]) /\ after[r] = Len(output'[r]) BY <1>7, <1>8 DEF Said
      <3>2. /\ Len(output[r]) \in Nat
            /\ r \in Talking => Len(output'[r]) = Len(output[r]) + 1
            /\ r \notin Talking => output'[r] = output[r]
        BY <1>1, Hears
      <3> QED BY <1>3, <3>1, <3>2
    <2>2. DOMAIN before = Requests /\ DOMAIN after = Requests BY <1>7, <1>8 DEF Said
    <2>3. before = [r \in Requests |-> before[r]] /\ after = [r \in Requests |-> after[r]]
      BY <1>7, <1>8 DEF Said
    <2> QED BY <2>1, <2>3
  <1>10. SumFunctionOnSet(after, Requests) = SumFunctionOnSet(before, Requests) + Cardinality(B)
    <2>1. IsFiniteSet(Requests) BY TraceOnce
    <2>2. before \in [Requests -> Int] /\ after \in [Requests -> Int] /\ B \in SUBSET Requests BY <1>9
    <2>3. \A r \in B : after[r] = before[r] + 1 BY <1>9
    <2>4. \A r \in Requests \ B : after[r] = before[r] BY <1>9
    <2> HIDE <1>9
    <2> QED BY <2>1, <2>2, <2>3, <2>4, SumRaise
  <1>11. SumFunctionOnSet(before, Requests) \in Int BY <1>9, TraceOnce, SumPart
  <1>12. /\ total_slot_steps' = total_slot_steps + Cardinality(A \cup B)
         /\ wasted_slot_steps' = wasted_slot_steps + Cardinality(A)
    BY <1>3, <1>4 DEF StepIs
  <1>13. PICK t \in Nat, w \in Nat, a \in Nat, b \in Nat, s \in Int :
             /\ t = total_slot_steps /\ w = wasted_slot_steps /\ a = Cardinality(A)
             /\ b = Cardinality(B) /\ s = SumFunctionOnSet(before, Requests)
    BY <1>1, <1>5, <1>11 DEF FleetTypes
  <1>14. t - w = s BY <1>7, <1>13 DEF Slots
  <1>15. total_slot_steps' - wasted_slot_steps' = SumFunctionOnSet(Said', Requests)
    <2>1. total_slot_steps' = t + (a + b) /\ wasted_slot_steps' = w + a BY <1>6, <1>12, <1>13
    <2>2. SumFunctionOnSet(Said', Requests) = s + b BY <1>8, <1>10, <1>13
    <2>3. (t + (a + b)) - (w + a) = s + b BY <1>14
    <2> QED BY <2>1, <2>2, <2>3
  <1>16. ASSUME kind = "continuous-batch" PROVE wasted_slot_steps' = 0
    <2>1. A = {}
      <3>1. ASSUME NEW r \in A PROVE FALSE
        <4>1. r \in Requests /\ InService(r) /\ finished[r] BY <1>3 DEF Serving
        <4>2. PICK i \in Replicas : i = placed[r] BY <1>1, <4>1 DEF InService, FleetTypes
        <4>3. output[r] # <<>> BY <4>1 DEF Served
        <4>4. r \in Range(Decoded(i)) BY <4>1, <4>2, <4>3, InServiceIs DEF InService
        <4>5. kind = "static-batch" BY <4>1, <4>4, DecodedOver
        <4> QED BY <1>16, <4>5
      <3> QED BY <3>1
    <2>2. Cardinality(A) = 0 BY <2>1, FS_EmptySet
    <2>3. wasted_slot_steps = 0 BY <1>16 DEF Slots
    <2> QED BY <1>12, <2>2, <2>3
  <1> QED BY <1>15, <1>16

\* A cache is handed over once, when its request is prefilled.
LEMMA StepHandoffs ==
  ASSUME Arranged, \A r \in Requests : Served(r), Handoffs, NEW token, StepIs(token)
  PROVE  Handoffs'
  <1>1. FleetTypes BY DEF Arranged
  <1>2. kind' = kind BY DEF StepIs
  <1> SUFFICES ASSUME kind = "disaggregated"
      PROVE  transfers' = Count({r \in Requests : output'[r] # <<>>})
    BY <1>2 DEF Handoffs
  <1>3. PICK A \in SUBSET Requests, B \in SUBSET Requests :
            A = {r \in Requests : output[r] # <<>>} /\ B = {r \in Serving : past[r] = <<>>}
    BY DEF Serving
  <1>4. ASSUME NEW r \in Requests PROVE output'[r] # <<>> <=> r \in A \/ r \in B
    <2>1. past[r] = <<>> <=> output[r] = <<>> BY DEF Served
    <2>2. output[r] = <<>> => ~finished[r] BY DEF Served
    <2>3. r \in Talking => output'[r] # <<>> BY <1>1, Hears
    <2>4. r \notin Talking => output'[r] = output[r] BY <1>1, Hears
    <2>5. r \in B => r \in Talking BY <1>3, <2>1, <2>2 DEF Serving, Talking
    <2>6. r \in Talking => r \in A \/ r \in B BY <1>3, <2>1 DEF Serving, Talking
    <2> QED BY <1>3, <2>3, <2>4, <2>5, <2>6
  <1>5. {r \in Requests : output'[r] # <<>>} = A \cup B BY <1>3, <1>4
  <1>6. A \cap B = {} BY <1>3 DEF Served, Serving
  <1>7. IsFiniteSet(A) /\ IsFiniteSet(B) BY TraceOnce, FS_Subset
  <1>8. Cardinality(A \cup B) = Cardinality(A) + Cardinality(B) BY <1>6, <1>7, CountUnion
  <1>9. transfers = Cardinality(A) BY <1>3 DEF Handoffs, Count
  <1>10. transfers' = transfers + Cardinality(B) BY <1>3 DEF StepIs
  <1> QED BY <1>5, <1>8, <1>9, <1>10 DEF Count

\* Those who have just ended are those the closed loop hears of.
LEMMA StepReports ==
  ASSUME Arranged, \A r \in Requests : Served(r), InFlight, NEW token, StepIs(token),
         index' = index, reported = 0, loop # "open"
  PROVE  in_flight - Cardinality({r \in Requests : output'[r] # output[r] /\ finished'[r]}) =
             Count({r \in submitted' : ~finished'[r]})
  <1>1. FleetTypes BY DEF Arranged
  <1>2. PICK A, B, C :
            /\ A \in SUBSET Requests /\ B \in SUBSET Requests
            /\ A = {r \in submitted : ~finished[r]}
            /\ B = {r \in Requests : output'[r] # output[r] /\ finished'[r]}
            /\ C = {r \in submitted' : ~finished'[r]}
    BY <1>1, SubmittedType
  <1>3. submitted' = submitted BY DEF submitted
  <1>4. ASSUME NEW r \in Requests PROVE /\ r \in B => r \in A
                                        /\ r \in C <=> r \in A /\ r \notin B
    <2>1. r \in Talking => /\ output'[r] # output[r] /\ ~finished[r] /\ r \in submitted
      <3>1. r \in Talking => placed[r] # 0 /\ ~finished[r] BY DEF Talking, InService
      <3>2. placed[r] # 0 => r \in submitted BY DEF Arranged, Whereabouts
      <3>3. r \in Talking => output'[r] # output[r] BY <1>1, Hears
      <3> QED BY <3>1, <3>2, <3>3
    <2>2. r \notin Talking => output'[r] = output[r] /\ finished'[r] = finished[r] BY <1>1, Hears
    <2>3. finished[r] => finished'[r] BY <1>1, Hears, Zenon
    <2>4. r \in A <=> r \in submitted /\ ~finished[r] BY <1>2
    <2>5. r \in B <=> output'[r] # output[r] /\ finished'[r] BY <1>2
    <2>6. r \in C <=> r \in submitted /\ ~finished'[r] BY <1>2, <1>3
    <2>7. r \in B => r \in A BY <2>1, <2>2, <2>4, <2>5
    <2>8. CASE r \in Talking BY <2>1, <2>4, <2>5, <2>6, <2>8
    <2>9. CASE r \notin Talking
      <3>1. finished'[r] <=> finished[r] BY <2>2, <2>9
      <3>2. r \notin B BY <2>2, <2>5, <2>9
      <3> QED BY <2>4, <2>6, <2>7, <3>1, <3>2
    <2> QED BY <2>7, <2>8, <2>9
  <1>5. C = A \ B /\ A \cap B = B BY <1>1, <1>2, <1>3, <1>4, SubmittedType
  <1>6. IsFiniteSet(A) /\ IsFiniteSet(B) BY <1>2, TraceOnce, FS_Subset
  <1>7. Cardinality(A \ B) = Cardinality(A) - Cardinality(A \cap B) BY <1>6, FS_Difference
  <1>8. in_flight = Cardinality(A)
    <2>1. in_flight - 0 = Count(A) BY <1>2 DEF InFlight
    <2>2. in_flight \in Nat BY <1>1 DEF FleetTypes
    <2> QED BY <2>1, <2>2 DEF Count
  <1> QED BY <1>2, <1>5, <1>7, <1>8 DEF Count

LEMMA StepFleetStep ==
  ASSUME FleetInv, StepFleet
  PROVE  FleetInv'
  <1>1. /\ Arranged /\ FleetTypes /\ (\A r \in Requests : Served(r))
        /\ Spread /\ Affine /\ Assigned /\ InFlight /\ Slots /\ Handoffs /\ OverrunsOnlyStatic
    BY DEF FleetInv, Arranged
  <1>2. /\ \A i \in Replicas : ~Overruns(i)
        /\ Step /\ reported = 0
        /\ reported' = IF loop = "open" THEN 0
                       ELSE Cardinality({r \in Requests : output'[r] # output[r] /\ finished'[r]})
        /\ loop' = loop /\ index' = index /\ in_flight' = in_flight /\ raised' = raised
    BY DEF StepFleet, CanStep
  <1>3. PICK token : StepIs(token) BY <1>1, <1>2, StepDoes
  <1>4. reported' \in Nat /\ (loop = "open" => reported' = 0)
    <2>1. PICK A \in SUBSET Requests : A = {r \in Requests : output'[r] # output[r] /\ finished'[r]}
      OBVIOUS
    <2>2. Cardinality(A) \in Nat BY TraceOnce, FS_Subset, FS_CardinalityType
    <2> QED BY <1>2, <2>1, <2>2
  <1>5. FleetTypes' BY <1>1, <1>2, <1>3, <1>4, StepTypes
  <1>6. (\A i \in Replicas : Lists(i)') /\ (\A r \in Requests : Whereabouts(r)')
    BY <1>1, <1>2, <1>3, StepLists
  <1>7. Arranged' BY <1>5, <1>6 DEF Arranged
  <1>8. \A r \in Requests : Served(r)' BY <1>1, <1>2, <1>3, StepServed
  <1>9. UNCHANGED <<kind, policy, next, home, max_imbalance, assignments, placed>> /\ submitted' = submitted
    BY <1>2, <1>3 DEF StepIs, routerVars, submitted
  <1>10. Spread' /\ Affine' /\ Assigned' BY <1>1, <1>9 DEF Spread, Affine, Assigned
  <1>11. InFlight'
    <2>1. CASE loop = "open" BY <1>2, <2>1 DEF InFlight
    <2>2. CASE loop # "open"
      <3>1. in_flight - reported' = Count({r \in submitted' : ~finished'[r]})
        BY <1>1, <1>2, <1>3, <2>2, StepReports
      <3> QED BY <1>1, <1>2, <2>2, <3>1 DEF InFlight
    <2> QED BY <2>1, <2>2
  <1>12. Slots' /\ Handoffs' BY <1>1, <1>3, StepSlots, StepHandoffs
  <1>13. OverrunsOnlyStatic' BY <1>1, <1>2, <1>9 DEF OverrunsOnlyStatic
  <1> QED BY <1>7, <1>8, <1>10, <1>11, <1>12, <1>13 DEF FleetInv

--------------------------------------------------------------------------------
(* The invariant holds. *)

\* Only a sequence that is over can outgrow the rotary table, and only static
\* batching still decodes one.
LEMMA OverrunsStatic ==
  ASSUME FleetInv, NEW i \in Replicas, Overruns(i)
  PROVE  kind = "static-batch"
  <1>1. Arranged /\ FleetTypes /\ (\A r \in Requests : Served(r)) BY DEF FleetInv, Arranged
  <1>2. ~\E r \in Range(Prefilled(i)) : Len(AllTokens(r)) > MaxSeqLen
    <2>1. SUFFICES ASSUME NEW r \in Range(Prefilled(i)) PROVE ~(Len(AllTokens(r)) > MaxSeqLen)
      OBVIOUS
    <2>2. r \in Requests /\ output[r] = <<>> BY <1>1, InServiceIs
    <2>3. Len(output[r]) = 0 BY <2>2
    <2>4. PICK p \in Nat, m \in Nat \ {0}, top \in Nat :
              /\ p = Len(Prompt[r]) /\ m = MaxTokens[r] /\ top = MaxSeqLen /\ p + m - 1 <= top
      BY <1>1, <2>2, TokensAre
    <2>5. Len(AllTokens(r)) = p + 0 BY <1>1, <2>2, <2>3, <2>4, TokensAre
    <2> QED BY <2>4, <2>5
  <1>3. PICK r \in Range(Decoded(i)) :
            (IF Single THEN Len(AllTokens(r)) - 1 ELSE Len(past[r])) >= MaxSeqLen
    BY <1>2 DEF Overruns
  <1>4. r \in Requests /\ output[r] # <<>> BY <1>1, InServiceIs
  <1>5. SUFFICES ASSUME ~finished[r] PROVE FALSE
    BY <1>1, DecodedOver
  <1>6. PICK V : V = Vocab \cup {PadToken} OBVIOUS
  <1>7. PICK all \in Seq(V) : all = AllTokens(r) /\ all # <<>> BY <1>1, <1>4, <1>6, TokensAre
  <1>8. past[r] = OwnCache(Front(all)) BY <1>1, <1>4, <1>5, <1>7 DEF Served
  <1>9. Len(past[r]) = Len(all) - 1
    <2>1. Front(all) \in Seq(V) /\ Len(Front(all)) = Len(all) - 1 BY <1>7, FrontAndLast
    <2> QED BY <1>8, <2>1, OwnCacheIs
  <1>10. Len(output[r]) < MaxTokens[r]
    <2>1. ~EndsWith(r, output[r]) BY <1>1, <1>4, <1>5 DEF Served
    <2>2. ~(Len(output[r]) >= MaxTokens[r]) BY <2>1 DEF EndsWith
    <2>3. Len(output[r]) \in Nat /\ MaxTokens[r] \in Nat BY <1>1, <1>4, TokensAre
    <2> QED BY <2>2, <2>3
  <1>11. Len(all) - 1 >= MaxSeqLen BY <1>3, <1>7, <1>9
  <1>12. PICK p \in Nat, m \in Nat, top \in Nat :
             /\ p = Len(Prompt[r]) /\ m = MaxTokens[r] /\ top = MaxSeqLen
             /\ p + m - 1 <= top
    BY <1>1, <1>4, TokensAre
  <1>13. PICK o \in Nat : o = Len(output[r]) BY <1>1, <1>4, TokensAre
  <1>14. Len(all) = p + o BY <1>1, <1>4, <1>7, <1>12, <1>13, TokensAre
  <1>15. o < m BY <1>10, <1>12, <1>13
  <1>16. p + o - 1 >= top BY <1>11, <1>12, <1>14
  <1>17. p + m - 1 <= top BY <1>12
  <1> QED BY <1>15, <1>16, <1>17

LEMMA FleetStep == FleetInv /\ [Next]_vars => FleetInv'
  <1> SUFFICES ASSUME FleetInv, [Next]_vars PROVE FleetInv'
    OBVIOUS
  <1>1. FleetTypes /\ InFlight /\ OverrunsOnlyStatic BY DEF FleetInv, Arranged
  <1>2. CASE OpenSubmit
    <2>1. Submit /\ loop' = loop /\ in_flight' = in_flight /\ reported' = reported /\ raised' = raised
          /\ loop = "open"
      BY <1>2 DEF OpenSubmit
    <2> QED BY <1>1, <2>1, SubmitStep DEF FleetTypes
  <1>3. CASE StartWorker
    <2>1. /\ loop = "starting" /\ in_flight < NWorkers /\ Submit
          /\ in_flight' = in_flight + 1 /\ loop' = loop /\ reported' = reported /\ raised' = raised
      BY <1>3 DEF StartWorker
    <2>2. PICK n \in Nat : n = NWorkers BY TraceAssumption
    <2>3. in_flight' \in Nat /\ in_flight' <= NWorkers
          /\ in_flight' - reported' = in_flight - reported + 1
      BY <1>1, <2>1, <2>2 DEF FleetTypes
    <2> QED BY <1>1, <2>1, <2>3, SubmitStep DEF FleetTypes
  <1>4. CASE StartServing
    <2>1. /\ loop = "starting" /\ loop' = "serving"
          /\ UNCHANGED <<replicaVars, routerVars, index>>
          /\ in_flight' = in_flight /\ reported' = reported /\ raised' = raised
      BY <1>4 DEF StartServing
    <2> QED BY <1>1, <2>1, DriverStep DEF FleetTypes, InFlight, OverrunsOnlyStatic
  <1>5. CASE StepFleet BY <1>5, StepFleetStep
  <1>6. CASE StepRaises
    <2>1. /\ raised' = TRUE /\ UNCHANGED <<replicaVars, routerVars, index>>
          /\ loop' = loop /\ in_flight' = in_flight /\ reported' = reported
          /\ \E i \in Replicas : Overruns(i)
      BY <1>6 DEF StepRaises
    <2>2. kind = "static-batch" BY <2>1, OverrunsStatic
    <2> QED BY <1>1, <2>1, <2>2, DriverStep DEF FleetTypes, InFlight
  <1>7. CASE WorkerFreed
    <2>1. reported > 0 /\ reported' = reported - 1 /\ loop' = loop /\ raised' = raised
      BY <1>7 DEF WorkerFreed
    <2>2. reported' \in Nat /\ loop # "open" BY <1>1, <2>1 DEF FleetTypes
    <2>3. CASE pending # <<>>
      <3>1. Submit /\ in_flight' = in_flight BY <1>7, <2>3 DEF WorkerFreed
      <3>2. in_flight' - reported' = in_flight - reported + 1 /\ in_flight' <= NWorkers
        BY <1>1, <2>1, <2>2, <3>1 DEF FleetTypes, InFlight
      <3> QED BY <1>1, <2>1, <2>2, <3>1, <3>2, SubmitStep DEF FleetTypes
    <2>4. CASE pending = <<>>
      <3>1. in_flight' = in_flight - 1 /\ UNCHANGED <<replicaVars, routerVars, index>>
        BY <1>7, <2>4 DEF WorkerFreed
      <3>2. PICK c \in Nat : c = Count({r \in submitted : ~finished[r]})
        <4>1. PICK A \in SUBSET Requests : A = {r \in submitted : ~finished[r]}
          BY <1>1, SubmittedType
        <4>2. Cardinality(A) \in Nat BY TraceOnce, FS_Subset, FS_CardinalityType
        <4> QED BY <4>1, <4>2 DEF Count
      <3>3. in_flight - reported = c /\ in_flight <= NWorkers BY <1>1, <2>2, <3>2 DEF InFlight
      <3>4. PICK n \in Nat : n = NWorkers BY TraceAssumption
      <3>5. in_flight' \in Nat /\ in_flight' - reported' = c /\ in_flight' <= NWorkers
        BY <1>1, <2>1, <3>1, <3>3, <3>4 DEF FleetTypes
      <3> QED BY <1>1, <2>1, <2>2, <3>1, <3>2, <3>5, DriverStep DEF FleetTypes, OverrunsOnlyStatic
    <2> QED BY <2>3, <2>4
  <1>8. CASE UNCHANGED vars
    <2>1. UNCHANGED <<replicaVars, routerVars, index>> /\ UNCHANGED <<loop, in_flight, reported, raised>>
      BY <1>8 DEF vars, driverVars
    <2> QED BY <1>1, <2>1, DriverStep DEF FleetTypes, InFlight, OverrunsOnlyStatic
  <1> QED BY <1>2, <1>3, <1>4, <1>5, <1>6, <1>7, <1>8 DEF Next

\* The invariant holds in every state of the fleet.
LEMMA FleetHolds == FairSpec => []FleetInv
  BY FleetInit, FleetStep, PTL DEF FairSpec

--------------------------------------------------------------------------------
(* What follows. *)

\* Who is live at a replica waits there, or runs and is not over.
LEMMA LiveIs ==
  ASSUME Arranged, \A r \in Requests : Served(r), NEW i \in Replicas
  PROVE  /\ Range(waiting[i]) \subseteq Requests /\ Range(running[i]) \subseteq Requests
         /\ Range(waiting[i]) \cap Range(running[i]) = {}
         /\ Live(i) = Range(waiting[i]) \cup {r \in Range(running[i]) : ~finished[r]}
  <1>1. FleetTypes /\ Lists(i) /\ (\A r \in Requests : Whereabouts(r)) /\ i # 0
    BY ReplicasAre DEF Arranged
  <1>2. Range(waiting[i]) \subseteq Requests /\ Range(running[i]) \subseteq Requests
    <2>1. waiting[i] \in ListOf(Requests) /\ running[i] \in ListOf(Requests) BY <1>1 DEF FleetTypes
    <2> QED BY <2>1, EmptyRange
  <1>3. \A r \in Range(waiting[i]) : placed[r] = i /\ output[r] = <<>> BY <1>1 DEF Lists
  <1>4. \A r \in Range(running[i]) : placed[r] = i /\ output[r] # <<>> BY <1>1 DEF Lists
  <1>5. \A r \in Range(waiting[i]) : ~finished[r] BY <1>2, <1>3 DEF Served
  <1>6. \A r \in Live(i) : r \in Range(waiting[i]) \cup Range(running[i]) /\ ~finished[r]
    BY <1>1 DEF Live, Whereabouts
  <1>7. \A r \in Range(waiting[i]) \cup {x \in Range(running[i]) : ~finished[x]} : r \in Live(i)
    BY <1>2, <1>3, <1>4, <1>5 DEF Live
  <1> QED BY <1>2, <1>3, <1>4, <1>6, <1>7

\* A single engine: what is left for the one it serves is not seen.
LEMMA SingleLoad ==
  ASSUME Arranged, \A r \in Requests : Served(r), NEW i \in Replicas, Single
  PROVE  SumFunction([r \in Range(running[i]) |-> Len(Prompt[r])]) =
             CostOf(Range(running[i])) -
                 SumFunction([r \in Range(running[i]) |-> MaxTokens[r] - Len(output[r])])
  <1>1. FleetTypes /\ Lists(i) BY DEF Arranged
  <1>2. PICK s \in ListOf(Requests) : s = running[i] BY <1>1 DEF FleetTypes
  <1>3. PICK R \in SUBSET Requests : R = Range(running[i]) BY <1>2, EmptyRange
  <1>4. \A x, y \in R : x = y BY <1>1, <1>2, <1>3, EmptyRange DEF Lists
  <1>5. PICK prompt, cost, left :
            /\ prompt = [r \in R |-> Len(Prompt[r])] /\ cost = [r \in R |-> Cost(r)]
            /\ left = [r \in R |-> MaxTokens[r] - Len(output[r])]
    OBVIOUS
  <1>6. DOMAIN prompt = R /\ DOMAIN cost = R /\ DOMAIN left = R BY <1>5
  <1>7. /\ SumFunction(prompt) = SumFunctionOnSet(prompt, R)
        /\ SumFunction(cost) = SumFunctionOnSet(cost, R)
        /\ SumFunction(left) = SumFunctionOnSet(left, R)
    BY <1>6 DEF SumFunction
  <1>8. SumFunctionOnSet(prompt, R) = SumFunctionOnSet(cost, R) - SumFunctionOnSet(left, R)
    <2>1. CASE R = {} BY <2>1, SumEmpty
    <2>2. CASE R # {}
      <3>1. PICK x \in R : R = {x} BY <1>4, <2>2
      <3>2. x \in Requests BY <3>1
      <3>3. PICK p \in Nat, o \in Nat, m \in Nat :
                p = Len(Prompt[x]) /\ o = Len(output[x]) /\ m = MaxTokens[x]
        BY <1>1, <3>2, TokensAre
      <3>4. o <= m BY <3>2, <3>3 DEF Served
      <3>5. PICK d \in Nat : d = m - o BY <3>4
      <3>6. Max({d, 0}) = d
        <4>1. Max({d, 0}) = IF d <= 0 THEN 0 ELSE d BY MaxOfTwo
        <4> QED BY <4>1
      <3>7. prompt[x] = p /\ cost[x] = p + d /\ left[x] = d
        BY <1>5, <3>1, <3>3, <3>5, <3>6 DEF Cost
      <3>8. prompt \in [R -> Int] /\ cost \in [R -> Int] /\ left \in [R -> Int]
        <4>1. \A r \in R : prompt[r] \in Int /\ cost[r] \in Int /\ left[r] \in Int
          BY <3>1, <3>7
        <4> QED BY <1>5, <4>1
      <3>9. IsFiniteSet(R) BY TraceOnce, FS_Subset
      <3>10. SumFunctionOnSet(prompt, {x}) = prompt[x] BY <3>8, <3>9, SumSingle
      <3>11. SumFunctionOnSet(cost, {x}) = cost[x] BY <3>8, <3>9, SumSingle
      <3>12. SumFunctionOnSet(left, {x}) = left[x] BY <3>8, <3>9, SumSingle
      <3>13. p = (p + d) - d OBVIOUS
      <3> QED BY <3>1, <3>7, <3>10, <3>11, <3>12, <3>13
    <2> QED BY <2>1, <2>2
  <1> QED BY <1>3, <1>5, <1>7, <1>8 DEF CostOf

LEMMA LoadFollows == FleetInv => LoadSeen
  <1> SUFFICES ASSUME FleetInv, NEW i \in Replicas
      PROVE  CASE Single -> Load(i) = CostOf(Live(i)) -
                       SumFunction([r \in Range(running[i]) |-> MaxTokens[r] - Len(output[r])])
               [] kind = "disaggregated" -> Load(i) = CostOf(Live(i) \ Range(running[i]))
               [] OTHER -> Load(i) = CostOf(Live(i)) + CostOf({r \in Range(running[i]) : finished[r]})
    BY DEF LoadSeen
  <1>1. Arranged /\ FleetTypes /\ (\A r \in Requests : Served(r)) BY DEF FleetInv, Arranged
  <1>2. PICK W \in SUBSET Requests, R \in SUBSET Requests :
            /\ W = Range(waiting[i]) /\ R = Range(running[i]) /\ W \cap R = {}
            /\ Live(i) = W \cup {r \in R : ~finished[r]}
    BY <1>1, LiveIs
  <1>3. PICK D \in SUBSET Requests, O \in SUBSET Requests :
            D = {r \in R : ~finished[r]} /\ O = {r \in R : finished[r]}
    OBVIOUS
  <1>4. PICK cost \in [Requests -> Nat] :
            \A S \in SUBSET Requests : CostOf(S) = SumFunctionOnSet(cost, S)
    BY <1>1, CostsAre
  <1>5. cost \in [Requests -> Int] /\ IsFiniteSet(Requests) BY TraceOnce
  <1>6. W \cap D = {} /\ D \cap O = {} /\ D \cup O = R BY <1>2, <1>3
  <1>7. SumFunctionOnSet(cost, W \cup D) = SumFunctionOnSet(cost, W) + SumFunctionOnSet(cost, D)
    BY <1>5, <1>6, SumUnion
  <1>8. SumFunctionOnSet(cost, D \cup O) = SumFunctionOnSet(cost, D) + SumFunctionOnSet(cost, O)
    BY <1>5, <1>6, SumUnion
  <1>9. PICK w \in Int, d \in Int, o \in Int : /\ w = CostOf(W) /\ d = CostOf(D) /\ o = CostOf(O)
    <2>1. SumFunctionOnSet(cost, W) \in Int BY <1>5, SumPart
    <2>2. SumFunctionOnSet(cost, D) \in Int BY <1>5, SumPart
    <2>3. SumFunctionOnSet(cost, O) \in Int BY <1>5, SumPart
    <2> QED BY <1>4, <2>1, <2>2, <2>3
  <1>10. CostOf(Live(i)) = w + d BY <1>2, <1>3, <1>4, <1>7, <1>9
  <1>11. CostOf(R) = d + o BY <1>4, <1>6, <1>8, <1>9
  <1>12. CASE Single
    <2>1. D = R BY <1>1, <1>2, <1>3, <1>12 DEF Arranged, Lists
    <2>2. PICK left : left = SumFunction([r \in R |-> MaxTokens[r] - Len(output[r])]) OBVIOUS
    <2>3. SumFunction([r \in R |-> Len(Prompt[r])]) = d - left
      BY <1>1, <1>2, <1>9, <1>12, <2>1, <2>2, SingleLoad
    <2>4. left \in Int
      <3>1. PICK f : f = [r \in R |-> MaxTokens[r] - Len(output[r])] OBVIOUS
      <3>2. \A r \in R : f[r] \in Int
        <4>1. \A r \in R : MaxTokens[r] \in Nat /\ Len(output[r]) \in Nat BY <1>1, TokensAre
        <4> QED BY <3>1, <4>1
      <3>3. f \in [R -> Int] /\ DOMAIN f = R BY <3>1, <3>2
      <3>4. IsFiniteSet(R) BY TraceOnce, FS_Subset
      <3>5. SumFunctionOnSet(f, R) \in Int BY <3>3, <3>4, SumPart
      <3> QED BY <2>2, <3>1, <3>3, <3>5 DEF SumFunction
    <2>5. Load(i) = w + SumFunction([r \in R |-> Len(Prompt[r])])
      <3>1. Load(i) = CostOf(Range(waiting[i])) +
                          SumFunction([r \in Range(running[i]) |-> Len(Prompt[r])])
        BY <1>12 DEF Load, Single
      <3> QED BY <1>2, <1>9, <3>1
    <2>6. Load(i) = (w + d) - left BY <2>3, <2>4, <2>5
    <2> QED BY <1>2, <1>10, <1>12, <2>2, <2>6 DEF Single
  <1>13. CASE kind = "disaggregated"
    <2>1. ~Single BY <1>13 DEF Single
    <2>2. Live(i) \ R = W BY <1>2
    <2>3. Load(i) = w + 0 BY <1>2, <1>9, <1>13, <2>1 DEF Load
    <2>4. Load(i) = CostOf(Live(i) \ Range(running[i])) BY <1>2, <1>9, <2>2, <2>3
    <2> QED BY <1>13, <2>1, <2>4
  <1>14. CASE ~Single /\ kind # "disaggregated"
    <2>1. Load(i) = w + (d + o) BY <1>2, <1>9, <1>11, <1>14 DEF Load
    <2>2. w + (d + o) = (w + d) + o OBVIOUS
    <2> QED BY <1>2, <1>3, <1>9, <1>10, <1>14, <2>1, <2>2
  <1> QED BY <1>12, <1>13, <1>14

\* After q rounds and part of the next, no two counts differ by more than one.
LEMMA RoutingFollows == FleetInv => RoutedByPolicy
  <1> SUFFICES ASSUME FleetInv PROVE RoutedByPolicy
    OBVIOUS
  <1>1. ASSUME policy = "round-robin", NEW i \in Replicas, NEW j \in Replicas
        PROVE  assignments[i] - assignments[j] \in -1 .. 1
    <2>1. PICK q \in 0 .. next : \A k \in Replicas :
              assignments[k] = q + IF k <= next % Cardinality(Replicas) THEN 1 ELSE 0
      BY <1>1 DEF FleetInv, Spread
    <2>2. q \in Int BY DEF FleetInv, Arranged, FleetTypes
    <2>3. PICK a \in {0, 1} : assignments[i] = q + a BY <2>1
    <2>4. PICK b \in {0, 1} : assignments[j] = q + b BY <2>1
    <2>5. (q + a) - (q + b) \in -1 .. 1 BY <2>2
    <2> QED BY <2>3, <2>4, <2>5
  <1>2. ASSUME policy = "prefix-affinity", 100 * Cardinality(Replicas) <= max_imbalance
        PROVE  \A r \in Requests : placed[r] \in {0, home[Prefix(r)]}
    BY <1>2 DEF FleetInv, Affine
  <1> QED BY <1>1, <1>2 DEF RoutedByPolicy

\* A member of a list stands at one position.
LEMMA OnePlace ==
  ASSUME NEW S, NEW u \in ListOf(S), NEW x
  PROVE  Count({k \in DOMAIN u : u[k] = x}) = IF x \in Range(u) THEN 1 ELSE 0
  <1>1. u \in Seq(S) /\ \A j, k \in 1 .. Len(u) : u[j] = u[k] => j = k BY DEF ListOf, Once
  <1>2. DOMAIN u = 1 .. Len(u) BY <1>1, LenProperties
  <1>3. x \in Range(u) <=> \E k \in 1 .. Len(u) : u[k] = x BY <1>1, Occurs
  <1>4. CASE x \in Range(u)
    <2>1. PICK k \in 1 .. Len(u) : u[k] = x BY <1>3, <1>4
    <2>2. {j \in DOMAIN u : u[j] = x} = {k} BY <1>1, <1>2, <2>1
    <2>3. Cardinality({k}) = 1 BY FS_Singleton
    <2> QED BY <1>4, <2>2, <2>3 DEF Count
  <1>5. CASE x \notin Range(u)
    <2>1. {j \in DOMAIN u : u[j] = x} = {} BY <1>2, <1>3, <1>5
    <2>2. Cardinality({}) = 0 BY FS_EmptySet
    <2> QED BY <1>5, <2>1, <2>2 DEF Count
  <1> QED BY <1>4, <1>5

\* Until it is over, a request stands in the lists of the replica it was sent
\* to, and nowhere else.
LEMMA ListedOnce ==
  ASSUME FleetInv, NEW r \in submitted, ~finished[r], NEW i \in Replicas
  PROVE  Count({k \in DOMAIN (waiting[i] \o running[i]) : (waiting[i] \o running[i])[k] = r}) =
             IF i = placed[r] THEN 1 ELSE 0
  <1>1. /\ Arranged /\ FleetTypes /\ (\A x \in Requests : Served(x)) /\ Lists(i)
        /\ \A x \in Requests : Whereabouts(x)
    BY DEF FleetInv, Arranged
  <1>2. PICK w \in ListOf(Requests) : w = waiting[i] BY <1>1 DEF FleetTypes
  <1>3. PICK s \in ListOf(Requests) : s = running[i] BY <1>1 DEF FleetTypes
  <1>4. Range(w) \cap Range(s) = {} BY <1>1, <1>2, <1>3, LiveIs
  <1>5. PICK u \in ListOf(Requests) : u = w \o s /\ Range(u) = Range(w) \cup Range(s)
    <2>1. w \o s \in ListOf(Requests) /\ Range(w \o s) = Range(w) \cup Range(s) BY <1>4, BehindOnce
    <2> QED BY <2>1
  <1>6. r \in Requests BY <1>1, SubmittedType
  <1>7. r \in Range(u) <=> i = placed[r]
    <2>1. \A x \in Range(u) : placed[x] = i BY <1>1, <1>2, <1>3, <1>5 DEF Lists
    <2>2. r \in Range(waiting[placed[r]]) \cup Range(running[placed[r]])
      BY <1>1, <1>6 DEF Whereabouts
    <2>3. i = placed[r] => r \in Range(u) BY <1>2, <1>3, <1>5, <2>2
    <2> QED BY <2>1, <2>3
  <1>8. Count({k \in DOMAIN u : u[k] = r}) = IF r \in Range(u) THEN 1 ELSE 0 BY OnePlace
  <1> QED BY <1>2, <1>3, <1>5, <1>7, <1>8

LEMMA LedgersFollow == FleetInv => LedgersAgree
  <1> SUFFICES ASSUME FleetInv PROVE LedgersAgree
    OBVIOUS
  <1>1. Assigned /\ InFlight /\ Slots /\ Handoffs BY DEF FleetInv
  <1>2. SumFunction([r \in Requests |-> Len(output[r])]) = SumFunctionOnSet(Said, Requests)
    <2>1. PICK said : said = [r \in Requests |-> Len(output[r])] OBVIOUS
    <2>2. DOMAIN said = Requests BY <2>1
    <2>3. SumFunction(said) = SumFunctionOnSet(said, Requests) BY <2>2 DEF SumFunction
    <2> QED BY <2>1, <2>3 DEF Said
  <1>3. \A i \in Replicas : assignments[i] = Count({r \in submitted : placed[r] = i})
    BY <1>1 DEF Assigned
  <1>4. loop # "open" => /\ in_flight - reported = Count({r \in submitted : ~finished[r]})
                         /\ in_flight <= NWorkers
    BY <1>1 DEF InFlight
  <1>5. kind \in {"static-batch", "continuous-batch"} =>
            /\ total_slot_steps - wasted_slot_steps = SumFunction([r \in Requests |-> Len(output[r])])
            /\ kind = "continuous-batch" => wasted_slot_steps = 0
    BY <1>1, <1>2 DEF Slots
  <1>6. kind = "disaggregated" => transfers = Count({r \in Requests : output[r] # <<>>})
    BY <1>1 DEF Handoffs
  <1>7. \A r \in submitted : ~finished[r] => \A i \in Replicas :
            Count({k \in DOMAIN (waiting[i] \o running[i]) : (waiting[i] \o running[i])[k] = r}) =
                IF i = placed[r] THEN 1 ELSE 0
    BY ListedOnce
  <1> QED BY <1>3, <1>4, <1>5, <1>6, <1>7 DEF LedgersAgree

--------------------------------------------------------------------------------
(* The fleet, as its caller sees it. *)

LEMMA ServiceStarts == Init => Service!ServiceInit
  <1> SUFFICES ASSUME Init PROVE Service!ServiceInit
    OBVIOUS
  <1>1. output = [r \in Requests |-> <<>>] /\ finished = [r \in Requests |-> FALSE] /\ index = 0
    BY DEF Init, RouterInit, ReplicaInit
  <1>2. submitted = {}
    <2>1. 0 \in 0 .. Len(Trace) BY TraceOnce
    <2>2. \A r : r \in Range(First(Trace, 0)) <=> \E k \in 1 .. 0 : Trace[k] = r
      BY <2>1, BeginningOfTrace
    <2>3. \A r : ~(r \in Range(First(Trace, 0))) BY <2>2
    <2> QED BY <1>1, <2>3 DEF submitted
  <1>3. {r \in Requests : finished[r]} = {} BY <1>1
  <1> QED BY <1>1, <1>2, <1>3 DEF Service!ServiceInit

\* Submitting is asking.
LEMMA SubmitAsks ==
  ASSUME FleetInv, Submit
  PROVE  Service!ServiceNext
  <1>1. Arranged /\ (\A r \in Requests : Served(r)) BY DEF FleetInv
  <1>2. PICK r, i : Submitted(r, i) BY <1>1, SubmitDoes
  <1>3. r \in Requests /\ r \notin submitted /\ submitted' = submitted \cup {r}
        /\ output' = output /\ finished' = finished
    BY <1>2 DEF Submitted, requestVars
  <1>4. Service!Ask(r) BY <1>3 DEF Service!Ask
  <1> QED BY <1>3, <1>4 DEF Service!ServiceNext

\* A step serves those who hear a token.
LEMMA StepServes ==
  ASSUME FleetInv, StepFleet
  PROVE  Service!ServiceNext
  <1>1. Arranged /\ FleetTypes /\ \A r \in Requests : Whereabouts(r) BY DEF FleetInv, Arranged
  <1>2. Step /\ index' = index BY DEF StepFleet
  <1>3. PICK token : StepIs(token) BY <1>1, <1>2, StepDoes
  <1>4. submitted' = submitted BY <1>2 DEF submitted
  <1>5. PICK S \in SUBSET (submitted \ {r \in Requests : finished[r]}) : S = Talking
    <2>1. \A r \in Talking : r \in Requests /\ placed[r] # 0 /\ ~finished[r] BY DEF Talking, InService
    <2> QED BY <1>1, <2>1 DEF Whereabouts
  <1>6. S \subseteq Requests BY <1>5 DEF Talking
  <1>7. /\ token \in [S -> Vocab]
        /\ output' = [r \in Requests |-> IF r \in S THEN Append(output[r], token[r]) ELSE output[r]]
        /\ finished' = [r \in Requests |-> finished[r] \/ (r \in S /\ EndsWith(r, output'[r]))]
    BY <1>3, <1>5 DEF StepIs
  <1>8. {r \in Requests : finished'[r]} =
            {r \in Requests : finished[r]} \cup {r \in S : Service!Ends(r, output'[r])}
    <2>1. ASSUME NEW r \in Requests
          PROVE  finished'[r] <=> finished[r] \/ (r \in S /\ Service!Ends(r, output'[r]))
      <3>1. EndsWith(r, output'[r]) <=> Service!Ends(r, output'[r])
        BY DEF EndsWith, Service!Ends, Last, Service!Last
      <3>2. finished'[r] = (finished[r] \/ (r \in S /\ EndsWith(r, output'[r]))) BY <1>7
      <3> QED BY <3>1, <3>2
    <2> QED BY <1>6, <2>1
  <1>9. Service!Serve(S) BY <1>4, <1>7, <1>8 DEF Service!Serve
  <1> QED BY <1>5, <1>9 DEF Service!ServiceNext

LEMMA ServiceSteps == FleetInv /\ [Next]_vars => [Service!ServiceNext]_(Service!serviceVars)
  <1> SUFFICES ASSUME FleetInv, [Next]_vars
               PROVE  Service!ServiceNext \/ UNCHANGED Service!serviceVars
    OBVIOUS
  <1>1. ASSUME UNCHANGED <<replicaVars, index>> PROVE UNCHANGED Service!serviceVars
    BY <1>1 DEF replicaVars, requestVars, submitted, Service!serviceVars
  <1>2. CASE OpenSubmit BY <1>2, SubmitAsks DEF OpenSubmit
  <1>3. CASE StartWorker BY <1>3, SubmitAsks DEF StartWorker
  <1>4. CASE StartServing BY <1>1, <1>4 DEF StartServing
  <1>5. CASE StepFleet BY <1>5, StepServes
  <1>6. CASE StepRaises BY <1>1, <1>6 DEF StepRaises
  <1>7. CASE WorkerFreed
    <2>1. CASE pending # <<>> BY <1>7, <2>1, SubmitAsks DEF WorkerFreed
    <2>2. CASE pending = <<>> BY <1>1, <1>7, <2>2 DEF WorkerFreed
    <2> QED BY <2>1, <2>2
  <1>8. CASE UNCHANGED vars BY <1>1, <1>8 DEF vars, driverVars
  <1> QED BY <1>2, <1>3, <1>4, <1>5, <1>6, <1>7, <1>8 DEF Next

--------------------------------------------------------------------------------
(* The theorems. *)

\* Whoever shares its pass, and however it is padded: the cache of a request
\* that goes on is the cache of its own tokens, each at its own position.
THEOREM FleetOwnPast == FairSpec => []OwnPast
  <1>1. FleetInv => OwnPast BY DEF FleetInv, Served, OwnPast
  <1> QED BY <1>1, FleetHolds, PTL

\* What the router takes for a replica's load is off from the work left there
\* by exactly what LoadSeen says, for each class of engine.
THEOREM FleetLoadSeen == FairSpec => []LoadSeen
  BY LoadFollows, FleetHolds, PTL

\* Round-robin spreads requests evenly, and affinity keeps prefixes together.
THEOREM FleetRouted == FairSpec => []RoutedByPolicy
  BY RoutingFollows, FleetHolds, PTL

\* A policy sees the work that is left, up to what LoadSeen names for the kind of
\* engine, and then spreads the requests or keeps a prefix together.
THEOREM FleetRoutedOnLoad == FairSpec => []RoutedOnLoad
  BY FleetLoadSeen, FleetRouted, PTL DEF RoutedOnLoad

\* The ledgers of router, engines and closed loop agree, and a request is in
\* one list of one replica, once, until it is over.
THEOREM FleetLedgers == FairSpec => []LedgersAgree
  BY LedgersFollow, FleetHolds, PTL

\* Only static batching decodes past the end of the rotary table.
THEOREM FleetOverruns == FairSpec => []OverrunsOnlyStatic
  <1>1. FleetInv => OverrunsOnlyStatic BY DEF FleetInv
  <1> QED BY <1>1, FleetHolds, PTL

\* Any of the engines, alone or behind the router, keeps the promise of the
\* Engine protocol.
THEOREM FleetServes == FairSpec => ServesTokens
  BY ServiceStarts, ServiceSteps, FleetHolds, PTL DEF FairSpec, ServesTokens, Service!ServiceSpec

================================================================================

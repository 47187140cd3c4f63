----------------------------- MODULE OffloadProofs -----------------------------
(***************************************************************************)
(* Two tiers and one pool: whatever is filed under a key is the KV of that *)
(* prefix wherever it is, counts stay exact, and the blocks that admission *)
(* promises cover promotion and prefill after it.                          *)
(***************************************************************************)
EXTENDS OffloadEngine, PrefixProofs

--------------------------------------------------------------------------------
(* The inductive invariant, besides that of prefix caching. *)

TierEntry == [key : Seq(Vocab), held : Seq(Vocab)]

\* Copies of prefixes, each under its own key and once.
Sound(list) ==
    /\ list \in Seq(TierEntry)
    /\ \A i, j \in 1 .. Len(list) : list[i].key = list[j].key => i = j
    /\ \A i \in 1 .. Len(list) : list[i].held = list[i].key

TierKept == Sound(tier) /\ Len(tier) <= TierBlocks

\* Where promotion is: what it has passed of a prompt is in the pool, and a
\* prompt is promoted before anybody is prefilled.
Underway ==
    /\ promoted \in Nat /\ next \in Nat \ {0}
    /\ pc \notin Admitting => promoted = 0
    /\ pc \in {"fill", "emit_prefill"} \/ (pc \in Admitting /\ at # 1) => promoted >= Len(states)
    /\ ~Promoting => next = 1 /\ fetched = <<>>
    /\ Promoting => /\ Resident(states[promoted + 1], next - 1)
                    /\ next - 1 <= FullBlocks(AllTokens(states[promoted + 1]))
    /\ fetched # <<>> => Promoting /\ MoreKeys /\ PromptKey \notin Keys /\ fetched = PromptKey

OInv == PInv /\ TierKept /\ Underway

--------------------------------------------------------------------------------
(* The tier. *)

\* The entries of a sound list.
LEMMA SoundType ==
  ASSUME NEW list, Sound(list)
  PROVE  /\ list \in Seq(TierEntry) /\ Len(list) \in Nat
         /\ \A i \in 1 .. Len(list) : list[i] \in Range(list) /\ list[i] \in TierEntry
         /\ \A e \in Range(list) : e \in TierEntry /\ e.held = e.key /\ \E i \in 1 .. Len(list) : list[i] = e
         /\ \A d, e \in Range(list) : d.key = e.key => d = e
  <1>1. list \in Seq(TierEntry) BY DEF Sound
  <1>2. Len(list) \in Nat BY <1>1, LenProperties
  <1>3. \A i \in 1 .. Len(list) : list[i] \in TierEntry BY <1>1, ElementOfSeq
  <1>4. \A e : e \in Range(list) <=> \E i \in 1 .. Len(list) : list[i] = e BY <1>1, Occurs
  <1>5. ASSUME NEW d \in Range(list), NEW e \in Range(list), d.key = e.key PROVE d = e
    <2>1. PICK i \in 1 .. Len(list) : list[i] = d BY <1>4
    <2>2. PICK j \in 1 .. Len(list) : list[j] = e BY <1>4
    <2> QED BY <1>5, <2>1, <2>2 DEF Sound
  <1> QED BY <1>1, <1>2, <1>3, <1>4, <1>5 DEF Sound

\* A key that is used again goes to the end, and nothing is lost or doubled.
LEMMA RecentSound ==
  ASSUME TierKept, NEW key
  PROVE  Sound(Recent(key)) /\ Len(Recent(key)) = Len(tier)
  <1> DEFINE A == {i \in 1 .. Len(tier) : tier[i].key = key}
             P == 1 .. Len(tier) \ A
             p == Picked(tier, P)
             q == Picked(tier, A)
             c == p \o q
  <1>1. /\ tier \in Seq(TierEntry) /\ Len(tier) \in Nat
        /\ \A i \in 1 .. Len(tier) : tier[i] \in Range(tier) /\ tier[i] \in TierEntry
        /\ \A e \in Range(tier) : e \in TierEntry /\ e.held = e.key
        /\ \A d, e \in Range(tier) : d.key = e.key => d = e
    BY SoundType DEF TierKept
  <1>2. \A i, j \in 1 .. Len(tier) : tier[i] = tier[j] => i = j BY DEF TierKept, Sound
  <1>3. ASSUME NEW S \in SUBSET (1 .. Len(tier))
        PROVE  /\ Picked(tier, S) \in Seq(TierEntry)
               /\ Len(Picked(tier, S)) = Cardinality(S) /\ Cardinality(S) \in Nat
               /\ \A k, l \in 1 .. Len(Picked(tier, S)) : Picked(tier, S)[k] = Picked(tier, S)[l] => k = l
               /\ \A e \in Range(Picked(tier, S)) : \E i \in S : e = tier[i]
    <2>1. PICK n \in Nat : n = Cardinality(S) BY <1>1, <1>3, PickedType
    <2>2. /\ Picked(tier, S) \in Seq(TierEntry) /\ Len(Picked(tier, S)) = n
          /\ \A k \in 1 .. n : Picked(tier, S)[k] = tier[InOrder(S)[k]]
          /\ \A k \in 1 .. n : InOrder(S)[k] \in S
          /\ \A k, l \in 1 .. n : InOrder(S)[k] = InOrder(S)[l] => k = l
      BY <1>1, <1>3, <2>1, PickedType
    <2>3. \A e : e \in Range(Picked(tier, S)) <=> \E k \in 1 .. n : Picked(tier, S)[k] = e
      BY <2>2, Occurs
    <2>4. ASSUME NEW k \in 1 .. n, NEW l \in 1 .. n, Picked(tier, S)[k] = Picked(tier, S)[l]
          PROVE  k = l
      <3>1. InOrder(S)[k] \in 1 .. Len(tier) /\ InOrder(S)[l] \in 1 .. Len(tier) BY <1>3, <2>2
      <3>2. tier[InOrder(S)[k]] = tier[InOrder(S)[l]] BY <2>2, <2>4
      <3>3. InOrder(S)[k] = InOrder(S)[l] BY <1>2, <3>1, <3>2
      <3> QED BY <2>2, <3>3
    <2> DEFINE t == Picked(tier, S)
    <2>5. /\ t \in Seq(TierEntry) /\ Len(t) = n
          /\ \A k, l \in 1 .. n : t[k] = t[l] => k = l
      BY <2>2, <2>4
    <2>6. ASSUME NEW e \in Range(t) PROVE \E i \in S : e = tier[i]
      <3>1. PICK k \in 1 .. n : t[k] = e BY <2>3
      <3>2. InOrder(S)[k] \in S /\ t[k] = tier[InOrder(S)[k]] BY <2>2
      <3> QED BY <3>1, <3>2
    <2> HIDE DEF t
    <2>7. \A k, l \in 1 .. Len(t) : t[k] = t[l] => k = l BY <2>5
    <2>8. Len(t) = Cardinality(S) /\ Cardinality(S) \in Nat BY <2>1, <2>5
    <2> QED BY <2>5, <2>6, <2>7, <2>8 DEF t
  <1>4. A \in SUBSET (1 .. Len(tier)) /\ P \in SUBSET (1 .. Len(tier)) OBVIOUS
  <1>5. \A i \in P : tier[i].key # key OBVIOUS
  <1>6. \A i \in A : tier[i].key = key OBVIOUS
  <1>7. Cardinality(P) + Cardinality(A) = Len(tier)
    <2>1. IsFiniteSet(1 .. Len(tier)) /\ Cardinality(1 .. Len(tier)) = Len(tier) BY <1>1, FS_Interval
    <2>2. Cardinality(P) = Cardinality(1 .. Len(tier)) - Cardinality((1 .. Len(tier)) \cap A)
      BY <2>1, FS_Difference
    <2>3. (1 .. Len(tier)) \cap A = A OBVIOUS
    <2>4. PICK a \in Nat : a = Cardinality(A) BY <1>3, <1>4
    <2>5. Cardinality(P) = Len(tier) - a BY <2>1, <2>2, <2>3, <2>4
    <2> QED BY <1>1, <2>4, <2>5
  <1>8. Recent(key) = c BY DEF Recent
  <1> HIDE DEF A, P
  <1>9. /\ p \in Seq(TierEntry) /\ q \in Seq(TierEntry)
        /\ Len(p) = Cardinality(P) /\ Len(q) = Cardinality(A)
        /\ \A k, l \in 1 .. Len(p) : p[k] = p[l] => k = l
        /\ \A k, l \in 1 .. Len(q) : q[k] = q[l] => k = l
        /\ \A e \in Range(p) : \E i \in P : e = tier[i]
        /\ \A e \in Range(q) : \E i \in A : e = tier[i]
    BY <1>3, <1>4
  <1> HIDE DEF p, q
  <1>10. Range(p) \cap Range(q) = {} BY <1>5, <1>6, <1>9
  <1>11. /\ c \in Seq(TierEntry) /\ Len(c) = Len(p) + Len(q)
         /\ Range(c) = Range(p) \cup Range(q)
         /\ \A i, j \in 1 .. Len(c) : c[i] = c[j] => i = j
    <2>1. /\ p \in Seq(TierEntry) /\ q \in Seq(TierEntry)
          /\ \A i, j \in 1 .. Len(p) : p[i] = p[j] => i = j
          /\ \A i, j \in 1 .. Len(q) : q[i] = q[j] => i = j
      BY <1>9
    <2> QED BY <2>1, <1>10, OnceConcat
  <1> HIDE DEF c
  <1>12. Range(c) \subseteq Range(tier) BY <1>1, <1>4, <1>9, <1>11
  <1>13. \A i \in 1 .. Len(c) : c[i] \in Range(c) BY <1>11, Occurs
  <1>14. \A i, j \in 1 .. Len(c) : c[i].key = c[j].key => i = j BY <1>1, <1>11, <1>12, <1>13
  <1>15. \A i \in 1 .. Len(c) : c[i].held = c[i].key BY <1>1, <1>12, <1>13
  <1>16. Len(c) = Len(tier) BY <1>7, <1>9, <1>11
  <1> QED BY <1>8, <1>11, <1>14, <1>15, <1>16 DEF Sound

\* store(): one copy more, within the capacity.
LEMMA StoredSound ==
  ASSUME TierKept, NEW key \in Seq(Vocab)
  PROVE  Sound(Stored(key, key)) /\ Len(Stored(key, key)) <= TierBlocks
  <1> DEFINE base == IF Len(tier) >= TierBlocks THEN Tail(tier) ELSE tier
             e == [key |-> key, held |-> key]
             longer == Append(base, e)
  <1>1. CASE key \in TierKeys BY <1>1, RecentSound DEF Stored, TierKept
  <1>2. CASE key \notin TierKeys
    <2>1. /\ tier \in Seq(TierEntry) /\ Len(tier) \in Nat /\ Len(tier) <= TierBlocks
          /\ \A i \in 1 .. Len(tier) : tier[i] \in Range(tier)
          /\ \A i \in 1 .. Len(tier) : tier[i].held = tier[i].key
          /\ \A i, j \in 1 .. Len(tier) : tier[i].key = tier[j].key => i = j
          /\ Sound(tier)
      BY SoundType DEF TierKept, Sound
    <2>2. TierBlocks \in Nat /\ TierBlocks > 0 BY TierAssumption
    <2>3. Sound(base) /\ Len(base) < TierBlocks /\ \A i \in 1 .. Len(base) : base[i].key # key
      <3>0. \A i \in 1 .. Len(tier) : tier[i].key # key BY <1>2, <2>1 DEF TierKeys
      <3>1. CASE Len(tier) >= TierBlocks
        <4>1. tier # <<>> BY <2>1, <2>2, <3>1, EmptySeq
        <4>2. /\ Tail(tier) \in Seq(TierEntry) /\ Len(Tail(tier)) = Len(tier) - 1
              /\ \A i \in 1 .. Len(Tail(tier)) : Tail(tier)[i] = tier[i + 1]
          BY <2>1, <4>1, HeadTailProperties
        <4>3. ASSUME NEW i \in 1 .. Len(Tail(tier)) PROVE i + 1 \in 1 .. Len(tier)
          BY <2>1, <4>2, <4>3
        <4>4. Sound(Tail(tier))
          <5>1. ASSUME NEW i \in 1 .. Len(Tail(tier)), NEW j \in 1 .. Len(Tail(tier)),
                       Tail(tier)[i].key = Tail(tier)[j].key
                PROVE  i = j
            <6>1. tier[i + 1].key = tier[j + 1].key BY <4>2, <5>1
            <6>2. i + 1 = j + 1 BY <2>1, <4>3, <6>1
            <6> QED BY <2>1, <4>2, <6>2
          <5> QED BY <2>1, <4>2, <4>3, <5>1 DEF Sound
        <4>5. \A i \in 1 .. Len(Tail(tier)) : Tail(tier)[i].key # key BY <3>0, <4>2, <4>3
        <4>6. base = Tail(tier) BY <3>1
        <4>7. Len(Tail(tier)) < TierBlocks BY <2>1, <2>2, <4>2
        <4> QED BY <4>4, <4>5, <4>6, <4>7
      <3>2. CASE ~(Len(tier) >= TierBlocks)
        <4>1. base = tier BY <3>2
        <4> QED BY <2>1, <2>2, <3>0, <3>2, <4>1
      <3> QED BY <3>1, <3>2
    <2>4. Stored(key, key) = longer BY <1>2 DEF Stored
    <2> HIDE DEF base
    <2>5. base \in Seq(TierEntry) /\ Len(base) \in Nat BY <2>3, SoundType
    <2>6. e \in TierEntry /\ e.key = key /\ e.held = key BY DEF TierEntry
    <2> HIDE DEF e
    <2>7. /\ longer \in Seq(TierEntry) /\ Len(longer) = Len(base) + 1
          /\ \A i \in 1 .. Len(base) : longer[i] = base[i]
          /\ longer[Len(base) + 1] = e
      BY <2>5, <2>6, AppendProperties
    <2> HIDE DEF longer
    <2>8. ASSUME NEW i \in 1 .. Len(longer)
          PROVE  i \in 1 .. Len(base) \/ i = Len(base) + 1
      BY <2>5, <2>7
    <2>9. ASSUME NEW i \in 1 .. Len(longer) PROVE longer[i].held = longer[i].key
      BY <2>3, <2>6, <2>7, <2>8 DEF Sound
    <2>10. ASSUME NEW i \in 1 .. Len(longer), NEW j \in 1 .. Len(longer),
                  longer[i].key = longer[j].key
           PROVE  i = j
      <3>1. CASE i \in 1 .. Len(base) /\ j \in 1 .. Len(base)
        BY <2>3, <2>7, <2>10, <3>1 DEF Sound
      <3>2. CASE i \in 1 .. Len(base) /\ j = Len(base) + 1 BY <2>3, <2>6, <2>7, <2>10, <3>2
      <3>3. CASE i = Len(base) + 1 /\ j \in 1 .. Len(base) BY <2>3, <2>6, <2>7, <2>10, <3>3
      <3> QED BY <2>8, <3>1, <3>2, <3>3
    <2>11. Len(longer) <= TierBlocks BY <2>2, <2>3, <2>5, <2>7
    <2> QED BY <2>4, <2>7, <2>9, <2>10, <2>11 DEF Sound
  <1> QED BY <1>1, <1>2

--------------------------------------------------------------------------------
(* Where promotion is. *)

\* Outside admission nothing is under way.
LEMMA NothingUnderway ==
  ASSUME promoted = 0, next = 1, fetched = <<>>, UNCHANGED promoteVars, pc' \notin Admitting
  PROVE  Underway'
  BY DEF Underway, promoteVars, Promoting, Admitting

\* So it is before a step that begins outside it.
LEMMA NotUnderway ==
  ASSUME Underway, pc \notin Admitting
  PROVE  promoted = 0 /\ next = 1 /\ fetched = <<>>
  BY DEF Underway, Promoting, Admitting

\* As long as the engine does something else, promotion is where it was.
LEMMA UnderwayKept ==
  ASSUME Underway, UNCHANGED promoteVars,
         UNCHANGED <<pc, at, states, output_token_ids, entries>>
  PROVE  Underway'
  BY DEF Underway, promoteVars, Promoting, MoreKeys, PromptKey, Resident, Keys, FullBlocks, Key, AllTokens

\* The prompt that is promoted, before anybody is prefilled.
LEMMA PromptAtHand ==
  ASSUME OInv, Promoting
  PROVE  /\ pc = "prefill" /\ at = 1 /\ states = admitted
         /\ promoted \in Nat /\ next \in Nat /\ next > 0
         /\ promoted + 1 \in 1 .. Len(admitted) /\ Len(admitted) \in Nat
         /\ states[promoted + 1] \in Requests
         /\ Resident(states[promoted + 1], next - 1)
         /\ next - 1 <= FullBlocks(AllTokens(states[promoted + 1]))
         /\ AllTokens(states[promoted + 1]) \in Seq(Vocab)
         /\ FullBlocks(AllTokens(states[promoted + 1])) \in Nat
  <1>1. /\ pc = "prefill" /\ promoted < Len(states) /\ promoted \in Nat /\ next \in Nat /\ next > 0
        /\ Resident(states[promoted + 1], next - 1)
        /\ next - 1 <= FullBlocks(AllTokens(states[promoted + 1]))
    BY DEF OInv, Underway, Promoting
  <1>2. states = admitted BY <1>1 DEF OInv, PInv, InStep, Admitting
  <1>3. Len(admitted) \in Nat BY Lists DEF OInv
  <1>4. promoted + 1 \in 1 .. Len(admitted) BY <1>1, <1>2, <1>3
  <1>5. at = 1 BY <1>1, <1>2, <1>3 DEF OInv, Underway, Admitting
  <1>6. states[promoted + 1] \in Requests BY <1>2, <1>4, Lists DEF OInv
  <1>7. output_token_ids \in [Requests -> Seq(Vocab)] BY DEF OInv, PInv, TypeOK
  <1>8. PICK r \in Requests : r = states[promoted + 1] BY <1>6
  <1>9. AllTokens(r) \in Seq(Vocab) BY <1>7, TokensType
  <1>10. FullBlocks(AllTokens(r)) \in Nat BY <1>9, KeyType
  <1> QED BY <1>1, <1>2, <1>3, <1>4, <1>5, <1>6, <1>8, <1>9, <1>10

\* A key that the pool already has.
LEMMA ResidentStep ==
  ASSUME OInv, AlreadyResident
  PROVE  OInv'
  <1>1. /\ Promoting /\ fetched = <<>> /\ MoreKeys /\ PromptKey \in Keys /\ next' = next + 1
        /\ UNCHANGED <<prefixVars, tier, promoted, fetched>>
    BY DEF AlreadyResident
  <1>2. PInv' BY <1>1, PrefixStutters DEF OInv
  <1>3. TierKept' BY <1>1 DEF OInv, TierKept, Sound
  <1>4. UNCHANGED <<pc, at, states, output_token_ids, entries>>
    BY <1>1 DEF prefixVars, vars, cacheVars, requestVars, stepVars
  <1>5. PICK r \in Requests : /\ r = states[promoted + 1]
                              /\ Resident(r, next - 1)
                              /\ FullBlocks(AllTokens(r)) \in Nat
    BY <1>1, PromptAtHand
  <1>6. pc = "prefill" /\ at = 1 /\ promoted \in Nat /\ next \in Nat /\ next > 0 BY <1>1, PromptAtHand
  <1>7. Resident(r, next)
    <2>1. ASSUME NEW k \in 1 .. next PROVE Key(AllTokens(r), k) \in Keys
      <3>1. CASE k = next BY <1>1, <1>5, <3>1 DEF PromptKey
      <3>2. CASE k # next
        <4>1. k \in 1 .. next - 1 BY <1>6, <3>2
        <4> QED BY <1>5, <4>1 DEF Resident
      <3> QED BY <3>1, <3>2
    <2> QED BY <2>1 DEF Resident
  <1>8. next <= FullBlocks(AllTokens(r)) BY <1>1, <1>5 DEF MoreKeys
  <1>9. /\ Keys' = Keys /\ AllTokens(r)' = AllTokens(r) /\ next' - 1 = next /\ next' \in Nat \ {0}
    BY <1>1, <1>4, <1>6 DEF Keys, AllTokens
  <1>10. Resident(r, next - 1)' /\ (next - 1 <= FullBlocks(AllTokens(r)))'
    BY <1>7, <1>8, <1>9 DEF Resident, Key, FullBlocks
  <1>11. states'[promoted' + 1] = r /\ promoted' = promoted /\ fetched' = <<>> BY <1>1, <1>4, <1>5
  <1>12. Promoting' BY <1>1, <1>4 DEF Promoting
  <1>13. Underway' BY <1>4, <1>6, <1>9, <1>10, <1>11, <1>12 DEF Underway, Admitting
  <1> QED BY <1>2, <1>3, <1>13 DEF OInv

\* A key that the tier has: what comes up is the KV of that prefix.
LEMMA FetchStep ==
  ASSUME OInv, Fetch
  PROVE  OInv'
  <1> DEFINE e == CHOOSE d \in Range(tier) : d.key = PromptKey
  <1>1. /\ Promoting /\ fetched = <<>> /\ MoreKeys /\ PromptKey \in TierKeys \ Keys
        /\ fetched' = e.held /\ tier' = Recent(PromptKey)
        /\ UNCHANGED <<prefixVars, promoted, next>>
    BY DEF Fetch
  <1>2. PInv' BY <1>1, PrefixStutters DEF OInv
  <1>3. TierKept'
    <2>1. Sound(Recent(PromptKey)) /\ Len(Recent(PromptKey)) = Len(tier) BY RecentSound DEF OInv
    <2> QED BY <1>1, <2>1 DEF OInv, TierKept, Sound
  <1>4. fetched' = PromptKey
    <2>1. e \in Range(tier) /\ e.key = PromptKey BY <1>1 DEF TierKeys
    <2>2. e.held = e.key BY <2>1, SoundType DEF OInv, TierKept
    <2> QED BY <1>1, <2>1, <2>2
  <1>5. UNCHANGED <<pc, at, states, output_token_ids, entries>>
    BY <1>1 DEF prefixVars, vars, cacheVars, requestVars, stepVars
  <1>6. /\ promoted' = promoted /\ next' = next /\ Keys' = Keys /\ (Promoting' <=> Promoting)
        /\ (MoreKeys' <=> MoreKeys) /\ PromptKey' = PromptKey
    BY <1>1, <1>5 DEF Keys, Promoting, MoreKeys, PromptKey, Key, FullBlocks, AllTokens
  <1>7. Resident(states[promoted + 1], next - 1)' /\ (next - 1 <= FullBlocks(AllTokens(states[promoted + 1])))'
    BY <1>1, <1>5, <1>6, PromptAtHand DEF Resident, Key, FullBlocks, AllTokens
  <1>8. Underway' BY <1>1, <1>4, <1>5, <1>6, <1>7 DEF OInv, Underway
  <1> QED BY <1>2, <1>3, <1>8 DEF OInv

\* The next prompt, or the end of promotion.
LEMMA EndsStep ==
  ASSUME OInv, PromoteEnds
  PROVE  OInv'
  <1>1. /\ Promoting /\ promoted' = promoted + 1 /\ next' = 1 /\ fetched' = <<>>
        /\ UNCHANGED <<prefixVars, tier>>
    BY DEF PromoteEnds, NextPrompt
  <1>2. PInv' BY <1>1, PrefixStutters DEF OInv
  <1>3. TierKept' BY <1>1 DEF OInv, TierKept, Sound
  <1>4. UNCHANGED <<pc, at, states, output_token_ids, entries>>
    BY <1>1 DEF prefixVars, vars, cacheVars, requestVars, stepVars
  <1>5. /\ pc = "prefill" /\ at = 1 /\ promoted \in Nat /\ promoted + 1 \in Nat /\ states = admitted
        /\ Len(admitted) \in Nat
    BY <1>1, PromptAtHand
  <1>6. ASSUME Promoting'
        PROVE  /\ Resident(states[promoted + 1], next - 1)'
               /\ (next - 1 <= FullBlocks(AllTokens(states[promoted + 1])))'
    <2>1. promoted' + 1 \in 1 .. Len(admitted) BY <1>1, <1>4, <1>5, <1>6 DEF Promoting
    <2>2. PICK r \in Requests : r = admitted[promoted' + 1] BY <2>1, Lists DEF OInv
    <2>3. FullBlocks(AllTokens(r)) \in Nat BY NeedAndShare DEF OInv, PInv
    <2>4. FullBlocks(AllTokens(r))' = FullBlocks(AllTokens(r)) BY <1>4 DEF FullBlocks, AllTokens
    <2>5. r = states'[promoted' + 1] /\ next' - 1 = 0 BY <1>1, <1>4, <1>5, <2>2
    <2>6. Resident(r, 0)' BY DEF Resident
    <2> QED BY <2>3, <2>4, <2>5, <2>6
  <1>7. Underway' BY <1>1, <1>4, <1>5, <1>6 DEF Underway, Admitting
  <1> QED BY <1>2, <1>3, <1>7 DEF OInv

--------------------------------------------------------------------------------
(* Placing a copy. *)

\* Everybody admitted is still owed a block: what of a prefix has been paid for
\* is never more than its full blocks, and it needs one block more than those.
LEMMA StillDue ==
  ASSUME PInv, NEW due, Covered(due, 1), NEW i \in 1 .. Len(admitted)
  PROVE  due[i] \in Nat /\ due[i] > 0
  <1>1. PICK r \in Requests : r = admitted[i] BY Lists
  <1>2. PICK f \in Nat : f = FullBlocks(AllTokens(r)) /\ Need(r) = f + 1
    BY NeedAndShare DEF PInv
  <1>3. PICK h \in 0 .. f : due[i] + h = Need(r) + due[i + 1] BY <1>1, <1>2 DEF Covered
  <1>4. i \in 1 .. Len(admitted) + 1 /\ i + 1 \in 1 .. Len(admitted) + 1 BY Lists
  <1>5. due[i] \in Nat /\ due[i + 1] \in Nat BY <1>4 DEF Covered
  <1> QED BY <1>2, <1>3, <1>5

\* So the pool has a block for the copy.
LEMMA RoomForCopy ==
  ASSUME OInv, Promoting
  PROVE  free # {}
  <1>1. pc = "prefill" /\ at = 1 /\ Len(admitted) \in Nat /\ promoted + 1 \in 1 .. Len(admitted)
    BY PromptAtHand
  <1>2. PICK due : Covered(due, 1) /\ due[1] <= NFree BY <1>1 DEF OInv, PInv, Promise
  <1>3. 1 \in 1 .. Len(admitted) BY <1>1
  <1>4. due[1] \in Nat /\ due[1] > 0 BY <1>2, <1>3, StillDue DEF OInv
  <1>5. Cardinality({}) = 0 BY FS_EmptySet
  <1> QED BY <1>2, <1>4, <1>5 DEF NFree

\* The copy lengthens the cached prefix of its prompt, so what it costs the pool
\* its request will not need.
LEMMA PaidCovers ==
  ASSUME OInv, Promoting, fetched # <<>>, NEW due, Covered(due, 1),
         Keys' = Keys \cup {PromptKey}, UNCHANGED <<admitted, output_token_ids>>
  PROVE  \E paid : Covered(paid, 1)' /\ paid[1] = due[1] - 1
  <1>1. /\ states = admitted /\ promoted + 1 \in 1 .. Len(admitted) /\ Len(admitted) \in Nat
        /\ next \in Nat /\ next > 0
        /\ states[promoted + 1] \in Requests /\ Resident(states[promoted + 1], next - 1)
    BY PromptAtHand
  <1>2. PICK p \in 1 .. Len(admitted) : p = promoted + 1 BY <1>1
  <1>3. PICK n \in Nat : n = next /\ n > 0 BY <1>1
  <1>4. PICK q \in Requests : q = admitted[p] BY <1>1, <1>2
  <1>5. PICK key : key = PromptKey /\ key = Key(AllTokens(q), n) BY <1>1, <1>2, <1>3, <1>4 DEF PromptKey
  <1>6. key \notin Keys /\ n <= FullBlocks(AllTokens(q))
    BY <1>1, <1>2, <1>3, <1>4, <1>5 DEF OInv, Underway, MoreKeys
  <1>7. Resident(q, n - 1) BY <1>1, <1>2, <1>3, <1>4
  <1>0. PICK paid : paid = [i \in 1 .. Len(admitted) + 1 |-> IF i <= p THEN due[i] - 1 ELSE due[i]]
    OBVIOUS
  <1>8. /\ due \in [1 .. Len(admitted) + 1 -> Nat] /\ due[Len(admitted) + 1] = 0
        /\ \A i \in 1 .. Len(admitted) :
               \E h \in 0 .. FullBlocks(AllTokens(admitted[i])) :
                   Resident(admitted[i], h) /\ due[i] + h = Need(admitted[i]) + due[i + 1]
    BY DEF Covered
  <1>9. \A i \in 1 .. Len(admitted) : due[i] \in Nat /\ due[i] > 0 BY StillDue DEF OInv
  <1>10. paid \in [1 .. Len(admitted) + 1 -> Nat]
    <2>1. ASSUME NEW i \in 1 .. Len(admitted) + 1
          PROVE  (IF i <= p THEN due[i] - 1 ELSE due[i]) \in Nat
      <3>1. CASE i <= p
        <4>1. i \in 1 .. Len(admitted) BY <1>1, <3>1
        <4>2. due[i] \in Nat /\ due[i] > 0 BY <1>9, <4>1
        <4> QED BY <3>1, <4>2
      <3>2. CASE ~(i <= p) BY <3>2, <1>8
      <3> QED BY <3>1, <3>2
    <2> QED BY <1>0, <2>1
  <1>11. /\ \A i \in 1 .. Len(admitted) + 1 : i <= p => paid[i] = due[i] - 1
         /\ \A i \in 1 .. Len(admitted) + 1 : i > p => paid[i] = due[i]
    BY <1>0
  <1>12. /\ Keys \subseteq Keys' /\ key \in Keys' /\ \A s : AllTokens(s)' = AllTokens(s)
         /\ \A s : Need(s)' = Need(s)
    BY <1>5 DEF AllTokens, Need, TotalLen, BlocksNeeded
  <1>13. \A s, h : Resident(s, h) => Resident(s, h)' BY <1>12 DEF Resident, Key
  <1>14. \A s : FullBlocks(AllTokens(s))' = FullBlocks(AllTokens(s)) BY <1>12 DEF FullBlocks
  <1>15. ASSUME NEW i \in 1 .. Len(admitted)
         PROVE  \E h \in 0 .. FullBlocks(AllTokens(admitted[i])) :
                    Resident(admitted[i], h)' /\ paid[i] + h = Need(admitted[i]) + paid[i + 1]
    <2>1. PICK f \in Nat, m \in Nat : f = FullBlocks(AllTokens(admitted[i])) /\ m = Need(admitted[i])
      BY Lists, NeedAndShare, NeedCounts DEF OInv, PInv
    <2>2. PICK h \in 0 .. f : Resident(admitted[i], h) /\ due[i] + h = m + due[i + 1]
      BY <1>8, <2>1
    <2>3. i \in 1 .. Len(admitted) + 1 /\ i + 1 \in 1 .. Len(admitted) + 1 /\ i \in Nat BY <1>1
    <2>4. PICK d \in Nat, e \in Nat : d = due[i] /\ e = due[i + 1] BY <1>8, <2>3
    <2>8. d + h = m + e /\ h \in Nat BY <2>1, <2>2, <2>4
    <2>5. CASE i < p
      <3>1. i <= p /\ i + 1 <= p BY <2>3, <2>5
      <3>2. paid[i] = d - 1 /\ paid[i + 1] = e - 1 BY <1>11, <2>3, <2>4, <3>1
      <3>3. paid[i] + h = m + paid[i + 1]
        <4>1. (d - 1) + h = m + (e - 1) BY <2>1, <2>8
        <4> QED BY <3>2, <4>1
      <3> QED BY <1>13, <2>1, <2>2, <3>3
    <2>6. CASE i = p
      <3>1. i <= p /\ i + 1 > p BY <2>3, <2>6
      <3>2. paid[i] = d - 1 /\ paid[i + 1] = e BY <1>11, <2>3, <2>4, <3>1
      <3>3. h < n
        <4> SUFFICES ASSUME n <= h PROVE FALSE
          BY <1>3, <2>1
        <4>1. n \in 1 .. h BY <1>3, <2>1
        <4>2. Key(AllTokens(q), n) \in Keys BY <1>4, <2>2, <2>6, <4>1 DEF Resident
        <4> QED BY <1>5, <1>6, <4>2
      <3>4. h + 1 \in 0 .. f BY <1>3, <1>4, <1>6, <2>1, <2>6, <3>3
      <3>5. Resident(q, h + 1)'
        <4>1. ASSUME NEW k \in 1 .. h + 1 PROVE Key(AllTokens(q), k) \in Keys'
          <5>1. CASE k = n BY <1>5, <1>12, <5>1
          <5>2. CASE k # n
            <6>1. k \in 1 .. n - 1 BY <1>3, <2>1, <3>3, <5>2
            <6> QED BY <1>7, <1>12, <6>1 DEF Resident
          <5> QED BY <5>1, <5>2
        <4> QED BY <1>12, <4>1 DEF Resident, Key
      <3>6. paid[i] + (h + 1) = m + paid[i + 1]
        <4>1. (d - 1) + (h + 1) = m + e BY <2>1, <2>8
        <4> QED BY <3>2, <4>1
      <3> QED BY <1>4, <2>1, <2>6, <3>4, <3>5, <3>6
    <2>7. CASE i > p
      <3>1. i > p /\ i + 1 > p BY <2>3, <2>7
      <3>2. paid[i] = d /\ paid[i + 1] = e BY <1>11, <2>3, <2>4, <3>1
      <3> QED BY <1>13, <2>1, <2>2, <2>4, <3>2
    <2> QED BY <2>3, <2>5, <2>6, <2>7
  <1>16. paid[Len(admitted) + 1] = 0
    <2>1. Len(admitted) + 1 \in 1 .. Len(admitted) + 1 /\ Len(admitted) + 1 > p BY <1>1
    <2> QED BY <1>8, <1>11, <2>1
  <1>17. Covered(paid, 1)' BY <1>10, <1>12, <1>14, <1>15, <1>16 DEF Covered
  <1>18. paid[1] = due[1] - 1
    <2>1. 1 \in 1 .. Len(admitted) + 1 /\ 1 <= p BY <1>1
    <2> QED BY <1>11, <2>1
  <1> QED BY <1>17, <1>18

\* A block for the copy, which the pool has.
LEMMA PlaceStep ==
  ASSUME OInv, Promote
  PROVE  OInv' /\ fetched' = <<>>
  <1>1. /\ Promoting /\ fetched # <<>> /\ free # {}
        /\ UNCHANGED <<waiting, running, requestVars, pc, stepVars, history>>
    BY RoomForCopy DEF Promote
  <1>2. Placed BY <1>1 DEF Promote
  <1>3. PICK b \in free : /\ free' = free \ {b} /\ refcount' = CountPromoted(b)
                          /\ kv' = [kv EXCEPT ![b] = fetched]
                          /\ entries' = Append(entries, [key |-> PromptKey, block |-> b])
    BY <1>2 DEF Placed, Inserted
  <1>4. next' = next + 1 /\ fetched' = <<>> /\ tier' = tier /\ promoted' = promoted
    BY <1>2 DEF Placed
  <1>5. fetched = PromptKey /\ PromptKey \notin Keys /\ MoreKeys BY <1>1 DEF OInv, Underway
  <1>6. /\ pc = "prefill" /\ at = 1 /\ states = admitted
        /\ promoted \in Nat /\ next \in Nat /\ next > 0
    BY <1>1, PromptAtHand
  <1>7. PICK r \in Requests, n \in Nat :
            /\ r = states[promoted + 1] /\ n = next /\ n > 0
            /\ AllTokens(r) \in Seq(Vocab) /\ FullBlocks(AllTokens(r)) \in Nat
            /\ Resident(r, n - 1)
    BY <1>1, PromptAtHand
  <1>8. n \in 1 .. FullBlocks(AllTokens(r)) BY <1>5, <1>7 DEF MoreKeys
  <1>9. PICK key \in Seq(Vocab) : /\ key = PromptKey /\ key = Key(AllTokens(r), n)
                                  /\ Full(key) /\ key \notin Keys
    BY <1>5, <1>7, <1>8, KeyType DEF PromptKey
  <1>10. /\ UNCHANGED <<block_table, stored, output_token_ids>> /\ finished' = finished
         /\ UNCHANGED <<waiting, running, pc, admitted, reserved, states, at, arrival, outlived>>
    BY <1>1 DEF requestVars, stepVars, history
  <1>11. MemInv BY DEF OInv, PInv
  <1>12. Files(b, key) BY <1>3, <1>5, <1>9 DEF Files, CountPromoted
  <1>13. MemInv' /\ Keys' = Keys \cup {key} BY <1>9, <1>10, <1>11, <1>12, PlaceMemory
  <1>14. \A s : Same(s) BY <1>10 DEF Same
  <1>15. \A s : (Cold(s)' <=> Cold(s)) /\ (Served(s)' <=> Served(s)) /\ (Decoded(s)' <=> Decoded(s))
    BY <1>14, Frame
  <1>16. TypeOK'
    <2>1. free' \subseteq Blocks /\ refcount' \in [Blocks -> Nat] BY <1>13 DEF MemInv, MemoryTypes
    <2> QED BY <1>10, <2>1 DEF OInv, PInv, TypeOK
  <1>17. Roles' BY <1>10 DEF OInv, PInv, Roles, Once
  <1>18. InStep' BY <1>10 DEF OInv, PInv, InStep, Admitting, Once
  <1>19. InBatch' BY <1>10, <1>15 DEF OInv, PInv, InBatch, Outsiders, Pending
  <1>20. Slotted' BY <1>6, <1>10 DEF Slotted
  <1>21. BeingAdmitted' BY <1>6, <1>10, <1>15 DEF OInv, PInv, BeingAdmitted, Admitting
  <1>22. Promise'
    <2>1. PICK due : Covered(due, 1) /\ due[1] <= NFree BY <1>6 DEF OInv, PInv, Promise
    <2>2. PICK paid : Covered(paid, 1)' /\ paid[1] = due[1] - 1
      BY <1>1, <1>9, <1>10, <1>13, <2>1, PaidCovers
    <2>3. NFree' = NFree - 1 /\ NFree \in Nat
      <3>1. IsFiniteSet(free) /\ NFree \in Nat BY <1>11, FreeType
      <3>2. Cardinality(free \ {b}) = Cardinality(free) - 1 BY <3>1, FS_RemoveElement
      <3> QED BY <1>3, <3>1, <3>2 DEF NFree
    <2>4. due[1] \in Nat
      <3>1. 1 \in 1 .. Len(admitted) + 1 BY Lists DEF OInv
      <3> QED BY <2>1, <3>1 DEF Covered
    <2>5. paid[1] <= NFree' BY <2>1, <2>2, <2>3, <2>4
    <2>6. Covered(paid, at)' /\ paid[at'] <= NFree' BY <1>6, <1>10, <2>2, <2>5
    <2> QED BY <1>6, <1>10, <2>6 DEF Promise
  <1>23. PInv' BY <1>13, <1>16, <1>17, <1>18, <1>19, <1>20, <1>21, <1>22 DEF PInv
  <1>24. TierKept' BY <1>4 DEF OInv, TierKept, Sound
  <1>25. AllTokens(r)' = AllTokens(r) BY <1>10 DEF AllTokens
  <1>26. Resident(r, n)'
    <2>1. ASSUME NEW k \in 1 .. n PROVE Key(AllTokens(r), k) \in Keys'
      <3>1. CASE k = n BY <1>9, <1>13, <3>1
      <3>2. CASE k # n
        <4>1. k \in 1 .. n - 1 BY <1>7, <3>2
        <4> QED BY <1>7, <1>13, <4>1 DEF Resident
      <3> QED BY <3>1, <3>2
    <2> QED BY <1>25, <2>1 DEF Resident, Key
  <1>27. /\ r = states'[promoted' + 1] /\ n = next' - 1 /\ next' \in Nat \ {0}
         /\ n <= FullBlocks(AllTokens(r))'
    BY <1>4, <1>7, <1>8, <1>10, <1>25 DEF FullBlocks
  <1>28. Promoting' BY <1>1, <1>4, <1>10 DEF Promoting
  <1>29. Underway' BY <1>4, <1>6, <1>10, <1>26, <1>27, <1>28 DEF Underway, Admitting
  <1> QED BY <1>4, <1>23, <1>24, <1>29 DEF OInv

--------------------------------------------------------------------------------
(* Everything else a step does. *)

\* What admission evicts goes down a tier: a copy of what its block holds.
LEMMA DemoteStep ==
  ASSUME OInv, DemoteToAdmit
  PROVE  OInv'
  <1>1. EvictFor(NextWaiting) /\ Demoted /\ UNCHANGED promoteVars
    BY DEF DemoteToAdmit, EvictToAdmit
  <1>2. PInv' BY <1>1, EvictStep DEF OInv
  <1>3. TierKept'
    <2>1. entries # <<>> BY <1>1 DEF EvictFor
    <2>2. PICK e \in Range(entries) : e = Head(entries)
      <3>1. entries \in Seq(Entry) /\ Len(entries) \in Nat BY EntriesType DEF OInv, PInv
      <3>2. 1 \in 1 .. Len(entries) /\ Head(entries) = entries[1]
        BY <2>1, <3>1, EmptySeq, HeadTailProperties
      <3> QED BY <3>2, EntriesType DEF OInv, PInv
    <2>3. kv[e.block] = e.key /\ e.key \in Seq(Vocab) BY EntriesType DEF OInv, PInv
    <2>4. tier' = Stored(e.key, e.key) BY <1>1, <2>2, <2>3 DEF Demoted
    <2>5. Sound(Stored(e.key, e.key)) /\ Len(Stored(e.key, e.key)) <= TierBlocks
      BY <2>3, StoredSound DEF OInv
    <2> QED BY <2>4, <2>5 DEF TierKept, Sound
  <1>4. pc = "admit" /\ pc' = "admit" BY <1>1 DEF EvictFor
  <1>5. Underway' BY <1>1, <1>4, NotUnderway, NothingUnderway DEF OInv, Admitting
  <1> QED BY <1>2, <1>3, <1>5 DEF OInv

\* Where the work of a step leads.
LEMMA WorkLeads ==
  ASSUME PInv, PrefixWork
  PROVE  \/ pc \notin Admitting /\ pc' \notin Admitting
         \/ pc = "prefill" /\ pc' = "fill" /\ at <= Len(states) /\ states' = states
         \/ pc = "fill" /\ pc' = "emit_prefill" /\ states' = states
         \/ pc = "prefill" /\ pc' \in {"grow", "idle"}
  <1>1. CASE RetireOne /\ UNCHANGED cacheVars BY <1>1 DEF RetireOne, Admitting
  <1>2. CASE Retired /\ UNCHANGED cacheVars BY <1>2 DEF Retired, Admitting
  <1>3. CASE ShareCached BY <1>3 DEF ShareCached, stepVars
  <1>4. CASE Fill
    <2>1. pc = "fill" BY <1>4 DEF Fill
    <2>2. FillRest(states[at]) BY <1>4, <2>1, Promised DEF Fill
    <2> QED BY <2>1, <2>2 DEF FillRest
  <1>5. CASE PrefixJoin
    <2>1. pc = "prefill" BY <1>5 DEF PrefixJoin
    <2>2. pc' \in {"grow", "idle"} BY <1>5 DEF PrefixJoin, JoinRunning
    <2> QED BY <2>1, <2>2
  <1>6. CASE GrowOne /\ UNCHANGED cacheVars BY <1>6 DEF GrowOne, Admitting
  <1>7. CASE PrefixGrowShort
    <2>1. pc = "grow" BY <1>7 DEF PrefixGrowShort, PrefixShort
    <2>2. pc' \in {"grow", "idle"} BY <1>7 DEF PrefixGrowShort, PrefixShort
    <2> QED BY <2>1, <2>2 DEF Admitting
  <1>8. CASE PrefixDecode BY <1>8 DEF PrefixDecode, Decode, Admitting
  <1>9. CASE EndStep /\ UNCHANGED cacheVars BY <1>9 DEF EndStep, Admitting
  <1> QED BY <1>1, <1>2, <1>3, <1>4, <1>5, <1>6, <1>7, <1>8, <1>9 DEF PrefixWork

\* Prefill finds its blocks without demoting anything, so the tier stays.
LEMMA OffloadWorkStep ==
  ASSUME OInv, OffloadWork
  PROVE  OInv'
  <1>1. /\ ~Promoting /\ PrefixWork
        /\ promoted' = (IF pc' \in {"idle", "grow"} THEN 0 ELSE promoted)
        /\ next' = next /\ fetched' = fetched
    BY DEF OffloadWork
  <1>2. PInv' BY <1>1, WorkSteps DEF OInv
  <1>3. tier' = tier
    <2>1. ~FillDemotes BY Promised DEF FillDemotes, OInv
    <2> QED BY <2>1 DEF OffloadWork
  <1>4. TierKept' BY <1>3 DEF OInv, TierKept, Sound
  <1>5. promoted \in Nat /\ next = 1 /\ fetched = <<>> BY <1>1 DEF OInv, Underway
  <1>6. Underway'
    <2>1. CASE pc \notin Admitting /\ pc' \notin Admitting
      <3>1. promoted = 0 BY <2>1 DEF OInv, Underway
      <3>2. UNCHANGED promoteVars BY <1>1, <3>1 DEF promoteVars
      <3> QED BY <1>5, <2>1, <3>1, <3>2, NothingUnderway
    <2>2. CASE pc = "prefill" /\ pc' = "fill" /\ at <= Len(states) /\ states' = states
      <3>1. promoted >= Len(states)
        <4>1. Len(states) \in Nat BY Lists DEF OInv
        <4> QED BY <1>1, <1>5, <2>2, <4>1 DEF Promoting
      <3>2. promoted' = promoted BY <1>1, <2>2
      <3> QED BY <1>1, <1>5, <2>2, <3>1, <3>2 DEF Underway, Promoting, Admitting
    <2>3. CASE pc = "fill" /\ pc' = "emit_prefill" /\ states' = states
      <3>1. promoted >= Len(states) BY <2>3 DEF OInv, Underway
      <3>2. promoted' = promoted BY <1>1, <2>3
      <3> QED BY <1>1, <1>5, <2>3, <3>1, <3>2 DEF Underway, Promoting, Admitting
    <2>4. CASE pc = "prefill" /\ pc' \in {"grow", "idle"}
      <3>1. promoted' = 0 BY <1>1, <2>4
      <3> QED BY <1>1, <1>5, <2>4, <3>1 DEF Underway, Promoting, Admitting
    <2> QED BY <1>1, <2>1, <2>2, <2>3, <2>4, WorkLeads DEF OInv
  <1> QED BY <1>2, <1>4, <1>6 DEF OInv

\* The end of admission, and the first prompt to promote.
LEMMA AdmittedStep ==
  ASSUME OInv, PrefixAdmitDone, UNCHANGED <<tier, promoteVars>>
  PROVE  OInv'
  <1>1. pc = "admit" /\ StartWork /\ UNCHANGED cacheVars
    BY DEF PrefixAdmitDone, StopAdmitting
  <1>2. PInv' BY <1>1, StopStep DEF OInv
  <1>3. TierKept' BY DEF OInv, TierKept, Sound
  <1>4. promoted = 0 /\ next = 1 /\ fetched = <<>>
    BY <1>1, NotUnderway DEF OInv, Admitting
  <1>5. promoted' = 0 /\ next' = 1 /\ fetched' = <<>> BY <1>4 DEF promoteVars
  <1>6. Underway'
    <2>1. CASE admitted = <<>>
      <3>1. pc' \notin Admitting BY <1>1, <2>1 DEF StartWork, Admitting
      <3> QED BY <1>4, <3>1, NothingUnderway DEF promoteVars
    <2>2. CASE admitted # <<>>
      <3>1. /\ pc' = "prefill" /\ states' = admitted /\ at' = 1
            /\ output_token_ids' = output_token_ids
        BY <1>1, <2>2 DEF StartWork, requestVars
      <3>2. 1 \in 1 .. Len(admitted)
        <4>1. admitted \in Seq(Requests) /\ Len(admitted) \in Nat BY Lists DEF OInv
        <4>2. Len(admitted) # 0 BY <2>2, <4>1, EmptySeq
        <4> QED BY <4>1, <4>2
      <3>3. PICK r \in Requests : r = admitted[1] BY <3>2, Lists DEF OInv
      <3>4. FullBlocks(AllTokens(r)) \in Nat BY NeedAndShare DEF OInv, PInv
      <3>5. FullBlocks(AllTokens(r))' = FullBlocks(AllTokens(r)) BY <3>1 DEF FullBlocks, AllTokens
      <3>6. Resident(r, 0)' BY DEF Resident
      <3>7. states'[promoted' + 1] = r /\ next' - 1 = 0 BY <1>5, <3>1, <3>3
      <3> QED BY <1>5, <3>1, <3>4, <3>5, <3>6, <3>7 DEF Underway, Admitting
    <2> QED BY <2>1, <2>2
  <1> QED BY <1>2, <1>3, <1>6 DEF OInv

\* A token for one request.
LEMMA OffloadEmitStep ==
  ASSUME OInv, PrefixEmit, UNCHANGED <<tier, promoteVars>>
  PROVE  OInv'
  <1>1. /\ pc \in {"emit_prefill", "emit_decode"} /\ states' = states
        /\ pc' = IF pc = "emit_prefill" THEN "prefill" ELSE pc
    BY DEF PrefixEmit
  <1>2. PInv' BY EmitSteps DEF OInv
  <1>3. TierKept' BY DEF OInv, TierKept, Sound
  <1>4. promoted' = promoted /\ next' = next /\ fetched' = fetched BY DEF promoteVars
  <1>5. CASE pc = "emit_prefill"
    <2>1. promoted >= Len(states) /\ promoted \in Nat BY <1>5 DEF OInv, Underway
    <2>2. next = 1 /\ fetched = <<>> BY <1>5 DEF OInv, Underway, Promoting
    <2>3. ~Promoting'
      <3>1. Len(states) \in Nat BY Lists DEF OInv
      <3> QED BY <1>1, <1>4, <2>1, <3>1 DEF Promoting
    <2>4. Underway' BY <1>1, <1>4, <1>5, <2>1, <2>2, <2>3 DEF Underway, Admitting
    <2> QED BY <1>2, <1>3, <2>4 DEF OInv
  <1>6. CASE pc = "emit_decode"
    <2>1. pc \notin Admitting /\ pc' \notin Admitting BY <1>1, <1>6 DEF Admitting
    <2>2. Underway' BY <2>1, NotUnderway, NothingUnderway DEF OInv
    <2> QED BY <1>2, <1>3, <2>2 DEF OInv
  <1> QED BY <1>1, <1>5, <1>6

\* Outside admission, and a step that leaves the tier alone and does not lead there.
LEMMA OutsideStep ==
  ASSUME OInv, PInv', UNCHANGED <<tier, promoteVars>>, pc \notin Admitting, pc' \notin Admitting
  PROVE  OInv'
  <1>1. TierKept' BY DEF OInv, TierKept, Sound
  <1>2. Underway' BY NotUnderway, NothingUnderway DEF OInv
  <1> QED BY <1>1, <1>2 DEF OInv

--------------------------------------------------------------------------------
(* The invariant holds, and what follows. *)

\* In a new engine: nothing in the tier and nothing under way.
LEMMA InitOffload == OffloadInit => OInv
  <1> SUFFICES ASSUME OffloadInit PROVE OInv
    OBVIOUS
  <1>1. PInv BY InitPrefix DEF OffloadInit
  <1>2. /\ tier = <<>> /\ promoted = 0 /\ next = 1 /\ fetched = <<>> /\ pc = "idle"
    BY DEF OffloadInit, PrefixInit, Init
  <1>3. TierKept
    <2>1. <<>> \in Seq(TierEntry) /\ Len(<<>>) = 0 BY NobodyListed
    <2> QED BY <1>2, <2>1, TierAssumption DEF TierKept, Sound
  <1>4. Underway BY <1>2 DEF Underway, Promoting, Admitting
  <1> QED BY <1>1, <1>3, <1>4 DEF OInv

\* No step breaks it.
LEMMA OffloadSteps == OInv /\ [OffloadNext]_offloadVars => OInv'
  <1> SUFFICES ASSUME OInv, [OffloadNext]_offloadVars PROVE OInv'
    OBVIOUS
  <1>0. PInv BY DEF OInv
  <1>1. CASE BeginStep /\ UNCHANGED cacheVars /\ UNCHANGED <<tier, promoteVars>>
    <2>1. PInv' BY <1>0, <1>1, BeginSteps
    <2>2. pc = "idle" /\ pc' = "retire" BY <1>1 DEF BeginStep
    <2> QED BY <1>1, <2>1, <2>2, OutsideStep DEF Admitting
  <1>2. CASE Admit /\ UNCHANGED cacheVars /\ UNCHANGED <<tier, promoteVars>>
    <2>1. AdmitAt(NextWaiting) BY <1>2 DEF Admit
    <2>2. PInv' BY <1>0, <1>2, <2>1, HeadWaits, AdmissionSteps
    <2>3. pc = "admit" /\ pc' = "admit" BY <2>1 DEF AdmitAt
    <2> QED BY <1>2, <2>2, <2>3, OutsideStep DEF Admitting
  <1>3. CASE PrefixAdmitDone /\ UNCHANGED <<tier, promoteVars>> BY <1>3, AdmittedStep
  <1>4. CASE PrefixEmit /\ UNCHANGED <<tier, promoteVars>> BY <1>4, OffloadEmitStep
  <1>5. CASE DemoteToAdmit BY <1>5, DemoteStep
  <1>6. CASE AlreadyResident BY <1>6, ResidentStep
  <1>7. CASE Fetch BY <1>7, FetchStep
  <1>8. CASE Promote BY <1>8, PlaceStep
  <1>9. CASE PromoteEnds BY <1>9, EndsStep
  <1>10. CASE OffloadWork BY <1>10, OffloadWorkStep
  <1>11. ASSUME NEW r \in Requests, AddRequest(r), UNCHANGED <<cacheVars, tier, promoteVars>>
         PROVE  OInv'
    <2>1. PInv' BY <1>0, <1>11, ArriveStep
    <2>2. pc = "idle" /\ pc' = "idle" BY <1>11 DEF AddRequest
    <2> QED BY <1>11, <2>1, <2>2, OutsideStep DEF Admitting
  <1>12. CASE UNCHANGED offloadVars
    <2>1. UNCHANGED prefixVars /\ UNCHANGED <<tier, promoteVars>> BY <1>12 DEF offloadVars
    <2>2. PInv' BY <1>0, <2>1, PrefixStutters
    <2>3. TierKept' BY <2>1 DEF OInv, TierKept, Sound
    <2>4. UNCHANGED <<pc, at, states, output_token_ids, entries>>
      BY <2>1 DEF prefixVars, vars, cacheVars, requestVars, stepVars
    <2>5. Underway' BY <2>1, <2>4, UnderwayKept DEF OInv
    <2> QED BY <2>2, <2>3, <2>5 DEF OInv
  <1> QED BY <1>1, <1>2, <1>3, <1>4, <1>5, <1>6, <1>7, <1>8, <1>9, <1>10, <1>11, <1>12
          DEF OffloadNext, OffloadStep

\* It always holds.
LEMMA OffloadInvariant == OffloadSpec => []OInv
  BY InitOffload, OffloadSteps, PTL DEF OffloadSpec

\* The inductive invariant says what the tiers hold.
LEMMA TiersFollow == OInv => TiersExact
  <1> SUFFICES ASSUME OInv PROVE TiersExact
    OBVIOUS
  <1>1. PrefixTypeOK /\ CountsExact BY PoolFollows DEF OInv
  <1>2. CacheIsHonest BY DEF OInv, PInv, MemInv, Honest, CacheIsHonest
  <1>3. OffloadTypeOK
    <2>1. tier \in Seq([key : Seq(Vocab), held : Seq(Vocab) \cup {Garbage}])
      <3> DEFINE T == [key : Seq(Vocab), held : Seq(Vocab) \cup {Garbage}]
      <3>1. tier \in Seq(TierEntry) /\ \A i \in 1 .. Len(tier) : tier[i] \in TierEntry
        BY SoundType DEF OInv, TierKept
      <3>2. \A i \in 1 .. Len(tier) : tier[i] \in T BY <3>1 DEF TierEntry
      <3> HIDE DEF T
      <3>3. PICK n \in Nat : n = Len(tier) /\ tier \in [1 .. n -> TierEntry] BY <3>1, LenProperties
      <3>4. tier \in [1 .. n -> T] BY <3>2, <3>3
      <3>5. tier \in Seq(T) BY <3>4, SeqDef
      <3> QED BY <3>5 DEF T
    <2>2. fetched \in Seq(Vocab) \cup {Garbage}
      <3>1. CASE fetched = <<>>
        <4>1. <<>> \in Seq(Vocab) BY NobodyListed
        <4> QED BY <3>1, <4>1
      <3>2. CASE fetched # <<>>
        <4>1. Promoting /\ MoreKeys /\ fetched = PromptKey BY <3>2 DEF OInv, Underway
        <4>2. PICK tokens \in Seq(Vocab) : tokens = AllTokens(states[promoted + 1])
          BY <4>1, PromptAtHand
        <4>3. next \in 1 .. FullBlocks(tokens) BY <4>1, <4>2, PromptAtHand DEF MoreKeys
        <4>4. Key(tokens, next) \in Seq(Vocab) BY <4>3, KeyType
        <4> QED BY <4>1, <4>2, <4>4 DEF PromptKey
      <3> QED BY <3>1, <3>2
    <2>3. promoted \in Nat /\ next \in Nat \ {0} BY DEF OInv, Underway
    <2>4. /\ Len(tier) <= TierBlocks
          /\ \A i, j \in 1 .. Len(tier) : tier[i].key = tier[j].key => i = j
      BY DEF OInv, TierKept, Sound
    <2> QED BY <1>1, <2>1, <2>2, <2>3, <2>4 DEF OffloadTypeOK
  <1>4. TiersHonest
    <2>1. \A e \in Range(tier) : e.held = e.key BY SoundType DEF OInv, TierKept
    <2>2. fetched # <<>> => fetched = PromptKey BY DEF OInv, Underway
    <2> QED BY <1>2, <2>1, <2>2 DEF TiersHonest
  <1> QED BY <1>1, <1>3, <1>4 DEF TiersExact

\* A prefix is the same on its way down a tier and up again, each key has one
\* copy in a tier of bounded size, and the counts of the pool under it are exact.
THEOREM TwoTiersExact == OffloadSpec => []TiersExact
  BY TiersFollow, OffloadInvariant, PTL

\* Promotion never has to demote anything, and what it took prefill does not
\* miss: the copies it placed are blocks that a request then shares.
THEOREM PromotionIsPaidFor == OffloadSpec => []PromisesFit
  <1>1. OInv => PromisesFit
    <2> SUFFICES ASSUME OInv PROVE PromisesFit
      OBVIOUS
    <2>1. PromiseKept BY PoolFollows DEF OInv
    <2>2. PromotionFits BY RoomForCopy DEF PromotionFits, OInv, Underway
    <2> QED BY <2>1, <2>2 DEF PromisesFit
  <1> QED BY <1>1, OffloadInvariant, PTL

\* Two tiers change nothing for who reads what: everybody in the batch gathers
\* the KV of its own tokens, also through blocks that came back from the tier.
THEOREM TiersSpoilNobody == OffloadSpec => []ReadsOwnContext
  <1>1. OInv => ReadsOwnContext BY ContextFollows DEF OInv
  <1> QED BY <1>1, OffloadInvariant, PTL

================================================================================

---------------------------- MODULE BatchTheorems ----------------------------
(***************************************************************************)
(* The batcher of spot prices, for any callers, coins, batch sizes and      *)
(* concurrency: an entry is pending or in one batch, the batches of a round *)
(* hold its entries once, and what the workers skip nobody waits for.       *)
(***************************************************************************)
EXTENDS SpotBatches, TLAPS, WellFoundedInduction, FiniteSetTheorems, SequenceTheorems

(* A set of natural numbers has a least member.                             *)
LEMMA LeastOf ==
  ASSUME NEW S \in SUBSET Nat, S # {}
  PROVE  \E i \in S : \A j \in S : i <= j
<1> DEFINE less == {pair \in Nat \X Nat : pair[1] < pair[2]}
<1>1. IsWellFoundedOn(less, Nat)
  BY NatLessThanWellFounded DEF OpToRel
<1> HIDE DEF less
<1>2. PICK i \in S : \A j \in S : ~(<<j, i>> \in less)
  BY <1>1, WFMin
<1>3. ASSUME NEW j \in S PROVE i <= j
  BY <1>2, <<j, i>> \in less <=> j < i DEF less
<1> QED BY <1>3

-----------------------------------------------------------------------------
(* Being in a batch of this round, waiting for its fetch or under way.      *)
Sits(q, f, e) == (\E i \in DOMAIN q : e \in ToSet(q[i])) \/ (\E b \in f : e \in ToSet(b))

(* Batches share no entries.                                                *)
Apart(q, f) ==
  /\ \A i, j \in DOMAIN q : \A e \in ToSet(q[i]) : e \in ToSet(q[j]) => i = j
  /\ \A b, d \in f : \A e \in ToSet(b) : e \in ToSet(d) => b = d
  /\ \A i \in DOMAIN q, b \in f : \A e \in ToSet(b) : e \notin ToSet(q[i])

Listed(p, e) == \E i \in DOMAIN p : p[i] = e
Single(p) == \A i, j \in DOMAIN p : p[i] = p[j] => i = j

(* An entry is a coin and a number.                                         *)
LEMMA EntriesArePairs ==
  /\ NoEntry \notin Entry
  /\ \A e \in Entry : e[1] \in BatchCoin /\ e[2] \in 1..MaxEntries /\ e = <<e[1], e[2]>>
BY DEF NoEntry, Entry

(* Batches begin apart: products that SMT needs spelled out.                *)
LEMMA Multiples ==
  ASSUME NEW a \in Int, NEW b \in Int, NEW B \in Nat \ {0}, a < b
  PROVE  a * B + B <= b * B
<1>1. (a + 1) * B <= b * B
  OBVIOUS
<1>2. (a + 1) * B = a * B + B
  OBVIOUS
<1> QED BY <1>1, <1>2

(* Division rounds down.                                                    *)
LEMMA Quotients ==
  ASSUME NEW x \in Nat, NEW B \in Nat \ {0}
  PROVE  /\ x \div B \in Nat /\ (x \div B) * B <= x /\ x < (x \div B) * B + B
OBVIOUS

(* The batches of a round hold each of its entries once.                    *)
LEMMA BatchesHoldEntries ==
  ASSUME NEW entries \in Seq(Entry), Single(entries), batchSize \in Nat \ {0}
  PROVE  /\ Batches(entries) \in Seq(Seq(Entry))
         /\ Apart(Batches(entries), {})
         /\ \A e \in Entry : Sits(Batches(entries), {}, e) <=> Listed(entries, e)
<1> DEFINE L == Len(entries)
           B == batchSize
           m == (L + B - 1) \div B
           from(n) == (n - 1) * B
           to(n) == IF n * B < L THEN n * B ELSE L
<1>1. /\ L \in Nat /\ B \in Nat \ {0} /\ DOMAIN entries = 1..L
      /\ \A i \in 1..L : entries[i] \in Entry
  BY LenProperties, ElementOfSeq
<1>2. m \in Nat /\ m * B <= L + B - 1 /\ L + B - 1 < m * B + B
  BY <1>1, Quotients, L + B - 1 \in Nat
<1>3. PICK round : round = Batches(entries)
  OBVIOUS
<1>4. round = [n \in 1..m |-> SubSeq(entries, from(n) + 1, to(n))]
  BY <1>3, <1>1 DEF Batches
<1> HIDE DEF m
<1>5. ASSUME NEW n \in 1..m
      PROVE  /\ from(n) \in Nat /\ to(n) \in Nat /\ to(n) <= L /\ from(n) < to(n) /\ to(n) <= from(n) + B
  <2>1. (n - 1) * B \in Nat /\ n * B \in Nat /\ n * B = (n - 1) * B + B
    BY <1>1, <1>2
  <2>2. (n - 1) * B + B <= m * B
    <3>1. CASE n = m
      BY <1>1, <2>1, <3>1
    <3>2. CASE n < m
      BY <1>1, <1>2, <2>1, <3>2, Multiples
    <3> QED BY <1>2, <3>1, <3>2
  <2> HIDE DEF L, B
  <2> QED BY <1>1, <1>2, <2>1, <2>2
<1> HIDE DEF from, to
<1>6. ASSUME NEW n \in 1..m
      PROVE  /\ round[n] \in Seq(Entry) /\ Len(round[n]) = to(n) - from(n)
             /\ \A k \in 1..(to(n) - from(n)) : round[n][k] = entries[from(n) + k]
  <2>1. PICK batch : batch = SubSeq(entries, from(n) + 1, to(n))
    OBVIOUS
  <2>2. \A i \in (from(n) + 1)..to(n) : entries[i] \in Entry
    BY <1>1, <1>5
  <2>3. /\ batch \in Seq(Entry)
        /\ Len(batch) = IF from(n) + 1 <= to(n) THEN to(n) - (from(n) + 1) + 1 ELSE 0
        /\ \A k \in 1..(to(n) - (from(n) + 1) + 1) : batch[k] = entries[from(n) + 1 + k - 1]
    BY <1>5, <2>1, <2>2, SubSeqProperties
  <2>4. Len(batch) = to(n) - from(n)
    BY <1>5, <2>3
  <2>5. ASSUME NEW k \in 1..(to(n) - from(n)) PROVE batch[k] = entries[from(n) + k]
    <3>1. k \in 1..(to(n) - (from(n) + 1) + 1) /\ from(n) + 1 + k - 1 = from(n) + k
      BY <1>5
    <3> QED BY <2>3, <3>1
  <2>6. round[n] = batch
    BY <1>4, <2>1
  <2> QED BY <2>3, <2>4, <2>5, <2>6
<1>7. round \in Seq(Seq(Entry)) /\ DOMAIN round = 1..m
  <2>1. DOMAIN round = 1..m /\ \A n \in 1..m : round[n] \in Seq(Entry)
    BY <1>4, <1>6
  <2>2. round \in [1..m -> Seq(Entry)]
    BY <1>4, <2>1
  <2> QED BY <1>2, <2>1, <2>2
<1>8. ASSUME NEW n \in 1..m, NEW e \in ToSet(round[n])
      PROVE  \E i \in 1..L : entries[i] = e /\ from(n) < i /\ i <= from(n) + B
  <2>1. DOMAIN round[n] = 1..(to(n) - from(n))
    BY <1>6, LenProperties
  <2>2. PICK k \in 1..(to(n) - from(n)) : e = round[n][k]
    BY <1>8, <2>1 DEF ToSet
  <2>3. from(n) + k \in 1..L /\ from(n) < from(n) + k /\ from(n) + k <= from(n) + B
    BY <1>1, <1>5
  <2> QED BY <1>6, <2>2, <2>3
<1>9. ASSUME NEW i \in 1..L PROVE \E n \in 1..m : entries[i] \in ToSet(round[n])
  <2> DEFINE d == (i - 1) \div B
  <2>1. d \in Nat /\ d * B <= i - 1 /\ i - 1 < d * B + B
    BY <1>1, Quotients, i - 1 \in Nat
  <2> HIDE DEF d
  <2>2. d < m
    <3>1. SUFFICES ASSUME m <= d PROVE FALSE
      BY <1>2, <2>1
    <3>2. m * B <= d * B
      BY <1>1, <1>2, <2>1, <3>1
    <3>3. m * B \in Int /\ d * B \in Int
      BY <1>1, <1>2, <2>1
    <3> HIDE DEF L, B
    <3> QED BY <1>1, <1>2, <2>1, <3>2, <3>3
  <2>3. d + 1 \in 1..m /\ d + 1 - 1 = d
    BY <1>2, <2>1, <2>2
  <2>4. from(d + 1) = d * B /\ (d + 1) * B = d * B + B
    BY <1>1, <2>1, <2>3 DEF from
  <2>5. i <= to(d + 1)
    BY <1>1, <2>1, <2>4 DEF to
  <2>6. i - from(d + 1) \in 1..(to(d + 1) - from(d + 1)) /\ from(d + 1) + (i - from(d + 1)) = i
    <3>1. PICK f : f = from(d + 1)
      OBVIOUS
    <3>2. PICK t : t = to(d + 1)
      OBVIOUS
    <3>3. f \in Nat /\ t \in Nat /\ f <= i - 1 /\ i <= t
      BY <1>5, <2>1, <2>3, <2>4, <2>5, <3>1, <3>2
    <3>4. i - f \in 1..(t - f) /\ f + (i - f) = i
      BY <3>3
    <3> QED BY <3>1, <3>2, <3>4
  <2>7. round[d + 1][i - from(d + 1)] = entries[i] /\ i - from(d + 1) \in DOMAIN round[d + 1]
    BY <1>6, <2>3, <2>6, LenProperties
  <2> QED BY <2>3, <2>7 DEF ToSet
<1>10. ASSUME NEW n \in 1..m, NEW o \in 1..m, NEW e \in ToSet(round[n]), e \in ToSet(round[o])
       PROVE  n = o
  <2>1. PICK i \in 1..L : entries[i] = e /\ from(n) < i /\ i <= from(n) + B
    BY <1>8
  <2>2. PICK j \in 1..L : entries[j] = e /\ from(o) < j /\ j <= from(o) + B
    BY <1>8, <1>10
  <2>3. i = j
    BY <1>1, <2>1, <2>2 DEF Single
  <2>4. ASSUME NEW x \in 1..m, NEW y \in 1..m, x < y PROVE from(x) + B <= from(y)
    <3>1. x - 1 \in Int /\ y - 1 \in Int /\ x - 1 < y - 1
      BY <1>2, <2>4
    <3>2. (x - 1) * B + B <= (y - 1) * B
      BY <1>1, <3>1, Multiples
    <3> QED BY <3>2 DEF from
  <2>5. from(n) \in Int /\ from(o) \in Int
    BY <1>5
  <2>6. ~(n < o) /\ ~(o < n)
    BY <1>1, <2>1, <2>2, <2>3, <2>4, <2>5
  <2> QED BY <1>2, <2>6
<1>11. Apart(round, {})
  BY <1>7, <1>10 DEF Apart
<1>12. ASSUME NEW e \in Entry PROVE Sits(round, {}, e) <=> Listed(entries, e)
  <2>1. ASSUME Sits(round, {}, e) PROVE Listed(entries, e)
    <3>1. PICK i \in 1..m : e \in ToSet(round[i])
      BY <1>7, <2>1 DEF Sits
    <3>2. \E j \in 1..L : entries[j] = e
      BY <1>8, <3>1
    <3> QED BY <1>1, <3>2 DEF Listed
  <2>2. ASSUME Listed(entries, e) PROVE Sits(round, {}, e)
    <3>1. PICK i \in 1..L : entries[i] = e
      BY <1>1, <2>2 DEF Listed
    <3>2. \E n \in 1..m : e \in ToSet(round[n])
      BY <1>9, <3>1
    <3> QED BY <1>7, <3>2 DEF Sits
  <2> QED BY <2>1, <2>2
<1> QED BY <1>3, <1>7, <1>11, <1>12

(* The indices that are taken: the first so many of those that are wanted.  *)
LEMMA FirstOnes ==
  ASSUME NEW wanted, NEW n \in Nat, wanted \subseteq 1..n, NEW k \in Nat
  PROVE  LET taken == {i \in wanted : Cardinality({j \in wanted : j < i}) < k} IN
         /\ IsFiniteSet(taken) /\ Cardinality(taken) <= k
         /\ \A i \in taken, j \in wanted \ taken : i < j
         /\ k > 0 /\ wanted # {} => taken # {}
<1> DEFINE before(i) == {j \in wanted : j < i}
           taken == {i \in wanted : Cardinality(before(i)) < k}
<1>1. wanted \subseteq Nat /\ IsFiniteSet(wanted)
  <2>1. IsFiniteSet(1..n)
    BY FS_Interval, 1 \in Int, n \in Int
  <2>2. wanted \in SUBSET (1..n)
    OBVIOUS
  <2>3. IsFiniteSet(wanted)
    BY <2>1, <2>2, FS_Subset
  <2>4. wanted \subseteq Nat
    BY <2>2
  <2> QED BY <2>3, <2>4
<1>2. \A i : IsFiniteSet(before(i)) /\ Cardinality(before(i)) \in Nat
  <2>1. \A i : before(i) \in SUBSET wanted
    OBVIOUS
  <2> HIDE DEF before
  <2> QED BY <1>1, <2>1, FS_Subset, FS_CardinalityType
<1>6. \A i : i \in taken <=> i \in wanted /\ Cardinality(before(i)) < k
  OBVIOUS
<1>7. \A i, j : j \in before(i) <=> j \in wanted /\ j < i
  OBVIOUS
<1> HIDE DEF before, taken
<1>8. IsFiniteSet(taken) /\ Cardinality(taken) \in Nat
  BY <1>1, <1>6, FS_Subset, FS_CardinalityType, taken \in SUBSET wanted
<1>3. ASSUME NEW i \in taken, NEW j \in wanted \ taken PROVE i < j
  <2>1. SUFFICES ASSUME ~(i < j) PROVE FALSE
    OBVIOUS
  <2>2. i \in Nat /\ j \in Nat /\ i \in wanted /\ j \in wanted /\ j <= i
    <3>1. i \in wanted /\ j \in wanted
      BY <1>3, <1>6
    <3>2. i \in Nat /\ j \in Nat
      BY <1>1, <3>1
    <3> QED BY <2>1, <3>1, <3>2
  <2>3. before(j) \subseteq before(i)
    <3>1. \A x \in before(j) : x \in wanted /\ x \in Nat /\ x < j
      BY <1>1, <1>7
    <3> QED BY <1>7, <2>2, <3>1
  <2>4. Cardinality(before(j)) <= Cardinality(before(i))
    BY <1>2, <2>3, FS_Subset
  <2> QED BY <1>2, <1>3, <1>6, <2>4
<1>4. Cardinality(taken) <= k
  <2>1. CASE taken = {}
    BY <2>1, FS_EmptySet
  <2>2. CASE taken # {}
    <3> taken \subseteq 1..n
      BY <1>6
    <3>1. PICK i \in taken : \A j \in taken : j <= i
      <4> DEFINE over == {b \in 0..n : \A j \in taken : j <= b}
      <4>1. over \in SUBSET Nat /\ n \in over
        OBVIOUS
      <4>2. PICK b \in over : \A d \in over : b <= d
        BY <4>1, LeastOf
      <4>3. b \in taken
        <5>1. SUFFICES ASSUME b \notin taken PROVE FALSE
          OBVIOUS
        <5>2. \A j \in taken : j \in 1..n /\ j <= b /\ j # b
          BY <5>1
        <5>3. b \in Nat /\ b > 0
          <6>1. PICK j \in taken : TRUE
            BY <2>2
          <6> QED BY <5>2, <6>1, b \in Nat
        <5>4. b - 1 \in over
          BY <5>2, <5>3
        <5> QED BY <4>2, <5>3, <5>4
      <4> QED BY <4>3
    <3>2. taken \subseteq before(i) \cup {i}
      <4>1. \A j \in taken : j \in wanted /\ j \in Nat /\ j <= i
        BY <1>1, <1>6, <3>1
      <4> QED BY <1>7, <4>1
    <3>3. i \notin before(i)
      BY <1>1, <1>7
    <3>4. IsFiniteSet(before(i) \cup {i}) /\ Cardinality(before(i) \cup {i}) = Cardinality(before(i)) + 1
      BY <1>2, <3>3, FS_AddElement
    <3>5. Cardinality(taken) <= Cardinality(before(i)) + 1
      BY <3>2, <3>4, FS_Subset
    <3>6. Cardinality(before(i)) < k
      BY <1>6, <3>1
    <3> QED BY <1>2, <1>8, <3>5, <3>6
  <2> QED BY <2>1, <2>2
<1>5. ASSUME k > 0, wanted # {} PROVE taken # {}
  <2>1. PICK i \in wanted : \A j \in wanted : i <= j
    BY <1>1, <1>5, LeastOf
  <2>2. before(i) = {}
    <3>1. \A j \in wanted : i \in Nat /\ j \in Nat /\ i <= j
      BY <1>1, <2>1
    <3>2. ASSUME NEW j \in before(i) PROVE FALSE
      <4>1. j \in wanted /\ j < i
        BY <1>7
      <4> QED BY <3>1, <4>1
    <3> QED BY <3>2
  <2>3. Cardinality(before(i)) = 0
    BY <2>2, FS_EmptySet
  <2> QED BY <1>5, <1>6, <2>3
<1> QED BY <1>3, <1>4, <1>5, <1>8 DEF before, taken

(* What the workers take is fetched or stays queued, unless nobody wants it *)
(* any more; something is fetched if anybody wants anything.                *)
LEMMA FetchedKeeps ==
  ASSUME NEW round \in Seq(Seq(Entry)), NEW busy \in SUBSET Seq(Entry),
         IsFiniteSet(busy), Cardinality(busy) <= Concurrency, Apart(round, busy), Fetched(round, busy)
  PROVE  /\ queue' \in Seq(Seq(Entry)) /\ fetching' \in SUBSET Seq(Entry)
         /\ IsFiniteSet(fetching') /\ Cardinality(fetching') <= Concurrency
         /\ Apart(queue', fetching')
         /\ \A e \in Entry : Sits(queue', fetching', e) => Sits(round, busy, e)
         /\ \A e \in Entry : state[e] # "detached" /\ Sits(round, busy, e) => Sits(queue', fetching', e)
         /\ busy # {} \/ (\E i \in DOMAIN round : Needed(round[i])) => fetching' # {}
<1>1. PICK N : N = Len(round)
  OBVIOUS
<1>2. N \in Nat /\ DOMAIN round = 1..N /\ \A i \in 1..N : round[i] \in Seq(Entry)
  BY <1>1, LenProperties, ElementOfSeq
<1>3. PICK wanted : wanted = {i \in DOMAIN round : Needed(round[i])}
  OBVIOUS
<1>4. PICK k : k = Concurrency - Cardinality(busy)
  OBVIOUS
<1>5. k \in Nat /\ Cardinality(busy) \in Nat /\ k + Cardinality(busy) = Concurrency /\ (busy = {} => k > 0)
  BY <1>4, SpotBatchesAssumption, FS_CardinalityType, FS_EmptySet
<1>6. PICK taken : taken = {i \in wanted : Cardinality({j \in wanted : j < i}) < k}
  OBVIOUS
<1>7. wanted \subseteq 1..N /\ \A i \in 1..N : i \in wanted <=> Needed(round[i])
  BY <1>2, <1>3
<1>8. /\ IsFiniteSet(taken) /\ Cardinality(taken) <= k /\ taken \subseteq wanted
      /\ \A i \in taken, j \in wanted \ taken : i < j
      /\ k > 0 /\ wanted # {} => taken # {}
  BY <1>2, <1>5, <1>6, <1>7, FirstOnes
<1> DEFINE first == CHOOSE i \in wanted \ taken : \A j \in wanted \ taken : i <= j
           last == IF wanted = taken THEN N ELSE first - 1
<1>10. fetching' = busy \cup {round[i] : i \in taken} /\ queue' = SubSeq(round, last + 1, N)
  BY <1>1, <1>3, <1>4, <1>6 DEF Fetched
<1>11. last \in 0..N /\ (\A i \in taken : i <= last) /\ \A i \in wanted \ taken : i > last
  <2>1. CASE wanted = taken
    BY <1>2, <1>7, <2>1
  <2>2. CASE wanted # taken
    <3> DEFINE left == wanted \ taken
    <3>1. left \in SUBSET Nat /\ left # {}
      <4>1. \A j \in 1..N : j \in Nat
        BY <1>2
      <4>2. left \in SUBSET Nat
        BY <1>7, <4>1
      <4>3. left # {}
        BY <1>8, <2>2
      <4> QED BY <4>2, <4>3
    <3>2. PICK i : i = first
      OBVIOUS
    <3>3. i \in left /\ \A j \in left : i <= j
      <4>1. first = CHOOSE x \in left : \A j \in left : x <= j
        OBVIOUS
      <4> HIDE DEF left, first
      <4>2. \E x \in left : \A j \in left : x <= j
        BY <3>1, LeastOf
      <4> QED BY <3>2, <4>1, <4>2
    <3>4. last = i - 1
      BY <2>2, <3>2
    <3> HIDE DEF last, first
    <3>5. i \in 1..N /\ \A j \in taken : j < i /\ j \in 1..N
      BY <1>7, <1>8, <3>3
    <3>6. \A j \in wanted \ taken : j \in 1..N
      BY <1>7
    <3> QED BY <1>2, <3>3, <3>4, <3>5, <3>6
  <2> QED BY <2>1, <2>2
<1> HIDE DEF last, first
<1>12. /\ queue' \in Seq(Seq(Entry)) /\ Len(queue') = N - last /\ DOMAIN queue' = 1..(N - last)
       /\ \A i \in 1..(N - last) : queue'[i] = round[last + i] /\ last + i \in 1..N
  <2>1. PICK rest : rest = SubSeq(round, last + 1, N)
    OBVIOUS
  <2>2. \A i \in (last + 1)..N : round[i] \in Seq(Entry)
    BY <1>2, <1>11
  <2>3. /\ rest \in Seq(Seq(Entry))
        /\ Len(rest) = IF last + 1 <= N THEN N - (last + 1) + 1 ELSE 0
        /\ \A i \in 1..(N - (last + 1) + 1) : rest[i] = round[last + 1 + i - 1]
    BY <1>2, <1>11, <2>1, <2>2, SubSeqProperties
  <2>4. Len(rest) = N - last
    BY <1>2, <1>11, <2>3
  <2>5. ASSUME NEW i \in 1..(N - last) PROVE rest[i] = round[last + i] /\ last + i \in 1..N
    <3>1. i \in 1..(N - (last + 1) + 1) /\ last + 1 + i - 1 = last + i /\ last + i \in 1..N
      BY <1>2, <1>11
    <3> QED BY <2>3, <3>1
  <2>6. DOMAIN rest = 1..(N - last)
    BY <2>3, <2>4, LenProperties
  <2> QED BY <1>10, <2>1, <2>3, <2>4, <2>5, <2>6
<1>13. PICK q : q = queue'
  OBVIOUS
<1>14. PICK f : f = fetching'
  OBVIOUS
<1>15. /\ q \in Seq(Seq(Entry)) /\ DOMAIN q = 1..(N - last)
       /\ \A i \in 1..(N - last) : q[i] = round[last + i] /\ last + i \in 1..N
       /\ f = busy \cup {round[i] : i \in taken}
  BY <1>10, <1>12, <1>13, <1>14
<1>16. f \in SUBSET Seq(Entry)
  BY <1>2, <1>7, <1>8, <1>15
<1>17. IsFiniteSet(f) /\ Cardinality(f) <= Concurrency
  <2>1. PICK image : image = {round[i] : i \in taken}
    OBVIOUS
  <2>2. [i \in taken |-> round[i]] \in Surjection(taken, image)
    BY <2>1 DEF Surjection
  <2>3. IsFiniteSet(image) /\ Cardinality(image) <= Cardinality(taken)
    BY <1>8, <2>2, FS_Surjection
  <2>4. IsFiniteSet(busy \cup image) /\ IsFiniteSet(busy \cap image)
        /\ Cardinality(busy \cup image) = Cardinality(busy) + Cardinality(image) - Cardinality(busy \cap image)
    BY <2>3, FS_Union, FS_Subset, busy \cap image \in SUBSET busy
  <2>5. Cardinality(image) \in Nat /\ Cardinality(busy \cap image) \in Nat /\ Cardinality(taken) \in Nat
    BY <1>8, <2>3, <2>4, FS_CardinalityType
  <2> QED BY <1>5, <1>8, <1>15, <2>1, <2>3, <2>4, <2>5, SpotBatchesAssumption
<1>18. /\ \A i, j \in 1..N : \A e \in ToSet(round[i]) : e \in ToSet(round[j]) => i = j
       /\ \A b, d \in busy : \A e \in ToSet(b) : e \in ToSet(d) => b = d
       /\ \A i \in 1..N, b \in busy : \A e \in ToSet(b) : e \notin ToSet(round[i])
  BY <1>2 DEF Apart
<1>19. ASSUME NEW b \in f PROVE b \in busy \/ \E i \in taken : b = round[i] /\ i \in 1..N /\ i <= last
  BY <1>7, <1>8, <1>11, <1>15
<1>20. Apart(q, f)
  <2>1. ASSUME NEW i \in 1..(N - last), NEW j \in 1..(N - last), NEW e \in ToSet(q[i]), e \in ToSet(q[j])
        PROVE  i = j
    <3>1. last + i = last + j
      BY <1>15, <1>18, <2>1
    <3> QED BY <1>11, <3>1
  <2>2. ASSUME NEW b \in f, NEW d \in f, NEW e \in ToSet(b), e \in ToSet(d) PROVE b = d
    BY <1>18, <1>19, <2>2
  <2>3. ASSUME NEW i \in 1..(N - last), NEW b \in f, NEW e \in ToSet(b) PROVE e \notin ToSet(q[i])
    <3>1. CASE b \in busy
      BY <1>15, <1>18, <3>1
    <3>2. CASE \E j \in taken : b = round[j] /\ j \in 1..N /\ j <= last
      <4>1. PICK j \in taken : b = round[j] /\ j \in 1..N /\ j <= last
        BY <3>2
      <4>2. j # last + i
        BY <1>11, <4>1
      <4> QED BY <1>15, <1>18, <2>3, <4>1, <4>2
    <3> QED BY <1>19, <3>1, <3>2
  <2> QED BY <1>15, <2>1, <2>2, <2>3 DEF Apart
<1>21. ASSUME NEW e \in Entry, Sits(q, f, e) PROVE Sits(round, busy, e)
  <2>1. CASE \E i \in DOMAIN q : e \in ToSet(q[i])
    BY <1>2, <1>15, <2>1 DEF Sits
  <2>2. CASE \E b \in f : e \in ToSet(b)
    BY <1>2, <1>19, <2>2 DEF Sits
  <2> QED BY <1>21, <2>1, <2>2 DEF Sits
<1>22. ASSUME NEW e \in Entry, state[e] # "detached", Sits(round, busy, e) PROVE Sits(q, f, e)
  <2>1. CASE \E b \in busy : e \in ToSet(b)
    BY <1>15, <2>1 DEF Sits
  <2>2. CASE \E i \in DOMAIN round : e \in ToSet(round[i])
    <3>1. PICK i \in 1..N : e \in ToSet(round[i])
      BY <1>2, <2>2
    <3>2. i \in wanted
      BY <1>7, <1>22, <3>1 DEF Needed
    <3>3. CASE i \in taken
      BY <1>15, <3>1, <3>3 DEF Sits
    <3>4. CASE i \notin taken
      <4>1. i > last
        BY <1>11, <3>2, <3>4
      <4>2. i - last \in 1..(N - last) /\ last + (i - last) = i
        BY <1>2, <1>11, <4>1
      <4> QED BY <1>15, <3>1, <4>2 DEF Sits
    <3> QED BY <3>3, <3>4
  <2> QED BY <1>22, <2>1, <2>2 DEF Sits
<1>23. ASSUME busy # {} \/ (\E i \in DOMAIN round : Needed(round[i])) PROVE f # {}
  <2>1. CASE busy # {}
    BY <1>15, <2>1
  <2>2. CASE busy = {}
    <3>1. wanted # {}
      BY <1>2, <1>7, <1>23, <2>2
    <3>2. taken # {}
      BY <1>5, <1>8, <2>2, <3>1
    <3> QED BY <1>15, <3>2
  <2> QED BY <2>1, <2>2
<1> QED BY <1>13, <1>14, <1>15, <1>16, <1>17, <1>20, <1>21, <1>22, <1>23

(* Where entries sit, which entries exist, and who waits for them.          *)
Placed(p, q, f, e) == Listed(p, e) \/ Sits(q, f, e)
Made(e) == e[2] <= made[e[1]]
Waiting(e) == {w \in Caller : caller[w] = "waiting" /\ joined[w] = e}

BatcherTyped ==
  /\ batchSize \in Nat \ {0}
  /\ caller \in [Caller -> {"idle", "waiting", "answered", "failed", "cancelled"}]
  /\ joined \in [Caller -> Entry \cup {NoEntry}]
  /\ made \in [BatchCoin -> 0..MaxEntries]
  /\ inflight \in [BatchCoin -> Entry \cup {NoEntry}]
  /\ waiters \in [Entry -> Int]
  /\ state \in [Entry -> {"open", "answered", "failed", "detached"}]
  /\ pending \in Seq(Entry) /\ queue \in Seq(Seq(Entry)) /\ fetching \in SUBSET Seq(Entry)
  /\ IsFiniteSet(fetching) /\ Cardinality(fetching) <= Concurrency
  /\ scheduled \in BOOLEAN /\ running \in BOOLEAN

(* An entry sits in one place: it is pending, or in one batch.              *)
OncePlaced ==
  /\ Single(pending) /\ Apart(queue, fetching)
  /\ \A e \in Entry : Listed(pending, e) => ~Sits(queue, fetching, e) /\ state[e] = "open"

(* An entry that is open is the one of its coin and has a place.            *)
OpenKnown ==
  \A e \in Entry :
    /\ Placed(pending, queue, fetching, e) => Made(e)
    /\ ~Made(e) => state[e] = "open"
    /\ Made(e) /\ state[e] = "open" => inflight[e[1]] = e /\ Placed(pending, queue, fetching, e)

(* The counter of an open entry counts those who wait for it.               *)
CountersKnown == \A e \in Entry : state[e] = "open" => waiters[e] = Cardinality(Waiting(e))

(* What new callers of a coin join was made for it and was not dropped.     *)
InflightKnown ==
  \A c \in BatchCoin : inflight[c] # NoEntry =>
    inflight[c][1] = c /\ Made(inflight[c]) /\ state[inflight[c]] # "detached"

(* Whoever waits does so for an open entry of their coin.                   *)
WaitingKnown ==
  \A w \in Caller : caller[w] = "waiting" =>
    joined[w] \in Entry /\ joined[w][1] = CoinOf[w] /\ Made(joined[w]) /\ state[joined[w]] = "open"

(* A flush runs while something is fetched, and something will flush what   *)
(* is pending.                                                              *)
FlushKnown ==
  /\ ~(scheduled /\ running) /\ (running <=> fetching # {}) /\ (~running => queue = <<>>)
  /\ pending # <<>> => scheduled \/ running

BatcherInv ==
  /\ BatcherTyped /\ OncePlaced /\ OpenKnown /\ CountersKnown /\ InflightKnown /\ WaitingKnown /\ FlushKnown

(* Nothing has been asked for.                                              *)
LEMMA BatcherStart == SpotBatchesInit => BatcherInv
<1> SUFFICES ASSUME SpotBatchesInit PROVE BatcherInv
  OBVIOUS
<1>1. SpotBatchesAssumption
  BY SpotBatchesAssumption
<1>2. \A e : ~Listed(<<>>, e)
  BY DEF Listed
<1>3. \A e : ~Sits(<<>>, {}, e)
  BY DEF Sits
<1>4. pending = <<>> /\ queue = <<>> /\ fetching = {}
  BY DEF SpotBatchesInit
<1>5. BatcherTyped
  <2>1. 0 \in 0..MaxEntries
    BY <1>1 DEF SpotBatchesAssumption
  <2>2. IsFiniteSet({}) /\ Cardinality({}) <= Concurrency
    BY <1>1, FS_EmptySet DEF SpotBatchesAssumption
  <2>3. <<>> \in Seq(Entry) /\ <<>> \in Seq(Seq(Entry))
    OBVIOUS
  <2>4. batchSize \in Nat \ {0}
    BY <1>1 DEF SpotBatchesInit, SpotBatchesAssumption
  <2>5. /\ caller \in [Caller -> {"idle", "waiting", "answered", "failed", "cancelled"}]
        /\ joined \in [Caller -> Entry \cup {NoEntry}]
        /\ inflight \in [BatchCoin -> Entry \cup {NoEntry}]
    BY DEF SpotBatchesInit
  <2>6. made \in [BatchCoin -> 0..MaxEntries]
    BY <2>1 DEF SpotBatchesInit
  <2>7. waiters \in [Entry -> Int] /\ state \in [Entry -> {"open", "answered", "failed", "detached"}]
    BY DEF SpotBatchesInit
  <2>8. scheduled \in BOOLEAN /\ running \in BOOLEAN
    BY DEF SpotBatchesInit
  <2>9. pending \in Seq(Entry) /\ queue \in Seq(Seq(Entry)) /\ fetching \in SUBSET Seq(Entry)
    BY <1>4, <2>3
  <2> QED BY <1>4, <2>2, <2>4, <2>5, <2>6, <2>7, <2>8, <2>9 DEF BatcherTyped
<1>6. OncePlaced
  <2>1. Single(<<>>)
    BY DEF Single
  <2>2. Apart(<<>>, {})
    BY DEF Apart
  <2> QED BY <1>2, <1>4, <2>1, <2>2 DEF OncePlaced
<1>7. \A e \in Entry : ~Made(e)
  <2>1. \A e \in Entry : e[1] \in BatchCoin /\ e[2] \in 1..MaxEntries
    BY EntriesArePairs
  <2>2. \A c \in BatchCoin : made[c] = 0
    BY DEF SpotBatchesInit
  <2> QED BY <2>1, <2>2 DEF Made
<1>8. OpenKnown
  BY <1>2, <1>3, <1>4, <1>7 DEF OpenKnown, Placed, SpotBatchesInit
<1>9. CountersKnown
  <2>1. \A e : Waiting(e) = {}
    BY DEF Waiting, SpotBatchesInit
  <2> QED BY <2>1, FS_EmptySet DEF CountersKnown, SpotBatchesInit
<1>10. InflightKnown
  BY DEF InflightKnown, SpotBatchesInit
<1>11. WaitingKnown
  BY DEF WaitingKnown, SpotBatchesInit
<1>12. FlushKnown
  BY <1>4 DEF FlushKnown, SpotBatchesInit
<1> QED BY <1>5, <1>6, <1>8, <1>9, <1>10, <1>11, <1>12 DEF BatcherInv

(* A round takes over what is pending, and runs if there is anything.       *)
LEMMA RoundKeeps ==
  ASSUME BatcherTyped, OncePlaced, Round
  PROVE  /\ pending' = <<>>
         /\ queue' \in Seq(Seq(Entry)) /\ fetching' \in SUBSET Seq(Entry)
         /\ IsFiniteSet(fetching') /\ Cardinality(fetching') <= Concurrency
         /\ Apart(queue', fetching')
         /\ \A e \in Entry : Sits(queue', fetching', e) <=> Listed(pending, e)
         /\ running' \in BOOLEAN /\ (running' <=> fetching' # {}) /\ (~running' => queue' = <<>>)
<1>1. CASE pending = <<>>
  <2>1. pending' = <<>> /\ running' = FALSE /\ queue' = <<>> /\ fetching' = {}
    BY <1>1 DEF Round
  <2>2. IsFiniteSet({}) /\ Cardinality({}) <= Concurrency
    BY FS_EmptySet, SpotBatchesAssumption
  <2>3. Apart(<<>>, {}) /\ \A e : ~Sits(<<>>, {}, e)
    BY DEF Apart, Sits
  <2>4. \A e : ~Listed(pending, e)
    BY <1>1 DEF Listed
  <2>5. <<>> \in Seq(Seq(Entry))
    OBVIOUS
  <2> QED BY <2>1, <2>2, <2>3, <2>4, <2>5
<1>2. CASE pending # <<>>
  <2>1. pending' = <<>> /\ running' = TRUE /\ Fetched(Batches(pending), {})
    BY <1>2 DEF Round
  <2>2. pending \in Seq(Entry) /\ Single(pending) /\ batchSize \in Nat \ {0}
    BY DEF BatcherTyped, OncePlaced
  <2>3. PICK round : round = Batches(pending)
    OBVIOUS
  <2>4. /\ round \in Seq(Seq(Entry)) /\ Apart(round, {})
        /\ \A e \in Entry : Sits(round, {}, e) <=> Listed(pending, e)
    BY <2>2, <2>3, BatchesHoldEntries
  <2>5. IsFiniteSet({}) /\ Cardinality({}) <= Concurrency /\ {} \in SUBSET Seq(Entry)
    BY FS_EmptySet, SpotBatchesAssumption
  <2>6. Fetched(round, {})
    BY <2>1, <2>3
  <2>7. /\ queue' \in Seq(Seq(Entry)) /\ fetching' \in SUBSET Seq(Entry)
        /\ IsFiniteSet(fetching') /\ Cardinality(fetching') <= Concurrency
        /\ Apart(queue', fetching')
        /\ \A e \in Entry : Sits(queue', fetching', e) => Sits(round, {}, e)
        /\ \A e \in Entry : state[e] # "detached" /\ Sits(round, {}, e) => Sits(queue', fetching', e)
        /\ (\E i \in DOMAIN round : Needed(round[i])) => fetching' # {}
    BY <2>4, <2>5, <2>6, FetchedKeeps
  <2>8. \A e \in Entry : Listed(pending, e) => state[e] # "detached"
    BY DEF OncePlaced
  <2>9. PICK e \in Entry : Listed(pending, e)
    <3>1. 1 \in DOMAIN pending /\ pending[1] \in Entry
      BY <1>2, <2>2
    <3> QED BY <3>1 DEF Listed
  <2>10. \E i \in DOMAIN round : Needed(round[i])
    <3>1. PICK i \in DOMAIN round : e \in ToSet(round[i])
      BY <2>4, <2>9 DEF Sits
    <3> QED BY <2>8, <2>9, <3>1 DEF Needed
  <2>11. \A x \in Entry : Sits(queue', fetching', x) <=> Listed(pending, x)
    BY <2>4, <2>7, <2>8
  <2> QED BY <2>1, <2>7, <2>10, <2>11
<1> QED BY <1>1, <1>2

(* Callers can be counted.                                                  *)
LEMMA WaitingFinite == \A e : IsFiniteSet(Waiting(e)) /\ Cardinality(Waiting(e)) \in Nat
<1>1. \A e : Waiting(e) \in SUBSET Caller
  BY DEF Waiting
<1>2. IsFiniteSet(Caller)
  BY SpotBatchesAssumption
<1> QED BY <1>1, <1>2, FS_Subset, FS_CardinalityType

(* A caller who joins an open entry is counted.                             *)
LEMMA JoinKeeps ==
  ASSUME BatcherTyped, CountersKnown, WaitingKnown, NEW w \in Caller, NEW x \in Entry,
         caller[w] = "idle", Join(w, x), x[1] = CoinOf[w], Made(x)', state[x] # "detached",
         UNCHANGED state, \A e \in Entry : Made(e) => Made(e)'
  PROVE  /\ waiters' \in [Entry -> Int] /\ joined' \in [Caller -> Entry \cup {NoEntry}]
         /\ caller' \in [Caller -> {"idle", "waiting", "answered", "failed", "cancelled"}]
         /\ CountersKnown' /\ WaitingKnown'
<1>1. /\ waiters' = [waiters EXCEPT ![x] = @ + 1]
      /\ joined' = [joined EXCEPT ![w] = x]
      /\ caller' = [caller EXCEPT ![w] = IF state[x] = "open" THEN "waiting" ELSE state[x]]
  BY DEF Join
<1>2. state[x] \in {"open", "answered", "failed"}
  BY DEF BatcherTyped
<1>3. /\ waiters' \in [Entry -> Int] /\ joined' \in [Caller -> Entry \cup {NoEntry}]
      /\ caller' \in [Caller -> {"idle", "waiting", "answered", "failed", "cancelled"}]
  BY <1>1, <1>2 DEF BatcherTyped
<1>4. /\ \A v \in Caller \ {w} : caller'[v] = caller[v] /\ joined'[v] = joined[v]
      /\ joined'[w] = x /\ (caller'[w] = "waiting" <=> state[x] = "open")
  BY <1>1, <1>2 DEF BatcherTyped
<1>5. WaitingKnown'
  <2>1. ASSUME NEW v \in Caller, caller'[v] = "waiting"
        PROVE  joined'[v] \in Entry /\ joined'[v][1] = CoinOf[v]
               /\ joined'[v][2] <= made'[joined'[v][1]] /\ state[joined'[v]] = "open"
    <3>1. CASE v = w
      BY <1>4, <2>1, <3>1 DEF Made
    <3>2. CASE v # w
      <4>1. PICK y : y = joined[v]
        OBVIOUS
      <4>2. y \in Entry /\ y[1] = CoinOf[v] /\ Made(y) /\ state[y] = "open"
        BY <1>4, <2>1, <3>2, <4>1 DEF WaitingKnown
      <4>3. joined'[v] = y /\ y[2] <= made'[y[1]]
        BY <1>4, <3>2, <4>1, <4>2 DEF Made
      <4> QED BY <4>2, <4>3
    <3> QED BY <3>1, <3>2
  <2> QED BY <2>1 DEF WaitingKnown, Made
<1>6. CountersKnown'
  <2>1. ASSUME NEW e \in Entry, state[e] = "open" PROVE waiters'[e] = Cardinality(Waiting(e)')
    <3>1. waiters[e] = Cardinality(Waiting(e)) /\ w \notin Waiting(e)
      BY <2>1 DEF CountersKnown, Waiting
    <3>2. CASE e = x
      <4>1. Waiting(e)' = Waiting(e) \cup {w}
        BY <1>4, <2>1, <3>2 DEF Waiting
      <4>2. waiters'[e] = waiters[e] + 1
        BY <1>1, <3>2 DEF BatcherTyped
      <4> QED BY <3>1, <4>1, <4>2, WaitingFinite, FS_AddElement
    <3>3. CASE e # x
      <4>1. Waiting(e)' = Waiting(e)
        BY <1>4, <3>1, <3>3 DEF Waiting
      <4>2. waiters'[e] = waiters[e]
        BY <1>1, <3>3 DEF BatcherTyped
      <4> QED BY <3>1, <4>1, <4>2
    <3> QED BY <3>2, <3>3
  <2> QED BY <2>1 DEF CountersKnown
<1> QED BY <1>3, <1>5, <1>6

(* A caller joins the entry of the coin, or the first of the next one.      *)
LEMMA AskKeeps ==
  ASSUME BatcherInv, NEW w \in Caller, Ask(w)
  PROVE  BatcherInv'
<1>1. BatcherTyped /\ OncePlaced /\ OpenKnown /\ CountersKnown /\ InflightKnown /\ WaitingKnown /\ FlushKnown
  BY DEF BatcherInv
<1>2. caller[w] = "idle" /\ UNCHANGED <<batchSize, state, running, queue, fetching>>
  BY DEF Ask
<1>3. PICK coin : coin = CoinOf[w]
  OBVIOUS
<1>4. coin \in BatchCoin
  BY <1>3, SpotBatchesAssumption
<1>5. CASE inflight[coin] # NoEntry
  <2>1. PICK x : x = inflight[coin]
    OBVIOUS
  <2>2. Join(w, x) /\ UNCHANGED <<made, inflight, pending, scheduled, again>>
    BY <1>3, <1>5, <2>1 DEF Ask
  <2>3. x \in Entry /\ x[1] = coin /\ Made(x) /\ state[x] # "detached"
    BY <1>1, <1>4, <1>5, <2>1 DEF InflightKnown, BatcherTyped
  <2>4. \A e \in Entry : Made(e)' <=> Made(e)
    BY <2>2 DEF Made
  <2>5. /\ waiters' \in [Entry -> Int] /\ joined' \in [Caller -> Entry \cup {NoEntry}]
        /\ caller' \in [Caller -> {"idle", "waiting", "answered", "failed", "cancelled"}]
        /\ CountersKnown' /\ WaitingKnown'
    BY <1>1, <1>2, <1>3, <2>2, <2>3, <2>4, JoinKeeps
  <2>6. BatcherTyped'
    BY <1>1, <1>2, <2>2, <2>5 DEF BatcherTyped
  <2>7. OncePlaced'
    BY <1>1, <1>2, <2>2 DEF OncePlaced
  <2>8. OpenKnown' /\ InflightKnown'
    BY <1>1, <1>2, <2>2 DEF OpenKnown, InflightKnown, Made
  <2>9. FlushKnown'
    BY <1>1, <1>2, <2>2 DEF FlushKnown
  <2> QED BY <2>5, <2>6, <2>7, <2>8, <2>9 DEF BatcherInv
<1>6. CASE inflight[coin] = NoEntry
  <2>1. PICK x : x = <<coin, made[coin] + 1>>
    OBVIOUS
  <2>2. /\ made[coin] < MaxEntries
        /\ made' = [made EXCEPT ![coin] = @ + 1]
        /\ inflight' = [inflight EXCEPT ![coin] = x]
        /\ pending' = Append(pending, x)
        /\ Join(w, x) /\ ScheduleFlush
    BY <1>3, <1>6, <2>1 DEF Ask
  <2>3. made[coin] \in 0..MaxEntries /\ MaxEntries \in Nat \ {0}
    BY <1>1, <1>4, SpotBatchesAssumption DEF BatcherTyped
  <2>4. x \in Entry /\ x[1] = coin /\ x[2] = made[coin] + 1
    BY <1>4, <2>1, <2>2, <2>3 DEF Entry
  <2>5. /\ made'[coin] = made[coin] + 1 /\ \A c \in BatchCoin \ {coin} : made'[c] = made[c]
        /\ made' \in [BatchCoin -> 0..MaxEntries]
    BY <1>1, <1>4, <2>2, <2>3 DEF BatcherTyped
  <2>6. \A e \in Entry : e[1] \in BatchCoin /\ e[2] \in 1..MaxEntries /\ e = <<e[1], e[2]>>
    BY EntriesArePairs
  <2>7. ~Made(x)
    BY <2>3, <2>4 DEF Made
  <2>8. \A e \in Entry : Made(e)' <=> Made(e) \/ e = x
    <3>1. ASSUME NEW e \in Entry, e[1] = coin PROVE Made(e)' <=> Made(e) \/ e = x
      <4>1. Made(e)' <=> e[2] <= made[coin] + 1
        BY <2>5, <3>1 DEF Made
      <4>2. Made(e) <=> e[2] <= made[coin]
        BY <3>1 DEF Made
      <4>3. e = x <=> e[2] = made[coin] + 1
        BY <2>1, <2>4, <2>6, <3>1
      <4> QED BY <2>3, <2>6, <4>1, <4>2, <4>3
    <3>2. ASSUME NEW e \in Entry, e[1] # coin PROVE Made(e)' <=> Made(e) \/ e = x
      BY <2>4, <2>5, <2>6, <3>2 DEF Made
    <3> QED BY <3>1, <3>2
  <2>9. state[x] = "open" /\ ~Placed(pending, queue, fetching, x)
    BY <1>1, <2>4, <2>7 DEF OpenKnown
  <2>10. \A e : Listed(pending', e) <=> Listed(pending, e) \/ e = x
    <3>1. DOMAIN pending' = 1..(Len(pending) + 1) /\ DOMAIN pending = 1..Len(pending) /\ Len(pending) \in Nat
      BY <1>1, <2>2, <2>4 DEF BatcherTyped
    <3>2. pending'[Len(pending) + 1] = x /\ \A i \in 1..Len(pending) : pending'[i] = pending[i]
      BY <1>1, <2>2, <2>4 DEF BatcherTyped
    <3>3. \A i \in 1..(Len(pending) + 1) : i \in 1..Len(pending) \/ i = Len(pending) + 1
      BY <3>1
    <3>4. 1..Len(pending) \subseteq 1..(Len(pending) + 1) /\ Len(pending) + 1 \in 1..(Len(pending) + 1)
      BY <3>1
    <3> QED BY <3>1, <3>2, <3>3, <3>4 DEF Listed
  <2>11. Single(pending')
    <3>1. DOMAIN pending' = 1..(Len(pending) + 1) /\ DOMAIN pending = 1..Len(pending) /\ Len(pending) \in Nat
      BY <1>1, <2>2, <2>4 DEF BatcherTyped
    <3>2. pending'[Len(pending) + 1] = x /\ \A i \in 1..Len(pending) : pending'[i] = pending[i]
      BY <1>1, <2>2, <2>4 DEF BatcherTyped
    <3>3. \A i \in 1..(Len(pending) + 1) : i \in 1..Len(pending) \/ i = Len(pending) + 1
      BY <3>1
    <3>4. \A i \in 1..Len(pending) : pending[i] # x
      BY <2>9, <3>1 DEF Placed, Listed
    <3>5. \A i, j \in 1..Len(pending) : pending[i] = pending[j] => i = j
      BY <1>1, <3>1 DEF OncePlaced, Single
    <3> QED BY <3>1, <3>2, <3>3, <3>4, <3>5 DEF Single
  <2>12. /\ waiters' \in [Entry -> Int] /\ joined' \in [Caller -> Entry \cup {NoEntry}]
         /\ caller' \in [Caller -> {"idle", "waiting", "answered", "failed", "cancelled"}]
         /\ CountersKnown' /\ WaitingKnown'
    BY <1>1, <1>2, <1>3, <2>2, <2>4, <2>8, <2>9, JoinKeeps
  <2>13. scheduled' \in BOOLEAN /\ (scheduled' \/ running) /\ ~(scheduled' /\ running)
    BY <1>1, <2>2 DEF ScheduleFlush, FlushKnown, BatcherTyped
  <2>14. BatcherTyped'
    <3>1. pending' \in Seq(Entry)
      BY <1>1, <2>2, <2>4 DEF BatcherTyped
    <3>2. inflight' \in [BatchCoin -> Entry \cup {NoEntry}]
      BY <1>1, <2>2, <2>4 DEF BatcherTyped
    <3> QED BY <1>1, <1>2, <2>5, <2>12, <2>13, <3>1, <3>2 DEF BatcherTyped
  <2>15. OncePlaced'
    BY <1>1, <1>2, <2>9, <2>10, <2>11 DEF OncePlaced, Placed
  <2>16. \A e \in Entry : Placed(pending', queue', fetching', e) <=> Placed(pending, queue, fetching, e) \/ e = x
    BY <1>2, <2>10 DEF Placed
  <2>17. OpenKnown'
    <3>1. ASSUME NEW e \in Entry, Made(e), state[e] = "open"
          PROVE  inflight'[e[1]] = e /\ Placed(pending, queue, fetching, e)
      <4>1. inflight[e[1]] = e /\ Placed(pending, queue, fetching, e)
        BY <1>1, <3>1 DEF OpenKnown
      <4>2. e[1] # coin
        BY <1>6, <4>1, EntriesArePairs
      <4> QED BY <2>2, <2>6, <4>1, <4>2, <1>1 DEF BatcherTyped
    <3>2. inflight'[x[1]] = x
      BY <1>1, <1>4, <2>2, <2>4 DEF BatcherTyped
    <3> QED BY <1>1, <1>2, <2>8, <2>9, <2>16, <3>1, <3>2 DEF OpenKnown
  <2>18. InflightKnown'
    <3>1. ASSUME NEW c \in BatchCoin, NEW y, y = inflight'[c], y # NoEntry
          PROVE  y[1] = c /\ Made(y)' /\ state[y] # "detached"
      <4>1. CASE c = coin
        BY <1>1, <1>4, <2>2, <2>4, <2>8, <2>9, <3>1, <4>1 DEF BatcherTyped
      <4>2. CASE c # coin
        <5>1. y = inflight[c] /\ y \in Entry
          BY <1>1, <2>2, <3>1, <4>2 DEF BatcherTyped
        <5>2. y[1] = c /\ Made(y) /\ state[y] # "detached"
          BY <1>1, <3>1, <5>1 DEF InflightKnown
        <5> QED BY <2>8, <5>1, <5>2
      <4> QED BY <4>1, <4>2
    <3> QED BY <1>2, <3>1 DEF InflightKnown, Made
  <2>19. FlushKnown'
    BY <1>1, <1>2, <2>13 DEF FlushKnown
  <2> QED BY <2>12, <2>14, <2>15, <2>17, <2>18, <2>19 DEF BatcherInv
<1> QED BY <1>5, <1>6

(* pending.delete takes out the entry of its coin and nothing else.         *)
LEMMA DeleteKeeps ==
  ASSUME NEW p \in Seq(Entry), p = pending, Single(p), NEW x \in Entry,
         \A e \in Entry : Listed(p, e) /\ e[1] = x[1] => e = x
  PROVE  /\ Delete(x[1]) \in Seq(Entry) /\ Single(Delete(x[1]))
         /\ \A e \in Entry : Listed(Delete(x[1]), e) <=> Listed(p, e) /\ e # x
<1>1. /\ Len(p) \in Nat /\ DOMAIN p = 1..Len(p) /\ \A i \in 1..Len(p) : p[i] \in Entry
  BY LenProperties, ElementOfSeq
<1>2. \A i, j \in 1..Len(p) : p[i] = p[j] => i = j
  BY <1>1 DEF Single
<1>3. CASE ~ \E i \in DOMAIN p : p[i][1] = x[1]
  <2>1. Delete(x[1]) = p
    BY <1>3 DEF Delete
  <2>2. ~Listed(p, x)
    BY <1>3 DEF Listed
  <2> QED BY <2>1, <2>2
<1>4. CASE \E i \in DOMAIN p : p[i][1] = x[1]
  <2>1. PICK i : i = CHOOSE j \in DOMAIN p : p[j][1] = x[1]
    OBVIOUS
  <2>2. i \in 1..Len(p) /\ p[i][1] = x[1]
    BY <1>1, <1>4, <2>1
  <2>3. p[i] = x
    BY <1>1, <2>2 DEF Listed
  <2>4. PICK front : front = SubSeq(p, 1, i - 1)
    OBVIOUS
  <2>5. PICK rest : rest = SubSeq(p, i + 1, Len(p))
    OBVIOUS
  <2>6. Delete(x[1]) = front \o rest
    BY <1>4, <2>1, <2>4, <2>5 DEF Delete, RemoveAt
  <2>7. front \in Seq(Entry) /\ Len(front) = i - 1 /\ \A j \in 1..(i - 1) : front[j] = p[j]
    BY <1>1, <2>2, <2>4
  <2>8. rest \in Seq(Entry) /\ Len(rest) = Len(p) - i /\ \A j \in 1..(Len(p) - i) : rest[j] = p[i + j]
    <3>1. \A j \in (i + 1)..Len(p) : p[j] \in Entry
      BY <1>1, <2>2
    <3>2. /\ rest \in Seq(Entry)
          /\ Len(rest) = IF i + 1 <= Len(p) THEN Len(p) - (i + 1) + 1 ELSE 0
          /\ \A j \in 1..(Len(p) - (i + 1) + 1) : rest[j] = p[i + 1 + j - 1]
      <4>1. i + 1 \in Int /\ Len(p) \in Int
        BY <1>1, <2>2
      <4>2. PICK m : m = i + 1
        OBVIOUS
      <4>3. PICK n : n = Len(p)
        OBVIOUS
      <4>4. m \in Int /\ n \in Int /\ rest = SubSeq(p, m, n) /\ \A j \in m..n : p[j] \in Entry
        BY <2>5, <3>1, <4>1, <4>2, <4>3
      <4>5. /\ rest \in Seq(Entry) /\ Len(rest) = IF m <= n THEN n - m + 1 ELSE 0
            /\ \A j \in 1..(n - m + 1) : rest[j] = p[m + j - 1]
        BY <4>4, SubSeqProperties
      <4> QED BY <4>2, <4>3, <4>5
    <3>3. Len(rest) = Len(p) - i
      <4>1. PICK n : n = Len(p)
        OBVIOUS
      <4>2. n \in Nat /\ i \in 1..n
        BY <1>1, <2>2, <4>1
      <4>3. Len(rest) = IF i + 1 <= n THEN n - (i + 1) + 1 ELSE 0
        BY <3>2, <4>1
      <4>4. Len(rest) = n - i
        BY <4>2, <4>3
      <4> QED BY <4>1, <4>4
    <3>4. ASSUME NEW j \in 1..(Len(p) - i) PROVE rest[j] = p[i + j]
      <4>1. j \in 1..(Len(p) - (i + 1) + 1) /\ i + 1 + j - 1 = i + j
        BY <1>1, <2>2
      <4> QED BY <3>2, <4>1
    <3> QED BY <3>2, <3>3, <3>4
  <2>9. PICK q : q = front \o rest
    OBVIOUS
  <2>10. q \in Seq(Entry) /\ Len(q) = Len(p) - 1 /\ DOMAIN q = 1..(Len(p) - 1)
    <3>1. q \in Seq(Entry) /\ Len(q) = Len(front) + Len(rest)
      BY <2>7, <2>8, <2>9, ConcatProperties
    <3>2. Len(q) = Len(p) - 1
      BY <1>1, <2>2, <2>7, <2>8, <3>1
    <3> QED BY <3>1, <3>2, LenProperties
  <2>11. \A j \in 1..(Len(p) - 1) : q[j] = IF j < i THEN p[j] ELSE p[j + 1]
    <3>1. ASSUME NEW j \in 1..(Len(p) - 1), j < i PROVE q[j] = p[j]
      BY <1>1, <2>2, <2>7, <2>8, <2>9, <3>1
    <3>2. ASSUME NEW j \in 1..(Len(p) - 1), ~(j < i) PROVE q[j] = p[j + 1]
      <4>1. q[j] = rest[j - (i - 1)]
        BY <1>1, <2>2, <2>7, <2>8, <2>9, <3>2
      <4>2. j - (i - 1) \in 1..(Len(p) - i) /\ i + (j - (i - 1)) = j + 1
        BY <1>1, <2>2, <3>2
      <4> QED BY <2>8, <4>1, <4>2
    <3> QED BY <3>1, <3>2
  <2> DEFINE Old(j) == IF j < i THEN j ELSE j + 1
  <2>12. \A j \in 1..(Len(p) - 1) : q[j] = p[Old(j)] /\ Old(j) \in 1..Len(p) /\ Old(j) # i
    BY <1>1, <2>2, <2>11
  <2>13. \A j, k \in 1..(Len(p) - 1) : Old(j) = Old(k) => j = k
    BY <1>1, <2>2
  <2>14. \A j \in 1..Len(p) : j # i => \E k \in 1..(Len(p) - 1) : Old(k) = j
    <3>1. ASSUME NEW j \in 1..Len(p), j < i PROVE j \in 1..(Len(p) - 1) /\ Old(j) = j
      BY <1>1, <2>2, <3>1
    <3>2. ASSUME NEW j \in 1..Len(p), i < j PROVE j - 1 \in 1..(Len(p) - 1) /\ Old(j - 1) = j
      BY <1>1, <2>2, <3>2
    <3>3. \A j \in 1..Len(p) : j # i => j < i \/ i < j
      BY <1>1, <2>2
    <3> HIDE DEF Old
    <3> QED BY <3>1, <3>2, <3>3
  <2> HIDE DEF Old
  <2>15. Single(q)
    BY <1>2, <2>10, <2>12, <2>13 DEF Single
  <2>16. ASSUME NEW e \in Entry PROVE Listed(q, e) <=> Listed(p, e) /\ e # x
    <3>1. ASSUME NEW j \in DOMAIN q, q[j] = e PROVE Listed(p, e) /\ e # x
      BY <1>1, <1>2, <2>2, <2>3, <2>10, <2>12, <3>1 DEF Listed
    <3>2. ASSUME NEW j \in DOMAIN p, p[j] = e, e # x PROVE Listed(q, e)
      <4>1. j \in 1..Len(p) /\ j # i
        BY <1>1, <2>3, <3>2
      <4>2. PICK k \in 1..(Len(p) - 1) : Old(k) = j
        BY <2>14, <4>1
      <4>3. q[k] = e
        BY <2>12, <3>2, <4>2
      <4> QED BY <2>10, <4>3 DEF Listed
    <3> QED BY <3>1, <3>2 DEF Listed
  <2> QED BY <2>6, <2>9, <2>10, <2>15, <2>16
<1> QED BY <1>3, <1>4

(* Leaving drops entries only when nobody waits for them, and then every    *)
(* reference to them by which callers would still join.                     *)
LEMMA CancelKeeps ==
  ASSUME BatcherInv, NEW w \in Caller, Cancel(w)
  PROVE  BatcherInv'
<1>1. BatcherTyped /\ OncePlaced /\ OpenKnown /\ CountersKnown /\ InflightKnown /\ WaitingKnown /\ FlushKnown
  BY DEF BatcherInv
<1>2. PICK x : x = joined[w]
  OBVIOUS
<1>3. PICK left : left = [waiters EXCEPT ![x] = @ - 1]
  OBVIOUS
<1>4. PICK alone : alone = {batch \in fetching : x \in ToSet(batch) /\ \A f \in ToSet(batch) : left[f] = 0}
  OBVIOUS
<1>5. /\ caller[w] = "waiting"
      /\ caller' = [caller EXCEPT ![w] = "cancelled"] /\ waiters' = left
      /\ UNCHANGED <<batchSize, joined, made, scheduled, running, again, queue, fetching>>
  BY <1>2, <1>3 DEF Cancel
<1>6. x \in Entry /\ Made(x) /\ state[x] = "open" /\ w \in Waiting(x)
  BY <1>1, <1>2, <1>5 DEF WaitingKnown, Waiting
<1>7. /\ waiters' \in [Entry -> Int] /\ waiters'[x] = waiters[x] - 1
      /\ \A e \in Entry : e # x => waiters'[e] = waiters[e]
  BY <1>1, <1>3, <1>5, <1>6 DEF BatcherTyped
<1>8. /\ caller' \in [Caller -> {"idle", "waiting", "answered", "failed", "cancelled"}]
      /\ caller'[w] = "cancelled" /\ \A v \in Caller : v # w => caller'[v] = caller[v]
  BY <1>1, <1>5 DEF BatcherTyped
<1>9. \A e \in Entry : state[e] = "open" => waiters'[e] = Cardinality(Waiting(e)')
  <2>1. ASSUME NEW e \in Entry, state[e] = "open", e = x PROVE waiters'[e] = Cardinality(Waiting(e)')
    <3>1. Waiting(e)' = Waiting(e) \ {w}
      BY <1>5, <1>8 DEF Waiting
    <3>2. Cardinality(Waiting(e) \ {w}) = Cardinality(Waiting(e)) - 1
      BY <1>6, <2>1, WaitingFinite, FS_RemoveElement
    <3>3. waiters[e] = Cardinality(Waiting(e))
      BY <1>1, <2>1 DEF CountersKnown
    <3> QED BY <1>7, <2>1, <3>1, <3>2, <3>3
  <2>2. ASSUME NEW e \in Entry, state[e] = "open", e # x PROVE waiters'[e] = Cardinality(Waiting(e)')
    <3>1. Waiting(e)' = Waiting(e)
      BY <1>2, <1>5, <1>8, <2>2 DEF Waiting
    <3> QED BY <1>1, <1>7, <2>2, <3>1 DEF CountersKnown
  <2> QED BY <2>1, <2>2
<1>10. \A e \in Entry : state[e] = "open" /\ waiters'[e] = 0 => \A v \in Waiting(e)' : FALSE
  <2>1. ASSUME NEW e \in Entry, state[e] = "open", waiters'[e] = 0, NEW v \in Waiting(e)' PROVE FALSE
    <3>1. Waiting(e)' \in SUBSET Caller /\ IsFiniteSet(Caller)
      BY SpotBatchesAssumption DEF Waiting
    <3>2. IsFiniteSet(Waiting(e)') /\ Cardinality(Waiting(e)') = 0
      BY <1>9, <2>1, <3>1, FS_Subset
    <3> QED BY <2>1, <3>2, FS_EmptySet
  <2> QED BY <2>1
<1>11. \A e \in Entry : Listed(pending, e) /\ e[1] = x[1] => e = x
  <2>1. ASSUME NEW e \in Entry, Listed(pending, e), e[1] = x[1] PROVE e = x
    <3>1. state[e] = "open" /\ Made(e)
      BY <1>1, <2>1 DEF OncePlaced, OpenKnown, Placed
    <3>2. inflight[e[1]] = e /\ inflight[x[1]] = x
      BY <1>1, <1>6, <3>1 DEF OpenKnown
    <3> QED BY <2>1, <3>2
  <2> QED BY <2>1
<1>12. \E E \in SUBSET Entry :
          /\ \A e \in E : Made(e) /\ (state[e] = "open" => \A v \in Waiting(e)' : FALSE)
          /\ \A e \in Entry : state'[e] = IF e \in E THEN "detached" ELSE state[e]
          /\ \A c \in BatchCoin : inflight'[c] = IF inflight[c] \in E THEN NoEntry ELSE inflight[c]
          /\ state' \in [Entry -> {"open", "answered", "failed", "detached"}]
          /\ inflight' \in [BatchCoin -> Entry \cup {NoEntry}]
          /\ pending' \in Seq(Entry) /\ Single(pending')
          /\ \A e \in Entry : Listed(pending', e) <=> Listed(pending, e) /\ e \notin E
          /\ pending' # <<>> => pending # <<>>
  <2>1. CASE left[x] > 0
    <3>1. UNCHANGED <<state, inflight, pending>>
      BY <1>2, <1>3, <2>1 DEF Cancel
    <3>2. /\ state \in [Entry -> {"open", "answered", "failed", "detached"}]
          /\ inflight \in [BatchCoin -> Entry \cup {NoEntry}]
          /\ pending \in Seq(Entry) /\ Single(pending)
      BY <1>1 DEF BatcherTyped, OncePlaced
    <3> WITNESS {} \in SUBSET Entry
    <3> QED BY <3>1, <3>2
  <2>2. CASE ~(left[x] > 0) /\ InBatch(x)
    <3>1. PICK E : E = UNION {ToSet(batch) : batch \in alone}
      OBVIOUS
    <3>2. Detach(E) /\ UNCHANGED pending
      BY <1>2, <1>3, <1>4, <2>2, <3>1 DEF Cancel
    <3>3. \A e \in E : \E batch \in fetching : e \in ToSet(batch) /\ left[e] = 0
      BY <1>4, <3>1
    <3>4. \A batch \in fetching : \A e \in ToSet(batch) : e \in Entry
      BY <1>1 DEF BatcherTyped, ToSet
    <3>5. E \in SUBSET Entry /\ \A e \in E : Sits(queue, fetching, e) /\ waiters'[e] = 0
      BY <1>5, <3>3, <3>4 DEF Sits
    <3>6. \A e \in E : Made(e) /\ ~Listed(pending, e)
      BY <1>1, <3>5 DEF OpenKnown, OncePlaced, Placed
    <3>7. /\ state' = [e \in Entry |-> IF e \in E THEN "detached" ELSE state[e]]
          /\ inflight' = [c \in BatchCoin |-> IF inflight[c] \in E THEN NoEntry ELSE inflight[c]]
      BY <3>2 DEF Detach
    <3>8. state' \in [Entry -> {"open", "answered", "failed", "detached"}]
          /\ inflight' \in [BatchCoin -> Entry \cup {NoEntry}]
      BY <1>1, <3>7 DEF BatcherTyped
    <3>9. \A e \in E : state[e] = "open" => \A v \in Waiting(e)' : FALSE
      BY <1>10, <3>5
    <3>10. pending' = pending /\ pending \in Seq(Entry) /\ Single(pending)
      BY <1>1, <3>2 DEF BatcherTyped, OncePlaced
    <3> QED BY <3>5, <3>6, <3>7, <3>8, <3>9, <3>10
  <2>3. CASE ~(left[x] > 0) /\ ~InBatch(x)
    <3>1. Detach({x}) /\ pending' = Delete(x[1])
      BY <1>2, <1>3, <2>3 DEF Cancel
    <3>2. pending \in Seq(Entry) /\ Single(pending)
      BY <1>1 DEF BatcherTyped, OncePlaced
    <3>3. /\ pending' \in Seq(Entry) /\ Single(pending')
          /\ \A e \in Entry : Listed(pending', e) <=> Listed(pending, e) /\ e # x
      BY <1>6, <1>11, <3>1, <3>2, DeleteKeeps
    <3>4. /\ state' = [e \in Entry |-> IF e \in {x} THEN "detached" ELSE state[e]]
          /\ inflight' = [c \in BatchCoin |-> IF inflight[c] \in {x} THEN NoEntry ELSE inflight[c]]
      BY <3>1 DEF Detach
    <3>5. state' \in [Entry -> {"open", "answered", "failed", "detached"}]
          /\ inflight' \in [BatchCoin -> Entry \cup {NoEntry}]
      BY <1>1, <3>4 DEF BatcherTyped
    <3>6. waiters'[x] = 0
      <4>1. waiters'[x] = Cardinality(Waiting(x)') /\ ~(waiters'[x] > 0)
        BY <1>5, <1>6, <1>9, <2>3
      <4>2. Waiting(x)' \in SUBSET Caller /\ IsFiniteSet(Caller)
        BY SpotBatchesAssumption DEF Waiting
      <4>3. Cardinality(Waiting(x)') \in Nat
        BY <4>2, FS_Subset, FS_CardinalityType
      <4> QED BY <4>1, <4>3
    <3>7. pending' # <<>> => pending # <<>>
      <4>1. ASSUME pending' # <<>> PROVE pending # <<>>
        <5>1. 1 \in DOMAIN pending' /\ pending'[1] \in Entry
          BY <3>3, <4>1
        <5>2. PICK e \in Entry : Listed(pending', e)
          BY <5>1 DEF Listed
        <5>3. Listed(pending, e)
          BY <3>3, <5>2
        <5> QED BY <5>3 DEF Listed
      <4> QED BY <4>1
    <3>8. \A e \in {x} : Made(e) /\ (state[e] = "open" => \A v \in Waiting(e)' : FALSE)
      BY <1>6, <1>10, <3>6
    <3>9. {x} \in SUBSET Entry
      BY <1>6
    <3> QED BY <3>3, <3>4, <3>5, <3>7, <3>8, <3>9
  <2> QED BY <2>1, <2>2, <2>3
<1>13. PICK E \in SUBSET Entry :
          /\ \A e \in E : Made(e) /\ (state[e] = "open" => \A v \in Waiting(e)' : FALSE)
          /\ \A e \in Entry : state'[e] = IF e \in E THEN "detached" ELSE state[e]
          /\ \A c \in BatchCoin : inflight'[c] = IF inflight[c] \in E THEN NoEntry ELSE inflight[c]
          /\ state' \in [Entry -> {"open", "answered", "failed", "detached"}]
          /\ inflight' \in [BatchCoin -> Entry \cup {NoEntry}]
          /\ pending' \in Seq(Entry) /\ Single(pending')
          /\ \A e \in Entry : Listed(pending', e) <=> Listed(pending, e) /\ e \notin E
          /\ pending' # <<>> => pending # <<>>
  BY <1>12
<1>14. \A e \in Entry : Made(e)' <=> Made(e)
  BY <1>5 DEF Made
<1>15. BatcherTyped'
  BY <1>1, <1>5, <1>7, <1>8, <1>13 DEF BatcherTyped
<1>16. OncePlaced'
  BY <1>1, <1>5, <1>13 DEF OncePlaced
<1>17. OpenKnown'
  <2>1. ASSUME NEW e \in Entry
        PROVE  /\ Placed(pending', queue', fetching', e) => Made(e)'
               /\ ~Made(e)' => state'[e] = "open"
               /\ Made(e)' /\ state'[e] = "open" => inflight'[e[1]] = e /\ Placed(pending', queue', fetching', e)
    <3>1. Placed(pending', queue', fetching', e) => Made(e)'
      BY <1>1, <1>5, <1>13, <1>14 DEF OpenKnown, Placed
    <3>2. ~Made(e)' => state'[e] = "open"
      BY <1>1, <1>13, <1>14 DEF OpenKnown
    <3>3. ASSUME Made(e)', state'[e] = "open"
          PROVE  inflight'[e[1]] = e /\ Placed(pending', queue', fetching', e)
      <4>1. e \notin E /\ state[e] = "open"
        BY <1>13, <3>3
      <4>2. inflight[e[1]] = e /\ Placed(pending, queue, fetching, e)
        BY <1>1, <1>14, <3>3, <4>1 DEF OpenKnown
      <4>3. inflight'[e[1]] = e
        BY <1>13, <4>1, <4>2, EntriesArePairs
      <4> QED BY <1>5, <1>13, <4>1, <4>2, <4>3 DEF Placed
    <3> QED BY <3>1, <3>2, <3>3
  <2> QED BY <2>1 DEF OpenKnown
<1>18. CountersKnown'
  BY <1>9, <1>13 DEF CountersKnown
<1>19. InflightKnown'
  <2>1. ASSUME NEW c \in BatchCoin, NEW y, y = inflight'[c], y # NoEntry
        PROVE  y[1] = c /\ y[2] <= made'[y[1]] /\ state'[y] # "detached"
    <3>1. y = inflight[c] /\ y \notin E /\ y \in Entry
      BY <1>1, <1>13, <2>1 DEF BatcherTyped
    <3>2. y[1] = c /\ Made(y) /\ state[y] # "detached"
      BY <1>1, <2>1, <3>1 DEF InflightKnown
    <3> QED BY <1>5, <1>13, <3>1, <3>2 DEF Made
  <2> QED BY <2>1 DEF InflightKnown, Made
<1>20. WaitingKnown'
  <2>1. ASSUME NEW v \in Caller, caller'[v] = "waiting", NEW y, y = joined'[v]
        PROVE  y \in Entry /\ y[1] = CoinOf[v] /\ y[2] <= made'[y[1]] /\ state'[y] = "open"
    <3>1. v # w /\ y = joined[v] /\ caller[v] = "waiting"
      BY <1>5, <1>8, <2>1
    <3>2. y \in Entry /\ y[1] = CoinOf[v] /\ Made(y) /\ state[y] = "open"
      BY <1>1, <3>1 DEF WaitingKnown
    <3>3. v \in Waiting(y)'
      BY <2>1 DEF Waiting
    <3>4. y \notin E
      BY <1>13, <3>2, <3>3
    <3> QED BY <1>5, <1>13, <3>2, <3>4 DEF Made
  <2> QED BY <2>1 DEF WaitingKnown, Made
<1>21. FlushKnown'
  BY <1>1, <1>5, <1>13 DEF FlushKnown
<1> QED BY <1>15, <1>16, <1>17, <1>18, <1>19, <1>20, <1>21 DEF BatcherInv

(* The timer finds no round under way.                                      *)
LEMMA FlushTimerKeeps ==
  ASSUME BatcherInv, FlushTimer
  PROVE  BatcherInv'
<1>1. BatcherTyped /\ OncePlaced /\ OpenKnown /\ CountersKnown /\ InflightKnown /\ WaitingKnown /\ FlushKnown
  BY DEF BatcherInv
<1>2. /\ scheduled /\ scheduled' = FALSE /\ Round
      /\ UNCHANGED <<batchSize, caller, joined, made, inflight, waiters, state>>
  BY DEF FlushTimer
<1>3. /\ pending' = <<>>
      /\ queue' \in Seq(Seq(Entry)) /\ fetching' \in SUBSET Seq(Entry)
      /\ IsFiniteSet(fetching') /\ Cardinality(fetching') <= Concurrency
      /\ Apart(queue', fetching')
      /\ \A e \in Entry : Sits(queue', fetching', e) <=> Listed(pending, e)
      /\ running' \in BOOLEAN /\ (running' <=> fetching' # {}) /\ (~running' => queue' = <<>>)
  BY <1>1, <1>2, RoundKeeps
<1>4. queue = <<>> /\ fetching = {}
  BY <1>1, <1>2 DEF FlushKnown
<1>5. (\A e : ~Sits(queue, fetching, e)) /\ (\A e : ~Listed(pending', e)) /\ <<>> \in Seq(Entry)
  BY <1>3, <1>4 DEF Sits, Listed
<1>6. \A e \in Entry : Placed(pending', queue', fetching', e) <=> Placed(pending, queue, fetching, e)
  BY <1>3, <1>5 DEF Placed
<1>7. \A e : (Made(e)' <=> Made(e)) /\ Waiting(e)' = Waiting(e)
  BY <1>2 DEF Made, Waiting
<1>8. BatcherTyped'
  <2>1. pending' \in Seq(Entry)
    BY <1>3, <1>5
  <2>2. scheduled' \in BOOLEAN
    BY <1>2
  <2> QED BY <1>1, <1>2, <1>3, <2>1, <2>2 DEF BatcherTyped
<1>9. OncePlaced'
  <2>1. Single(pending')
    BY <1>3 DEF Single
  <2> QED BY <1>3, <1>5, <2>1 DEF OncePlaced
<1>10. OpenKnown' /\ CountersKnown'
  BY <1>1, <1>2, <1>6, <1>7 DEF OpenKnown, CountersKnown
<1>11. InflightKnown' /\ WaitingKnown'
  BY <1>1, <1>2 DEF InflightKnown, WaitingKnown, Made
<1>12. FlushKnown'
  BY <1>2, <1>3 DEF FlushKnown
<1> QED BY <1>8, <1>9, <1>10, <1>11, <1>12 DEF BatcherInv

(* The end of a request settles the open entries of its batch; the round    *)
(* goes on with what is left of it, or the next begins.                     *)
LEMMA FetchEndsKeeps ==
  ASSUME BatcherInv, NEW batch \in fetching, NEW result \in {"answered", "failed"}, FetchEnds(batch, result)
  PROVE  BatcherInv'
<1>1. BatcherTyped /\ OncePlaced /\ OpenKnown /\ CountersKnown /\ InflightKnown /\ WaitingKnown /\ FlushKnown
  BY DEF BatcherInv
<1>2. PICK settled : settled = {e \in ToSet(batch) : state[e] = "open"}
  OBVIOUS
<1>3. /\ state' = [e \in Entry |-> IF e \in settled THEN result ELSE state[e]]
      /\ caller' = [w \in Caller |-> IF caller[w] = "waiting" /\ joined[w] \in settled THEN result ELSE caller[w]]
      /\ UNCHANGED <<batchSize, joined, made, inflight, waiters, scheduled>>
  BY <1>2 DEF FetchEnds
<1>4. PICK others : others = fetching \ {batch}
  OBVIOUS
<1>5. \/ /\ fetching = {batch} /\ \A i \in DOMAIN queue : ~Needed(queue[i])
         /\ Round
      \/ /\ ~(fetching = {batch} /\ \A i \in DOMAIN queue : ~Needed(queue[i]))
         /\ Fetched(queue, others) /\ UNCHANGED <<running, again, pending>>
  BY <1>4 DEF FetchEnds
<1>6. \A e \in settled : e \in ToSet(batch) /\ Sits(queue, fetching, e) /\ ~Listed(pending, e)
  <2>1. \A e \in ToSet(batch) : e \in Entry
    BY <1>1 DEF BatcherTyped, ToSet
  <2> QED BY <1>1, <1>2, <2>1 DEF OncePlaced, Sits
<1>7. /\ state' \in [Entry -> {"open", "answered", "failed", "detached"}]
      /\ \A e \in Entry : state'[e] = "open" <=> state[e] = "open" /\ e \notin settled
      /\ \A e \in Entry : state'[e] = "detached" <=> state[e] = "detached"
      /\ \A e \in Entry : state[e] = "open" /\ e \in ToSet(batch) => e \in settled
      /\ \A e \in settled : state[e] = "open"
  BY <1>1, <1>2, <1>3 DEF BatcherTyped
<1>8. /\ caller' \in [Caller -> {"idle", "waiting", "answered", "failed", "cancelled"}]
      /\ \A w \in Caller : caller'[w] = "waiting" <=> caller[w] = "waiting" /\ joined[w] \notin settled
  BY <1>1, <1>3 DEF BatcherTyped
<1>9. CountersKnown'
  <2>1. ASSUME NEW e \in Entry, e \notin settled PROVE Waiting(e)' = Waiting(e)
    BY <1>3, <1>8, <2>1 DEF Waiting
  <2> QED BY <1>1, <1>3, <1>7, <2>1 DEF CountersKnown
<1>10. InflightKnown'
  <2>1. ASSUME NEW c \in BatchCoin, NEW y, y = inflight[c], y # NoEntry
        PROVE  y[1] = c /\ y[2] <= made'[y[1]] /\ state'[y] # "detached"
    <3>1. y \in Entry
      BY <1>1, <2>1 DEF BatcherTyped
    <3> QED BY <1>1, <1>3, <1>7, <2>1, <3>1 DEF InflightKnown, Made
  <2> QED BY <1>3, <2>1 DEF InflightKnown, Made
<1>11. WaitingKnown'
  <2>1. ASSUME NEW w \in Caller, caller'[w] = "waiting", NEW y, y = joined[w]
        PROVE  y \in Entry /\ y[1] = CoinOf[w] /\ y[2] <= made'[y[1]] /\ state'[y] = "open"
    <3>1. caller[w] = "waiting" /\ y \notin settled
      BY <1>8, <2>1
    <3> QED BY <1>1, <1>3, <1>7, <2>1, <3>1 DEF WaitingKnown, Made
  <2> QED BY <1>3, <2>1 DEF WaitingKnown, Made
<1>12. \A e \in Entry : Made(e)' <=> Made(e)
  BY <1>3 DEF Made
<1>13. running /\ ~scheduled
  BY <1>1 DEF FlushKnown
<1>14. CASE fetching = {batch} /\ (\A i \in DOMAIN queue : ~Needed(queue[i])) /\ Round
  <2>1. /\ pending' = <<>>
        /\ queue' \in Seq(Seq(Entry)) /\ fetching' \in SUBSET Seq(Entry)
        /\ IsFiniteSet(fetching') /\ Cardinality(fetching') <= Concurrency
        /\ Apart(queue', fetching')
        /\ \A e \in Entry : Sits(queue', fetching', e) <=> Listed(pending, e)
        /\ running' \in BOOLEAN /\ (running' <=> fetching' # {}) /\ (~running' => queue' = <<>>)
    BY <1>1, <1>14, RoundKeeps
  <2>2. (\A e : ~Listed(pending', e)) /\ <<>> \in Seq(Entry) /\ Single(pending')
    BY <2>1 DEF Listed, Single
  <2>3. BatcherTyped'
    BY <1>1, <1>3, <1>7, <1>8, <2>1, <2>2 DEF BatcherTyped
  <2>4. OncePlaced'
    BY <2>1, <2>2 DEF OncePlaced
  <2>5. OpenKnown'
    <3>1. ASSUME NEW e \in Entry, Made(e), state'[e] = "open"
          PROVE  inflight[e[1]] = e /\ Listed(pending, e)
      <4>1. state[e] = "open" /\ e \notin ToSet(batch)
        BY <1>7, <3>1
      <4>2. inflight[e[1]] = e /\ (Listed(pending, e) \/ Sits(queue, fetching, e))
        BY <1>1, <3>1, <4>1 DEF OpenKnown, Placed
      <4>3. ASSUME NEW i \in DOMAIN queue, e \in ToSet(queue[i]) PROVE FALSE
        BY <1>14, <4>1, <4>3 DEF Needed
      <4> QED BY <1>14, <4>1, <4>2, <4>3 DEF Sits
    <3>2. \A e \in Entry : Listed(pending, e) => Made(e)
      BY <1>1 DEF OpenKnown, Placed
    <3>3. \A e \in Entry : ~Made(e) => state'[e] = "open"
      <4>1. \A e \in settled : e \in Entry => Made(e)
        BY <1>1, <1>6 DEF OpenKnown, Placed
      <4> QED BY <1>1, <1>7, <4>1 DEF OpenKnown
    <3>4. \A e \in Entry : Placed(pending', queue', fetching', e) <=> Listed(pending, e)
      BY <2>1, <2>2 DEF Placed
    <3> QED BY <1>3, <1>12, <3>1, <3>2, <3>3, <3>4 DEF OpenKnown
  <2>6. FlushKnown'
    BY <1>3, <1>13, <2>1 DEF FlushKnown
  <2> QED BY <1>9, <1>10, <1>11, <2>3, <2>4, <2>5, <2>6 DEF BatcherInv
<1>15. CASE /\ ~(fetching = {batch} /\ \A i \in DOMAIN queue : ~Needed(queue[i]))
            /\ Fetched(queue, others) /\ UNCHANGED <<running, again, pending>>
  <2>1. /\ queue \in Seq(Seq(Entry)) /\ others \in SUBSET Seq(Entry)
        /\ IsFiniteSet(others) /\ Cardinality(others) <= Concurrency
    <3>1. others \in SUBSET fetching /\ IsFiniteSet(fetching)
      BY <1>1, <1>4 DEF BatcherTyped
    <3>2. IsFiniteSet(others) /\ Cardinality(others) <= Cardinality(fetching)
      BY <3>1, FS_Subset
    <3>3. Cardinality(others) \in Nat /\ Cardinality(fetching) \in Nat /\ Cardinality(fetching) <= Concurrency
      BY <1>1, <3>1, <3>2, FS_CardinalityType DEF BatcherTyped
    <3>4. Cardinality(others) <= Concurrency
      BY <3>2, <3>3, SpotBatchesAssumption
    <3> QED BY <1>1, <3>1, <3>2, <3>4 DEF BatcherTyped
  <2>2. Apart(queue, others)
    BY <1>1, <1>4 DEF OncePlaced, Apart
  <2>3. /\ queue' \in Seq(Seq(Entry)) /\ fetching' \in SUBSET Seq(Entry)
        /\ IsFiniteSet(fetching') /\ Cardinality(fetching') <= Concurrency
        /\ Apart(queue', fetching')
        /\ \A e \in Entry : Sits(queue', fetching', e) => Sits(queue, others, e)
        /\ \A e \in Entry : state[e] # "detached" /\ Sits(queue, others, e) => Sits(queue', fetching', e)
        /\ others # {} \/ (\E i \in DOMAIN queue : Needed(queue[i])) => fetching' # {}
    BY <1>15, <2>1, <2>2, FetchedKeeps
  <2>4. fetching' # {}
    <3>1. others # {} \/ \E i \in DOMAIN queue : Needed(queue[i])
      BY <1>4, <1>15
    <3> QED BY <2>3, <3>1
  <2>5. \A e \in Entry : Sits(queue', fetching', e) => Sits(queue, fetching, e)
    BY <1>4, <2>3 DEF Sits
  <2>6. \A e \in Entry : Sits(queue, fetching, e) /\ e \notin ToSet(batch) => Sits(queue, others, e)
    BY <1>4 DEF Sits
  <2>7. BatcherTyped'
    BY <1>1, <1>3, <1>7, <1>8, <1>15, <2>3 DEF BatcherTyped
  <2>8. OncePlaced'
    <3>1. \A e \in Entry : Listed(pending, e) => ~Sits(queue', fetching', e) /\ state'[e] = "open"
      BY <1>1, <1>6, <1>7, <2>5 DEF OncePlaced
    <3> QED BY <1>1, <1>15, <2>3, <3>1 DEF OncePlaced
  <2>9. OpenKnown'
    <3>1. ASSUME NEW e \in Entry, Made(e), state'[e] = "open"
          PROVE  inflight[e[1]] = e /\ Placed(pending', queue', fetching', e)
      <4>1. state[e] = "open" /\ e \notin ToSet(batch)
        BY <1>7, <3>1
      <4>2. inflight[e[1]] = e /\ (Listed(pending, e) \/ Sits(queue, fetching, e))
        BY <1>1, <3>1, <4>1 DEF OpenKnown, Placed
      <4> QED BY <1>15, <2>3, <2>6, <4>1, <4>2 DEF Placed
    <3>2. \A e \in Entry : Placed(pending', queue', fetching', e) => Made(e)
      BY <1>1, <1>15, <2>5 DEF OpenKnown, Placed
    <3>3. \A e \in Entry : ~Made(e) => state'[e] = "open"
      <4>1. \A e \in settled : e \in Entry => Made(e)
        BY <1>1, <1>6 DEF OpenKnown, Placed
      <4> QED BY <1>1, <1>7, <4>1 DEF OpenKnown
    <3> QED BY <1>3, <1>12, <3>1, <3>2, <3>3 DEF OpenKnown
  <2>10. FlushKnown'
    BY <1>3, <1>13, <1>15, <2>4 DEF FlushKnown
  <2> QED BY <1>9, <1>10, <1>11, <2>7, <2>8, <2>9, <2>10 DEF BatcherInv
<1> QED BY <1>5, <1>14, <1>15

(* What sits in one place is counted once.                                  *)
LEMMA PlacesCounted ==
  ASSUME BatcherTyped, OncePlaced, NEW e \in Entry
  PROVE  /\ Placed(pending, queue, fetching, e) => Places(e) = 1
         /\ ~Placed(pending, queue, fetching, e) => Places(e) = 0
<1>1. PICK P : P = {i \in DOMAIN pending : pending[i] = e}
  OBVIOUS
<1>2. PICK Q : Q = {i \in DOMAIN queue : e \in ToSet(queue[i])}
  OBVIOUS
<1>3. PICK F : F = {batch \in fetching : e \in ToSet(batch)}
  OBVIOUS
<1>4. Places(e) = Cardinality(P) + Cardinality(Q) + Cardinality(F)
  BY <1>1, <1>2, <1>3 DEF Places
<1>5. (Listed(pending, e) <=> P # {}) /\ (Sits(queue, fetching, e) <=> Q # {} \/ F # {})
  BY <1>1, <1>2, <1>3 DEF Listed, Sits
<1>6. /\ \A i, j \in P : i = j
      /\ \A i, j \in Q : i = j
      /\ \A b, d \in F : b = d
      /\ Q = {} \/ F = {}
  BY <1>1, <1>2, <1>3 DEF OncePlaced, Single, Apart
<1>7. P = {} \/ (Q = {} /\ F = {})
  BY <1>5 DEF OncePlaced
<1>8. \A S : (\A a, b \in S : a = b) /\ S # {} => Cardinality(S) = 1
  <2>1. ASSUME NEW S, \A a, b \in S : a = b, NEW a \in S PROVE Cardinality(S) = 1
    <3>1. S = {a}
      BY <2>1
    <3> QED BY <3>1, FS_Singleton
  <2> QED BY <2>1
<1>9. Cardinality({}) = 0
  BY FS_EmptySet
<1>10. CASE Placed(pending, queue, fetching, e)
  <2>1. \/ Cardinality(P) = 1 /\ Cardinality(Q) = 0 /\ Cardinality(F) = 0
        \/ Cardinality(P) = 0 /\ Cardinality(Q) = 1 /\ Cardinality(F) = 0
        \/ Cardinality(P) = 0 /\ Cardinality(Q) = 0 /\ Cardinality(F) = 1
    BY <1>5, <1>6, <1>7, <1>8, <1>9, <1>10 DEF Placed
  <2> QED BY <1>4, <1>10, <2>1
<1>11. CASE ~Placed(pending, queue, fetching, e)
  <2>1. P = {} /\ Q = {} /\ F = {}
    BY <1>5, <1>11 DEF Placed
  <2> QED BY <1>4, <1>9, <1>11, <2>1
<1> QED BY <1>10, <1>11

(* The invariant has what callers rely on as a consequence.                 *)
LEMMA ServedFollows == BatcherInv => WaitersAreServed
<1> SUFFICES ASSUME BatcherInv PROVE WaitersAreServed
  OBVIOUS
<1>1. BatcherTyped /\ OncePlaced /\ OpenKnown /\ CountersKnown /\ InflightKnown /\ WaitingKnown /\ FlushKnown
  BY DEF BatcherInv
<1>2. SpotBatchesTypeOK
  <2>1. ToSet(pending) \subseteq Entry
    BY <1>1 DEF BatcherTyped, ToSet
  <2> QED BY <1>1, <2>1 DEF BatcherTyped, SpotBatchesTypeOK
<1>3. ASSUME NEW w \in Caller, caller[w] = "waiting"
      PROVE  state[joined[w]] = "open" /\ inflight[CoinOf[w]] = joined[w] /\ Places(joined[w]) = 1
  <2>1. joined[w] \in Entry /\ joined[w][1] = CoinOf[w] /\ Made(joined[w]) /\ state[joined[w]] = "open"
    BY <1>1, <1>3 DEF WaitingKnown
  <2>2. inflight[joined[w][1]] = joined[w] /\ Placed(pending, queue, fetching, joined[w])
    BY <1>1, <2>1 DEF OpenKnown
  <2> QED BY <1>1, <2>1, <2>2, PlacesCounted
<1>4. \A e \in Entry : state[e] = "open" =>
         waiters[e] = Cardinality({w \in Caller : caller[w] = "waiting" /\ joined[w] = e})
  BY <1>1 DEF CountersKnown, Waiting
<1>5. ASSUME NEW c \in BatchCoin
      PROVE  Cardinality({e \in Entry : e[1] = c /\ state[e] = "open" /\ Places(e) > 0}) <= 1
  <2>1. PICK S : S = {e \in Entry : e[1] = c /\ state[e] = "open" /\ Places(e) > 0}
    OBVIOUS
  <2>2. ASSUME NEW e \in S PROVE e = inflight[c]
    <3>1. e \in Entry /\ e[1] = c /\ state[e] = "open" /\ Places(e) > 0
      BY <2>1
    <3>2. Placed(pending, queue, fetching, e)
      BY <1>1, <3>1, PlacesCounted
    <3> QED BY <1>1, <3>1, <3>2 DEF OpenKnown
  <2>3. S \in SUBSET {inflight[c]}
    BY <2>2
  <2>4. IsFiniteSet({inflight[c]}) /\ Cardinality({inflight[c]}) = 1
    BY FS_Singleton
  <2>5. Cardinality(S) <= 1
    BY <2>3, <2>4, FS_Subset
  <2> QED BY <2>1, <2>5
<1> QED BY <1>1, <1>2, <1>3, <1>4, <1>5 DEF WaitersAreServed, FlushKnown

(* However callers join, leave and are answered, for any coins, batch sizes *)
(* and concurrency: whoever waits has an open entry that new callers join,  *)
(* that sits in one place from where it is fetched, and whose counter       *)
(* counts those who wait (spot.ts:124-271).                                 *)
THEOREM ServedTheorem == SpotBatchesSpec => []WaitersAreServed
<1>1. BatcherInv /\ [SpotBatchesNext]_spotBatchVars => BatcherInv'
  <2> SUFFICES ASSUME BatcherInv, [SpotBatchesNext]_spotBatchVars PROVE BatcherInv'
    OBVIOUS
  <2>1. CASE SpotBatchesNext
    BY <2>1, AskKeeps, CancelKeeps, FlushTimerKeeps, FetchEndsKeeps DEF SpotBatchesNext
  <2>2. CASE UNCHANGED spotBatchVars
    BY <2>2 DEF spotBatchVars, BatcherInv, BatcherTyped, OncePlaced, OpenKnown, CountersKnown, InflightKnown,
       WaitingKnown, FlushKnown, Made, Waiting
  <2> QED BY <2>1, <2>2
<1> QED BY BatcherStart, ServedFollows, <1>1, PTL DEF SpotBatchesSpec
==============================================================================

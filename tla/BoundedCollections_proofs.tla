---------------------- MODULE BoundedCollections_proofs ----------------------
(* What the bounded containers guarantee, for every content and capacity. *)
EXTENDS BoundedCollections, FiniteSetTheorems, SequenceTheorems,
        TLAPS

\* A set of natural numbers has a least element.
LEMMA LeastNatural ==
  ASSUME NEW S \in SUBSET Nat, S # {}
  PROVE  \E m \in S : \A n \in S : m <= n
<1> DEFINE R == OpToRel(<, Nat)
<1>1. IsWellFoundedOn(R, Nat)
  BY NatLessThanWellFounded
<1>2. \A x, y \in Nat : x < y => <<x, y>> \in R
  BY DEF OpToRel
<1> HIDE DEF R
<1>3. PICK m \in S : \A n \in S : ~(<<n, m>> \in R)
  BY <1>1, WFMin
<1>4. ASSUME NEW n \in S
      PROVE  m <= n
  <2>1. m \in Nat /\ n \in Nat
    OBVIOUS
  <2>2. ~(n < m)
    BY <1>2, <1>3, <2>1
  <2> QED
    BY <2>1, <2>2
<1> QED
  BY <1>4

\* insert_bounded keeps unexpired entries only, always stores the new one, and
\* respects the capacity.
THEOREM InsertBoundedFits ==
  ASSUME NEW S, IsFiniteSet(S), NEW key, NEW max \in Nat \ {0},
         NEW expiry, NEW now,
         NEW R \in InsertBounded(S, key, max, expiry, now)
  PROVE  /\ key \in R
         /\ R \subseteq Unexpired(S, expiry, now) \cup {key}
         /\ IsFiniteSet(R)
         /\ Cardinality(R) <= max
<1> DEFINE kept == Unexpired(S, expiry, now) \ {key}
           n == Cardinality(kept) - max + 1
<1>1. IsFiniteSet(kept) /\ Cardinality(kept) \in Nat /\ key \notin kept
  BY FS_Subset, FS_CardinalityType DEF Unexpired
<1>2. CASE Cardinality(kept) < max
  <2>1. R = kept \cup {key}
    BY <1>2 DEF InsertBounded
  <2>2. IsFiniteSet(R) /\ Cardinality(R) = Cardinality(kept) + 1
    BY <1>1, <2>1, FS_AddElement
  <2> QED
    BY <1>1, <1>2, <2>1, <2>2
<1>3. CASE ~(Cardinality(kept) < max)
  <2>1. PICK E \in FirstToExpire(kept, n, expiry) : R = (kept \ E) \cup {key}
    BY <1>3 DEF InsertBounded
  <2>2. E \subseteq kept /\ Cardinality(E) = n
    BY <2>1 DEF FirstToExpire
  <2>3. IsFiniteSet(E) /\ kept \cap E = E
    BY <1>1, <2>2, FS_Subset
  <2>4. /\ IsFiniteSet(kept \ E)
        /\ Cardinality(kept \ E) = Cardinality(kept) - Cardinality(kept \cap E)
    BY <1>1, FS_Difference
  <2>5. IsFiniteSet(R) /\ Cardinality(R) = Cardinality(kept \ E) + 1
    BY <1>1, <2>1, <2>4, FS_AddElement
  <2>6. Cardinality(kept \ E) = Cardinality(kept) - n
    BY <2>2, <2>3, <2>4
  <2>7. Cardinality(kept) - n = max - 1
    BY <1>1
  <2>8. Cardinality(R) = max
    BY <2>5, <2>6, <2>7
  <2> QED
    BY <2>1, <2>5, <2>8
<1> QED
  BY <1>2, <1>3

\* insert_bounded drops an unexpired entry only when the map is full afterwards,
\* and every older entry that stays expires no earlier than the dropped one.
THEOREM InsertBoundedEvictsFirst ==
  ASSUME NEW S, IsFiniteSet(S), NEW key, NEW max \in Nat \ {0},
         NEW expiry, NEW now,
         NEW R \in InsertBounded(S, key, max, expiry, now),
         NEW x \in Unexpired(S, expiry, now) \ R
  PROVE  /\ Cardinality(R) = max
         /\ \A stays \in R \ {key} : expiry[x] <= expiry[stays]
<1> DEFINE kept == Unexpired(S, expiry, now) \ {key}
           n == Cardinality(kept) - max + 1
<1>1. IsFiniteSet(kept) /\ Cardinality(kept) \in Nat /\ key \notin kept
  BY FS_Subset, FS_CardinalityType DEF Unexpired
<1>2. x \in kept
  BY InsertBoundedFits
<1>3. ~(Cardinality(kept) < max)
  BY <1>2 DEF InsertBounded
<1>4. PICK E \in FirstToExpire(kept, n, expiry) : R = (kept \ E) \cup {key}
  BY <1>3 DEF InsertBounded
<1>5. /\ E \subseteq kept /\ Cardinality(E) = n
      /\ \A e \in E, rest \in kept \ E : expiry[e] <= expiry[rest]
  BY <1>4 DEF FirstToExpire
<1>6. IsFiniteSet(E) /\ kept \cap E = E
  BY <1>1, <1>5, FS_Subset
<1>7. /\ IsFiniteSet(kept \ E)
      /\ Cardinality(kept \ E) = Cardinality(kept) - Cardinality(kept \cap E)
  BY <1>1, FS_Difference
<1>8. Cardinality(R) = Cardinality(kept \ E) + 1
  BY <1>1, <1>4, <1>7, FS_AddElement
<1>9. Cardinality(R) = max
  <2>1. Cardinality(kept \ E) = Cardinality(kept) - n
    BY <1>5, <1>6, <1>7
  <2>2. Cardinality(kept) - n = max - 1
    BY <1>1
  <2> QED
    BY <1>8, <2>1, <2>2
<1>10. \A stays \in R \ {key} : expiry[x] <= expiry[stays]
  BY <1>1, <1>2, <1>4, <1>5
<1> QED
  BY <1>9, <1>10

-----------------------------------------------------------------------------
\* Dropping the oldest keeps a history of the same kind, within the limit, and drops
\* nothing that there is room for.
LEMMA DropOldestType ==
  ASSUME NEW T, NEW owned \in Seq(T), NEW limit \in Nat
  PROVE  /\ DropOldest(owned, limit) \in Seq(T)
         /\ Len(DropOldest(owned, limit)) <= limit
BY DEF DropOldest

LEMMA DropOldestElements ==
  ASSUME NEW T, NEW owned \in Seq(T), NEW limit \in Nat
  PROVE  /\ Elements(DropOldest(owned, limit)) \subseteq Elements(owned)
         /\ \/ DropOldest(owned, limit) = owned
            \/ Len(DropOldest(owned, limit)) = limit
         /\ (limit > 0 /\ Len(owned) > 0) =>
              /\ Len(DropOldest(owned, limit)) > 0
              /\ owned[Len(owned)] \in Elements(DropOldest(owned, limit))
         /\ NoDuplicates(owned) => NoDuplicates(DropOldest(owned, limit))
         /\ Len(owned) = limit + 1 =>
              Elements(owned) \ Elements(DropOldest(owned, limit)) \subseteq {owned[1]}
<1>1. CASE Len(owned) > limit
  <2> DEFINE first == Len(owned) - limit + 1
             tail  == SubSeq(owned, first, Len(owned))
  <2>1. DropOldest(owned, limit) = tail
    BY <1>1 DEF DropOldest
  <2>2. first \in 1 .. Len(owned) + 1 /\ Len(owned) \in Nat /\ DOMAIN owned = 1 .. Len(owned)
    BY <1>1
  <2>3. /\ tail \in Seq(T)
        /\ Len(tail) = IF first <= Len(owned) THEN Len(owned) - first + 1 ELSE 0
        /\ \A i \in 1 .. Len(owned) - first + 1 : tail[i] = owned[first + i - 1]
    <3>1. first \in Int /\ Len(owned) \in Int /\ \A i \in first .. Len(owned) : owned[i] \in T
      BY <2>2
    <3> QED
      BY <3>1, SubSeqProperties
  <2>4. Len(tail) = limit /\ DOMAIN tail = 1 .. limit
    <3>1. Len(tail) = IF first <= Len(owned) THEN Len(owned) - first + 1 ELSE 0
      BY <2>3
    <3>2. Len(owned) - first + 1 = limit /\ (first <= Len(owned) <=> limit > 0)
      BY <2>2
    <3>3. Len(tail) = limit
      BY <3>1, <3>2
    <3> QED
      BY <2>3, <3>3
  <2>5. \A i \in 1 .. limit : tail[i] = owned[first + i - 1] /\ first + i - 1 \in 1 .. Len(owned)
    <3> TAKE i \in 1 .. limit
    <3>1. i \in 1 .. Len(owned) - first + 1 /\ first + i - 1 \in 1 .. Len(owned)
      BY <2>2, <1>1
    <3> QED
      BY <2>3, <3>1
  <2>6. limit > 0 => limit \in 1 .. limit /\ first + limit - 1 = Len(owned)
    BY <2>2
  <2> HIDE DEF tail, first
  <2>7. Elements(tail) \subseteq Elements(owned)
    BY <2>2, <2>4, <2>5 DEF Elements
  <2>8. limit > 0 => owned[Len(owned)] \in Elements(tail)
    BY <2>4, <2>5, <2>6 DEF Elements
  <2>9. NoDuplicates(owned) => NoDuplicates(tail)
    <3> SUFFICES ASSUME NoDuplicates(owned), NEW i \in 1 .. limit, NEW j \in 1 .. limit,
                        tail[i] = tail[j]
                 PROVE  i = j
      BY <2>4 DEF NoDuplicates
    <3>1. first + i - 1 = first + j - 1
      BY <2>2, <2>5 DEF NoDuplicates
    <3>2. first \in Int
      BY <2>2
    <3> QED
      BY <3>1, <3>2
  <2>10. ASSUME Len(owned) = limit + 1, NEW x \in Elements(owned), x # owned[1]
         PROVE  x \in Elements(tail)
    <3>1. PICK i \in 1 .. Len(owned) : x = owned[i]
      BY <2>2 DEF Elements
    <3>2. first = 2
      BY <2>2, <2>10 DEF first
    <3>3. i - 1 \in 1 .. limit /\ first + (i - 1) - 1 = i
      BY <2>10, <3>1, <3>2
    <3> QED
      BY <2>4, <2>5, <3>1, <3>3 DEF Elements
  <2> QED
    BY <2>1, <2>4, <2>7, <2>8, <2>9, <2>10
<1>2. CASE ~(Len(owned) > limit)
  <2>1. DropOldest(owned, limit) = owned /\ DOMAIN owned = 1 .. Len(owned)
    BY <1>2 DEF DropOldest
  <2>2. Len(owned) > 0 => owned[Len(owned)] \in Elements(owned)
    BY <2>1 DEF Elements
  <2> QED
    BY <1>2, <2>1, <2>2
<1> QED
  BY <1>1, <1>2

\* Forgetting an id takes away at most one place, and no other id.
LEMMA ForgetType ==
  ASSUME NEW T, NEW owned \in Seq(T), NEW id
  PROVE  /\ Forget(owned, id) \in Seq(T)
         /\ Len(Forget(owned, id)) >= Len(owned) - 1
         /\ Elements(Forget(owned, id)) \subseteq Elements(owned)
         /\ Elements(owned) \ {id} \subseteq Elements(Forget(owned, id))
         /\ IF id \in Elements(owned) THEN Len(Forget(owned, id)) = Len(owned) - 1
                                     ELSE Forget(owned, id) = owned
         /\ NoDuplicates(owned) => /\ NoDuplicates(Forget(owned, id))
                                   /\ id \notin Elements(Forget(owned, id))
<1>1. CASE id \in Elements(owned)
  <2> DEFINE at == CHOOSE i \in DOMAIN owned : owned[i] = id
             left == SubSeq(owned, 1, at - 1)
             right == SubSeq(owned, at + 1, Len(owned))
  <2>1. /\ at \in 1 .. Len(owned) /\ owned[at] = id
        /\ Len(owned) \in Nat /\ DOMAIN owned = 1 .. Len(owned)
    BY <1>1 DEF Elements
  <2>2. Forget(owned, id) = left \o right
    BY <1>1 DEF Forget
  <2> HIDE DEF at
  <2>3. /\ left \in Seq(T) /\ Len(left) = at - 1
        /\ \A i \in 1 .. at - 1 : left[i] = owned[i]
    <3>1. 1 \in Int /\ at - 1 \in Int /\ \A i \in 1 .. at - 1 : owned[i] \in T
      BY <2>1
    <3>2. /\ left \in Seq(T)
          /\ Len(left) = IF 1 <= at - 1 THEN (at - 1) - 1 + 1 ELSE 0
          /\ \A i \in 1 .. (at - 1) - 1 + 1 : left[i] = owned[1 + i - 1]
      BY <3>1, SubSeqProperties
    <3> HIDE DEF left
    <3>3. Len(left) = at - 1
      BY <2>1, <3>2
    <3>4. ASSUME NEW i \in 1 .. at - 1 PROVE left[i] = owned[i]
      <4>1. i \in 1 .. (at - 1) - 1 + 1 /\ 1 + i - 1 = i
        BY <2>1
      <4> QED
        BY <3>2, <4>1
    <3> QED
      BY <3>2, <3>3, <3>4
  <2>4. /\ right \in Seq(T) /\ Len(right) = Len(owned) - at
        /\ \A i \in 1 .. Len(owned) - at : right[i] = owned[at + i]
    <3>1. /\ at + 1 \in Int /\ Len(owned) \in Int
          /\ \A i \in at + 1 .. Len(owned) : owned[i] \in T
      BY <2>1
    <3>2. /\ right \in Seq(T)
          /\ Len(right) = IF at + 1 <= Len(owned) THEN Len(owned) - (at + 1) + 1 ELSE 0
          /\ \A i \in 1 .. Len(owned) - (at + 1) + 1 : right[i] = owned[at + 1 + i - 1]
      BY <3>1, SubSeqProperties
    <3> HIDE DEF right
    <3>3. Len(right) = Len(owned) - at
      <4>1. at \in Int /\ Len(owned) \in Int /\ at <= Len(owned)
        BY <2>1
      <4>2. (IF at + 1 <= Len(owned) THEN Len(owned) - (at + 1) + 1 ELSE 0) = Len(owned) - at
        BY ONLY <4>1
      <4> QED
        BY <3>2, <4>2
    <3>4. ASSUME NEW i \in 1 .. Len(owned) - at PROVE right[i] = owned[at + i]
      <4>1. i \in 1 .. Len(owned) - (at + 1) + 1 /\ at + 1 + i - 1 = at + i
        BY <2>1
      <4> QED
        BY <3>2, <4>1
    <3> QED
      BY <3>2, <3>3, <3>4
  <2> HIDE DEF left, right
  <2>5. /\ left \o right \in Seq(T) /\ Len(left \o right) = Len(owned) - 1
    <3>1. left \o right \in Seq(T) /\ Len(left \o right) = Len(left) + Len(right)
      BY <2>3, <2>4
    <3> QED
      BY <2>1, <2>3, <2>4, <3>1
  <2>6. ASSUME NEW i \in 1 .. Len(owned) - 1
        PROVE  (left \o right)[i] = IF i < at THEN owned[i] ELSE owned[i + 1]
    <3>1. (left \o right)[i] = IF i <= Len(left) THEN left[i] ELSE right[i - Len(left)]
      BY <2>1, <2>3, <2>4
    <3>2. CASE i < at
      BY <2>1, <2>3, <3>1, <3>2
    <3>3. CASE ~(i < at)
      <4>1. i - (at - 1) \in 1 .. Len(owned) - at /\ at + (i - (at - 1)) = i + 1
        BY <2>1, <3>3
      <4> QED
        BY <2>1, <2>3, <2>4, <3>1, <3>3, <4>1
    <3> QED
      BY <3>2, <3>3
  <2>7. DOMAIN (left \o right) = 1 .. Len(owned) - 1
    BY <2>5
  <2>8. ASSUME NEW x \in Elements(owned), x # id PROVE x \in Elements(left \o right)
    <3>1. PICK i \in 1 .. Len(owned) : x = owned[i]
      BY <2>1 DEF Elements
    <3>2. CASE i < at
      <4>1. i \in 1 .. Len(owned) - 1
        BY <2>1, <3>2
      <4> QED
        BY <2>6, <2>7, <3>1, <3>2, <4>1 DEF Elements
    <3>3. CASE i > at
      <4>1. i - 1 \in 1 .. Len(owned) - 1 /\ ~(i - 1 < at) /\ (i - 1) + 1 = i
        BY <2>1, <3>3
      <4>2. (left \o right)[i - 1] = owned[i]
        BY <2>6, <4>1
      <4> QED
        BY <2>7, <3>1, <4>1, <4>2 DEF Elements
    <3> QED
      BY <2>1, <2>8, <3>1, <3>2, <3>3
  <2>9. ASSUME NEW x \in Elements(left \o right) PROVE x \in Elements(owned)
    <3>1. PICK i \in 1 .. Len(owned) - 1 : x = IF i < at THEN owned[i] ELSE owned[i + 1]
      BY <2>6, <2>7 DEF Elements
    <3>2. PICK j \in 1 .. Len(owned) : x = owned[j]
      BY <2>1, <3>1
    <3> QED
      BY <2>1, <3>2 DEF Elements
  <2>10. ASSUME NoDuplicates(owned)
         PROVE  NoDuplicates(left \o right) /\ id \notin Elements(left \o right)
    <3> DEFINE place(i) == IF i < at THEN i ELSE i + 1
    <3>1. ASSUME NEW i \in 1 .. Len(owned) - 1
          PROVE  /\ place(i) \in 1 .. Len(owned) /\ place(i) # at
                 /\ (left \o right)[i] = owned[place(i)]
      <4>1. (left \o right)[i] = IF i < at THEN owned[i] ELSE owned[i + 1]
        BY <2>6
      <4>2. place(i) \in 1 .. Len(owned) /\ place(i) # at
        BY <2>1
      <4> QED
        BY <4>1, <4>2
    <3>2. ASSUME NEW i \in 1 .. Len(owned) - 1, NEW j \in 1 .. Len(owned) - 1,
                 place(i) = place(j)
          PROVE  i = j
      BY <2>1, <3>2
    <3> HIDE DEF place
    <3>3. ASSUME NEW i \in 1 .. Len(owned) - 1, NEW j \in 1 .. Len(owned) - 1,
                 (left \o right)[i] = (left \o right)[j]
          PROVE  i = j
      <4>1. place(i) = place(j)
        BY <2>1, <2>10, <3>1, <3>3 DEF NoDuplicates
      <4> QED
        BY <3>2, <4>1
    <3>4. ASSUME NEW i \in 1 .. Len(owned) - 1
          PROVE  (left \o right)[i] # id
      BY <2>1, <2>10, <3>1 DEF NoDuplicates
    <3> QED
      BY <2>7, <3>3, <3>4 DEF NoDuplicates, Elements
  <2> QED
    BY <1>1, <2>1, <2>2, <2>5, <2>8, <2>9, <2>10
<1>2. CASE id \notin Elements(owned)
  BY <1>2 DEF Forget
<1> QED
  BY <1>1, <1>2

\* remember_bounded keeps a history of the same kind, within the limit: with the id
\* (if there is any room), with no other than there were, and without one that
\* there was only when it is full.
THEOREM RememberBoundedFits ==
  ASSUME NEW T, NEW owned \in Seq(T), NEW id \in T, NEW limit \in Nat
  PROVE  /\ RememberBounded(owned, id, limit) \in Seq(T)
         /\ Len(RememberBounded(owned, id, limit)) <= limit
         /\ Elements(RememberBounded(owned, id, limit)) \subseteq Elements(owned) \cup {id}
         /\ limit > 0 => id \in Elements(RememberBounded(owned, id, limit))
         /\ \/ Elements(owned) \subseteq Elements(RememberBounded(owned, id, limit))
            \/ Len(RememberBounded(owned, id, limit)) >= limit
         /\ Len(owned) >= limit => Len(RememberBounded(owned, id, limit)) >= limit
<1> DEFINE rest == Forget(owned, id)
           more == Append(rest, id)
           R    == RememberBounded(owned, id, limit)
<1>1. /\ rest \in Seq(T) /\ Len(rest) \in Nat /\ Len(owned) \in Nat
      /\ Len(rest) >= Len(owned) - 1
      /\ Elements(rest) \subseteq Elements(owned)
      /\ Elements(owned) \ {id} \subseteq Elements(rest)
  BY ForgetType
<1> HIDE DEF rest
<1>2. /\ more \in Seq(T) /\ Len(more) = Len(rest) + 1 /\ DOMAIN more = 1 .. Len(rest) + 1
      /\ \A i \in 1 .. Len(rest) : more[i] = rest[i]
      /\ more[Len(rest) + 1] = id
      /\ DOMAIN rest = 1 .. Len(rest)
  BY <1>1
<1> HIDE DEF more
<1>3. Elements(more) = Elements(rest) \cup {id}
  BY <1>1, <1>2 DEF Elements
<1>4. R = DropOldest(more, limit)
  BY DEF RememberBounded, rest, more
<1> HIDE DEF R
<1>5. R \in Seq(T) /\ Len(R) <= limit
  BY <1>2, <1>4, DropOldestType
<1>6. /\ Elements(R) \subseteq Elements(more)
      /\ R = more \/ Len(R) = limit
      /\ (limit > 0 /\ Len(more) > 0) => more[Len(more)] \in Elements(R)
  BY <1>2, <1>4, DropOldestElements
<1>7. limit > 0 => id \in Elements(R)
  BY <1>1, <1>2, <1>6
<1>8. Elements(owned) \subseteq Elements(R) \/ Len(R) >= limit
  BY <1>1, <1>3, <1>5, <1>6
<1>9. Len(owned) >= limit => Len(R) >= limit
  BY <1>1, <1>2, <1>5, <1>6
<1> QED
  BY <1>1, <1>3, <1>5, <1>6, <1>7, <1>8, <1>9 DEF R

\* A history that holds every id once holds as many ids as it is long.
LEMMA ElementsCounted ==
  ASSUME NEW T, NEW owned \in Seq(T), NoDuplicates(owned)
  PROVE  Cardinality(Elements(owned)) = Len(owned)
<1>1. Len(owned) \in Nat /\ DOMAIN owned = 1 .. Len(owned)
  OBVIOUS
<1>2. owned \in Bijection(1 .. Len(owned), Elements(owned))
  BY <1>1 DEF NoDuplicates, Elements, Bijection, Injection, Surjection, IsInjective
<1>3. ExistsBijection(1 .. Len(owned), Elements(owned))
  BY <1>2 DEF ExistsBijection
<1>4. IsFiniteSet(1 .. Len(owned)) /\ Cardinality(1 .. Len(owned)) = Len(owned)
  <2>1. 1 \in Int /\ Len(owned) \in Int
    BY <1>1
  <2>2. /\ IsFiniteSet(1 .. Len(owned))
        /\ Cardinality(1 .. Len(owned)) = IF 1 > Len(owned) THEN 0 ELSE Len(owned) - 1 + 1
    BY <2>1, FS_Interval
  <2> QED
    BY <1>1, <2>2
<1> QED
  BY <1>3, <1>4, FS_Bijection

\* Remembering an id in a history without duplicates leaves it without duplicates,
\* and the only other id it can lose is the oldest, once the history is full.
THEOREM RememberBoundedLosesOldest ==
  ASSUME NEW T, NEW owned \in Seq(T), NEW id \in T, NEW limit \in Nat \ {0},
         NoDuplicates(owned), Len(owned) <= limit
  PROVE  /\ NoDuplicates(RememberBounded(owned, id, limit))
         /\ \A x \in Elements(owned) \ Elements(RememberBounded(owned, id, limit)) :
              x = owned[1] /\ Len(RememberBounded(owned, id, limit)) = limit
<1> DEFINE rest == Forget(owned, id)
           more == Append(rest, id)
           R    == RememberBounded(owned, id, limit)
<1>1. /\ rest \in Seq(T) /\ Len(rest) \in Nat /\ Len(owned) \in Nat
      /\ DOMAIN rest = 1 .. Len(rest) /\ DOMAIN owned = 1 .. Len(owned)
  BY ForgetType
<1>8. Elements(owned) \ {id} \subseteq Elements(rest)
  BY ForgetType
<1>9. NoDuplicates(rest) /\ id \notin Elements(rest)
  BY ForgetType
<1>10. /\ id \in Elements(owned) => Len(rest) = Len(owned) - 1
       /\ id \notin Elements(owned) => rest = owned
  BY ForgetType
<1>0. R = DropOldest(more, limit)
  BY DEF RememberBounded
<1> HIDE DEF rest, R
<1>2. /\ more \in Seq(T) /\ Len(more) = Len(rest) + 1
      /\ DOMAIN more = 1 .. Len(rest) + 1
      /\ \A i \in 1 .. Len(rest) : more[i] = rest[i]
      /\ more[Len(rest) + 1] = id
  BY <1>1
<1> HIDE DEF more
<1>3. NoDuplicates(more)
  <2> SUFFICES ASSUME NEW i \in 1 .. Len(rest) + 1, NEW j \in 1 .. Len(rest) + 1,
                      more[i] = more[j]
               PROVE  i = j
    BY <1>2 DEF NoDuplicates
  <2>1. \A k \in 1 .. Len(rest) : rest[k] # id
    BY <1>1, <1>9 DEF Elements
  <2> QED
    BY <1>1, <1>2, <1>9, <2>1 DEF NoDuplicates
<1>4. Elements(owned) \subseteq Elements(more)
  <2>1. Elements(rest) \subseteq Elements(more) /\ id \in Elements(more)
    BY SMTT(30), <1>1, <1>2 DEF Elements
  <2> QED
    BY <1>8, <2>1
<1>5. NoDuplicates(R)
  BY <1>0, <1>2, <1>3, DropOldestElements
<1>6. CASE Len(more) <= limit
  <2>1. R = more
    BY <1>0, <1>1, <1>2, <1>6 DEF DropOldest
  <2> QED
    BY <1>4, <1>5, <2>1 DEF R
<1>7. CASE Len(more) > limit
  <2>1. rest = owned /\ Len(owned) = limit /\ Len(more) = limit + 1
    <3>1. id \notin Elements(owned)
      <4>1. ASSUME Len(rest) = Len(owned) - 1
            PROVE  FALSE
        BY <1>1, <1>2, <1>7, <4>1
      <4> QED
        BY <1>10, <4>1
    <3>2. rest = owned
      BY <1>10, <3>1
    <3> QED
      BY <1>1, <1>2, <1>7, <3>2
  <2>2. Len(R) = limit
    <3>1. R = more \/ Len(R) = limit
      BY <1>0, <1>2, DropOldestElements
    <3>2. Len(R) <= limit
      BY <1>0, <1>2, DropOldestType
    <3> QED
      BY <1>1, <1>2, <1>7, <3>1, <3>2
  <2>3. more[1] = owned[1]
    BY <1>1, <1>2, <2>1
  <2>4. Elements(more) \ Elements(R) \subseteq {more[1]}
    BY <1>0, <1>2, <2>1, DropOldestElements
  <2> QED
    BY <1>4, <1>5, <2>2, <2>3, <2>4 DEF R
<1> QED
  BY <1>1, <1>2, <1>6, <1>7
=============================================================================

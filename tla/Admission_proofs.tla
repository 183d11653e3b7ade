-------------------------- MODULE Admission_proofs --------------------------
(***************************************************************************)
(* Theorems about what bounds the requests to a bridge: RateLimiter, for   *)
(* any requests, sources, users and limits, and ToolGate, for any callers  *)
(* and any concurrency.                                                    *)
(***************************************************************************)
EXTENDS RateLimiter, ToolGate, BoundedCollections_proofs

-----------------------------------------------------------------------------
(* Times leaving a bucket *)

\* What is left of a queue is a suffix of it.
Suffix(rest, times, d) ==
  /\ d \in 0..Len(times) /\ Len(rest) = Len(times) - d
  /\ \A i \in 1..Len(rest) : rest[i] = times[d + i]

\* pop_front removes the longest prefix of times up to `last`.
LEMMA PopFrontFacts ==
  ASSUME NEW T \in SUBSET Int, NEW times \in Seq(T), NEW last \in Int,
         NEW rest, rest = PopFront(times, last)
  PROVE  /\ rest \in Seq(T)
         /\ \E d \in 0..Len(times) :
              /\ Suffix(rest, times, d)
              /\ \A j \in 1..d : times[j] <= last
              /\ d < Len(times) => times[d + 1] > last
<1>1. Len(times) \in Nat /\ \A i \in 1..Len(times) : times[i] \in Int
  <2>1. \A i \in 1..Len(times) : times[i] \in T
    OBVIOUS
  <2>2. \A i \in 1..Len(times) : times[i] \in Int
    BY <2>1, Zenon
  <2>3. Len(times) \in Nat
    OBVIOUS
  <2> QED
    BY <2>2, <2>3
<1> DEFINE Stop == {i \in 1..(Len(times) + 1) : i <= Len(times) => times[i] > last}
           IsFirst(i) == /\ \A j \in 1..(i - 1) : times[j] <= last
                         /\ i <= Len(times) => times[i] > last
           first == CHOOSE i \in 1..(Len(times) + 1) : IsFirst(i)
<1>2. PICK m \in Stop : \A n \in Stop : m <= n
  <2>1. Len(times) + 1 \in Stop /\ Stop \in SUBSET Nat
    BY <1>1
  <2> QED
    BY <2>1, LeastNatural
<1>3. m \in 1..(Len(times) + 1) /\ IsFirst(m)
  <2>1. ASSUME NEW j \in 1..(m - 1)
        PROVE  times[j] <= last
    <3>1. j \in 1..Len(times) /\ ~(m <= j)
      BY <1>1, <1>2
    <3>2. j \notin Stop
      BY <1>2, <3>1
    <3> QED
      BY <1>1, <3>1, <3>2
  <2> QED
    BY <1>2, <2>1
<1>4. first \in 1..(Len(times) + 1) /\ IsFirst(first)
  BY <1>3
<1>5. rest = SubSeq(times, first, Len(times))
  BY DEF PopFront
<1> HIDE DEF first
<1>6. /\ rest \in Seq(T) /\ Len(rest) = Len(times) - (first - 1)
      /\ \A i \in 1..Len(rest) : rest[i] = times[(first - 1) + i]
  BY <1>1, <1>4, <1>5
<1>7. first - 1 \in 0..Len(times) /\ (first - 1) + 1 = first
  BY <1>1, <1>4
<1>8. Suffix(rest, times, first - 1)
  BY <1>6, <1>7 DEF Suffix
<1> QED
  BY <1>1, <1>4, <1>6, <1>7, <1>8

-----------------------------------------------------------------------------
(* Keys and tables *)

LEMMA KeyFacts ==
  ASSUME NEW a \in Attempts
  PROVE  /\ Len(KeysOf(a)) \in {2, 3} /\ KeySet(a) \subseteq Keys
         /\ \A i \in 1..Len(KeysOf(a)) : KeysOf(a)[i] \in Keys
         /\ \A i, j \in 1..Len(KeysOf(a)) : KeysOf(a)[i] = KeysOf(a)[j] => i = j
         /\ KeySet(a) = {KeysOf(a)[i] : i \in 1..Len(KeysOf(a))}
<1>1. CASE a \in Logins
  <2> DEFINE k1 == <<"login", "source", a.source>>
             k2 == <<"login", "user", a.user>>
             k3 == <<"login", "global", None>>
  <2>1. KeysOf(a) = <<k1, k2, k3>>
    BY <1>1 DEF KeysOf, Logins
  <2>2. k1 \in Keys /\ k2 \in Keys /\ k3 \in Keys
    BY <1>1 DEF Logins, Keys
  <2>3. k1 # k2 /\ k1 # k3 /\ k2 # k3
    OBVIOUS
  <2> HIDE DEF k1, k2, k3
  <2> QED
    BY <2>1, <2>2, <2>3 DEF KeySet
<1>2. CASE a \in Registrations
  <2> DEFINE k1 == <<"dcr", "source", a.source>>
             k2 == <<"dcr", "global", None>>
  <2>1. KeysOf(a) = <<k1, k2>>
    BY <1>2 DEF KeysOf, Registrations
  <2>2. k1 \in Keys /\ k2 \in Keys
    BY <1>2 DEF Registrations, Keys
  <2>3. k1 # k2
    OBVIOUS
  <2> HIDE DEF k1, k2
  <2> QED
    BY <2>1, <2>2, <2>3 DEF KeySet
<1> QED
  BY <1>1, <1>2 DEF Attempts

LEMMA LimitType == ASSUME NEW k \in Keys PROVE LimitOf(k) \in Nat \ {0}
<1>1. /\ Base \in Nat /\ UserFactor \in Nat /\ GlobalFactor \in Nat
      /\ Base > 0 /\ UserFactor > 0 /\ GlobalFactor > 0
  BY LimitAssumption
<1>2. Base * UserFactor \in Nat \ {0}
  BY <1>1
<1>3. Base * GlobalFactor \in Nat \ {0}
  BY <1>1
<1>4. CASE k[2] = "source"
  BY <1>1, <1>4 DEF LimitOf
<1>5. CASE k[2] = "user"
  BY <1>2, <1>5 DEF LimitOf
<1>6. CASE k[2] = "global"
  BY <1>3, <1>6 DEF LimitOf
<1>7. k[2] \in {"source", "user", "global"}
  BY DEF Keys
<1> QED
  BY <1>4, <1>5, <1>6, <1>7

\* A table as the code may have it at time now.
Table(f) ==
  /\ DOMAIN f \subseteq Keys /\ IsFiniteSet(DOMAIN f)
  /\ Cardinality(DOMAIN f) <= MaxBuckets
  /\ \A k \in DOMAIN f : f[k] \in Seq(1..now) \ {<<>>}

Clock == now \in Nat \ {0}

LEMMA Heads ==
  ASSUME Clock, NEW s \in Seq(1..now) \ {<<>>}
  PROVE  /\ Len(s) \in Nat \ {0} /\ s[1] \in 1..now
         /\ Append(s, now) \in Seq(1..now) \ {<<>>} /\ Append(s, now)[1] = s[1]
         /\ Len(Append(s, now)) = Len(s) + 1
BY SMTT(30) DEF Clock

\* record_rate_event, for one key.
LEMMA RecordOneFacts ==
  ASSUME Clock, NEW f, Table(f), NEW k \in Keys, NEW g \in RecordOne(f, k)
  PROVE  /\ Table(g) /\ k \in DOMAIN g
         /\ g[k] = IF k \in DOMAIN f THEN Append(f[k], now) ELSE <<now>>
         /\ \A h \in DOMAIN g \ {k} : h \in DOMAIN f /\ g[h] = f[h]
         /\ \/ DOMAIN g = DOMAIN f \cup {k}
            \/ /\ k \notin DOMAIN f /\ Cardinality(DOMAIN g) = MaxBuckets
               /\ \E o \in DOMAIN f :
                    /\ DOMAIN g = (DOMAIN f \ {o}) \cup {k}
                    /\ \A h \in DOMAIN f : f[o][1] <= f[h][1]
<1>1. /\ IsFiniteSet(DOMAIN f) /\ DOMAIN f \subseteq Keys
      /\ Cardinality(DOMAIN f) \in Nat /\ MaxBuckets \in Nat \ {0}
      /\ Cardinality(DOMAIN f) <= MaxBuckets
  BY FS_CardinalityType, LimitAssumption DEF Table
<1>2. <<now>> \in Seq(1..now) \ {<<>>}
  BY DEF Clock
<1>3. ASSUME NEW e, DOMAIN e \subseteq DOMAIN f, k \in DOMAIN f => k \in DOMAIN e,
             \A h \in DOMAIN e : e[h] = f[h], g = Push(e, k)
      PROVE  /\ DOMAIN g = DOMAIN e \cup {k}
             /\ g[k] = IF k \in DOMAIN f THEN Append(f[k], now) ELSE <<now>>
             /\ \A h \in DOMAIN g \ {k} : h \in DOMAIN f /\ g[h] = f[h]
             /\ \A h \in DOMAIN g : g[h] \in Seq(1..now) \ {<<>>}
  <2>1. /\ DOMAIN g = DOMAIN e \cup {k}
        /\ \A h \in DOMAIN g \ {k} : g[h] = e[h]
        /\ g[k] = Append(IF k \in DOMAIN e THEN e[k] ELSE <<>>, now)
    BY <1>3 DEF Push
  <2>2. Append(<<>>, now) = <<now>>
    OBVIOUS
  <2>3. g[k] = IF k \in DOMAIN f THEN Append(f[k], now) ELSE <<now>>
    BY <1>3, <2>1, <2>2
  <2>4. g[k] \in Seq(1..now) \ {<<>>}
    BY <1>2, <2>3, Heads DEF Table
  <2>5. \A h \in DOMAIN g \ {k} : h \in DOMAIN f /\ g[h] = f[h]
    BY <1>3, <2>1
  <2>6. \A h \in DOMAIN g \ {k} : g[h] \in Seq(1..now) \ {<<>>}
    BY <2>5 DEF Table
  <2> QED
    BY <2>1, <2>3, <2>4, <2>5, <2>6
<1>4. CASE k \notin DOMAIN f /\ Cardinality(DOMAIN f) >= MaxBuckets
  <2>1. PICK o \in Oldest(f) : g = Push(Restricted(f, DOMAIN f \ {o}), k)
    BY <1>4 DEF RecordOne
  <2> DEFINE e == Restricted(f, DOMAIN f \ {o})
  <2>2. DOMAIN e = DOMAIN f \ {o} /\ \A h \in DOMAIN e : e[h] = f[h]
    BY DEF Restricted
  <2>3. o \in DOMAIN f /\ \A h \in DOMAIN f : f[o][1] <= f[h][1]
    BY DEF Oldest
  <2>4. g = Push(e, k)
    BY <2>1
  <2> HIDE DEF e
  <2>5. /\ DOMAIN g = (DOMAIN f \ {o}) \cup {k}
        /\ g[k] = IF k \in DOMAIN f THEN Append(f[k], now) ELSE <<now>>
        /\ \A h \in DOMAIN g \ {k} : h \in DOMAIN f /\ g[h] = f[h]
        /\ \A h \in DOMAIN g : g[h] \in Seq(1..now) \ {<<>>}
    BY <1>3, <1>4, <2>2, <2>4
  <2>6. /\ IsFiniteSet(DOMAIN f \ {o})
        /\ Cardinality(DOMAIN f \ {o}) = Cardinality(DOMAIN f) - 1
    BY <1>1, <2>3, FS_RemoveElement
  <2>7. /\ IsFiniteSet(DOMAIN g)
        /\ Cardinality(DOMAIN g) = Cardinality(DOMAIN f \ {o}) + 1
    <3> DEFINE rest == DOMAIN f \ {o}
    <3>1. IsFiniteSet(rest) /\ k \notin rest /\ DOMAIN g = rest \cup {k}
      BY <1>4, <2>5, <2>6
    <3> HIDE DEF rest
    <3>2. /\ IsFiniteSet(rest \cup {k})
          /\ Cardinality(rest \cup {k}) = Cardinality(rest) + 1
      BY <3>1, FS_AddElement
    <3> QED
      BY <3>1, <3>2 DEF rest
  <2>8. Cardinality(DOMAIN g) = MaxBuckets
    BY <1>1, <1>4, <2>6, <2>7
  <2>9. Table(g)
    BY <1>1, <2>5, <2>7, <2>8 DEF Table
  <2> QED
    BY <1>4, <2>3, <2>5, <2>8, <2>9
<1>5. CASE ~(k \notin DOMAIN f /\ Cardinality(DOMAIN f) >= MaxBuckets)
  <2>1. g = Push(f, k)
    BY <1>5 DEF RecordOne
  <2>2. /\ DOMAIN g = DOMAIN f \cup {k}
        /\ g[k] = IF k \in DOMAIN f THEN Append(f[k], now) ELSE <<now>>
        /\ \A h \in DOMAIN g \ {k} : h \in DOMAIN f /\ g[h] = f[h]
        /\ \A h \in DOMAIN g : g[h] \in Seq(1..now) \ {<<>>}
    BY <1>3, <2>1
  <2>3. /\ IsFiniteSet(DOMAIN g)
        /\ Cardinality(DOMAIN g) = IF k \in DOMAIN f THEN Cardinality(DOMAIN f)
                                   ELSE Cardinality(DOMAIN f) + 1
    BY <1>1, <2>2, FS_AddElement
  <2>4. Table(g)
    BY <1>1, <1>5, <2>2, <2>3 DEF Table
  <2> QED
    BY <2>2, <2>4
<1> QED
  BY <1>4, <1>5

\* What becomes of table f when the keys of S are recorded, g being the outcome.
Recorded(f, g, S) ==
  /\ Table(g)
  /\ \A h \in DOMAIN g :
       \/ h \notin S /\ h \in DOMAIN f /\ g[h] = f[h]
       \/ h \in S /\ g[h] = <<now>>
       \/ h \in S /\ h \in DOMAIN f /\ g[h] = Append(f[h], now)
  /\ \A h \in DOMAIN f \ DOMAIN g :
       /\ Cardinality(DOMAIN g) = MaxBuckets
       /\ \A stays \in DOMAIN g : f[h][1] <= g[stays][1]

LEMMA RecordedFirsts ==
  ASSUME Clock, NEW f, Table(f), NEW S, NEW g, Recorded(f, g, S)
  PROVE  \A h \in DOMAIN f \cap DOMAIN g : f[h][1] <= g[h][1]
<1> SUFFICES ASSUME NEW h \in DOMAIN f \cap DOMAIN g
             PROVE  f[h][1] <= g[h][1]
  OBVIOUS
<1>1. f[h] \in Seq(1..now) \ {<<>>} /\ f[h][1] \in 1..now
  BY Heads DEF Table
<1>2. Append(f[h], now)[1] = f[h][1] /\ <<now>>[1] = now
  BY <1>1, Heads
<1>3. f[h][1] <= now /\ f[h][1] <= f[h][1]
  BY <1>1 DEF Clock
<1> QED
  BY <1>2, <1>3 DEF Recorded

LEMMA RecordStep ==
  ASSUME Clock, NEW f, Table(f), NEW S, NEW g, Recorded(f, g, S),
         NEW k \in Keys, k \notin S, NEW e \in RecordOne(g, k)
  PROVE  Recorded(f, e, S \cup {k})
<1>1. Table(g)
  BY DEF Recorded
<1>2. /\ Table(e) /\ k \in DOMAIN e
      /\ e[k] = IF k \in DOMAIN g THEN Append(g[k], now) ELSE <<now>>
      /\ \A h \in DOMAIN e \ {k} : h \in DOMAIN g /\ e[h] = g[h]
      /\ \/ DOMAIN e = DOMAIN g \cup {k}
         \/ /\ k \notin DOMAIN g /\ Cardinality(DOMAIN e) = MaxBuckets
            /\ \E o \in DOMAIN g :
                 /\ DOMAIN e = (DOMAIN g \ {o}) \cup {k}
                 /\ \A h \in DOMAIN g : g[o][1] <= g[h][1]
  BY <1>1, RecordOneFacts
<1>3. ASSUME NEW h \in DOMAIN e
      PROVE  \/ h \notin S \cup {k} /\ h \in DOMAIN f /\ e[h] = f[h]
             \/ h \in S \cup {k} /\ e[h] = <<now>>
             \/ h \in S \cup {k} /\ h \in DOMAIN f /\ e[h] = Append(f[h], now)
  <2>1. CASE h = k
    <3>1. k \in DOMAIN g => k \in DOMAIN f /\ g[k] = f[k]
      BY DEF Recorded
    <3> QED
      BY <1>2, <2>1, <3>1
  <2>2. CASE h # k
    BY <1>2, <2>2 DEF Recorded
  <2> QED
    BY <2>1, <2>2
<1>4. ASSUME NEW h \in DOMAIN f \ DOMAIN e
      PROVE  /\ Cardinality(DOMAIN e) = MaxBuckets
             /\ \A stays \in DOMAIN e : f[h][1] <= e[stays][1]
  <2>1. /\ f[h][1] \in 1..now /\ \A x \in DOMAIN g : g[x][1] \in 1..now
        /\ \A x \in DOMAIN e : e[x][1] \in 1..now
    BY <1>1, <1>2, Heads DEF Table
  <2>2. f[h][1] <= now /\ <<now>>[1] = now
    BY <2>1 DEF Clock
  <2>3. ASSUME DOMAIN e = DOMAIN g \cup {k}
        PROVE  k \in DOMAIN g
    <3>1. /\ IsFiniteSet(DOMAIN g) /\ Cardinality(DOMAIN g) = MaxBuckets
          /\ MaxBuckets \in Nat
      BY <1>1, <1>4, <2>3, LimitAssumption DEF Recorded, Table
    <3>2. k \notin DOMAIN g => Cardinality(DOMAIN e) = MaxBuckets + 1
      BY <2>3, <3>1, FS_AddElement
    <3>3. Cardinality(DOMAIN e) <= MaxBuckets
      BY <1>2 DEF Table
    <3> QED
      BY <3>1, <3>2, <3>3
  <2>4. Cardinality(DOMAIN e) = MaxBuckets
    <3>1. CASE DOMAIN e = DOMAIN g \cup {k}
      <4>1. DOMAIN e = DOMAIN g
        BY <2>3, <3>1
      <4> QED
        BY <1>4, <4>1 DEF Recorded
    <3> QED
      BY <1>2, <3>1
  <2>5. \A x \in DOMAIN g : f[h][1] <= g[x][1]
    <3>1. CASE h \notin DOMAIN g
      BY <1>4, <3>1 DEF Recorded
    <3>2. CASE h \in DOMAIN g
      <4>1. \A x \in DOMAIN g : g[h][1] <= g[x][1]
        BY <1>2, <1>4, <3>2
      <4>2. f[h][1] <= g[h][1]
        BY <1>4, <3>2, RecordedFirsts
      <4> QED
        BY <2>1, <3>2, <4>1, <4>2
    <3> QED
      BY <3>1, <3>2
  <2>6. ASSUME NEW x \in DOMAIN e
        PROVE  f[h][1] <= e[x][1]
    <3>1. CASE x \in DOMAIN g /\ e[x] = g[x]
      BY <2>5, <3>1
    <3>2. CASE x = k /\ k \in DOMAIN g
      <4>1. e[x][1] = g[x][1]
        BY <1>1, <1>2, <3>2, Heads DEF Table
      <4> QED
        BY <2>5, <3>2, <4>1
    <3>3. CASE x = k /\ k \notin DOMAIN g
      BY <1>2, <2>2, <3>3
    <3> QED
      BY <1>2, <3>1, <3>2, <3>3
  <2> QED
    BY <2>4, <2>6
<1> QED
  BY <1>2, <1>3, <1>4 DEF Recorded

\* record_rate_event.
LEMMA RecordAllFacts ==
  ASSUME Clock, NEW f, Table(f), NEW a \in Attempts, NEW g \in RecordAll(f, KeysOf(a))
  PROVE  Recorded(f, g, KeySet(a))
<1> DEFINE ks == KeysOf(a)
<1>1. /\ Len(ks) \in {2, 3} /\ \A i \in 1..Len(ks) : ks[i] \in Keys
      /\ \A i, j \in 1..Len(ks) : ks[i] = ks[j] => i = j
      /\ KeySet(a) = {ks[i] : i \in 1..Len(ks)}
  BY KeyFacts
<1> HIDE DEF ks
<1>2. /\ ks[1] \in Keys /\ ks[2] \in Keys /\ ks[1] # ks[2]
      /\ Len(ks) = 3 => ks[3] \in Keys /\ ks[3] \notin {ks[1], ks[2]}
      /\ KeySet(a) = IF Len(ks) = 2 THEN {ks[1], ks[2]} ELSE {ks[1], ks[2], ks[3]}
  <2>1. CASE Len(ks) = 2
    <3>1. 1..Len(ks) = {1, 2}
      BY <2>1
    <3> QED
      BY <1>1, <2>1, <3>1
  <2>2. CASE Len(ks) = 3
    <3>1. 1..Len(ks) = {1, 2, 3}
      BY <2>2
    <3> QED
      BY <1>1, <2>2, <3>1
  <2> QED
    BY <1>1, <2>1, <2>2
<1>3. Recorded(f, f, {})
  BY DEF Recorded
<1>4. \A e \in RecordOne(f, ks[1]) : Recorded(f, e, {ks[1]})
  BY <1>2, <1>3, RecordStep
<1>5. \A e \in RecordEach(RecordOne(f, ks[1]), ks[2]) : Recorded(f, e, {ks[1], ks[2]})
  <2> SUFFICES ASSUME NEW d \in RecordOne(f, ks[1]), NEW e \in RecordOne(d, ks[2])
               PROVE  Recorded(f, e, {ks[1], ks[2]})
    BY DEF RecordEach
  <2>1. Recorded(f, e, {ks[1]} \cup {ks[2]})
    BY <1>2, <1>4, RecordStep
  <2> QED
    BY <2>1
<1>6. CASE Len(ks) = 2
  BY <1>2, <1>5, <1>6 DEF RecordAll, ks
<1>7. CASE Len(ks) = 3
  <2>1. g \in RecordEach(RecordEach(RecordOne(f, ks[1]), ks[2]), ks[3])
    BY <1>7 DEF RecordAll, ks
  <2>2. PICK d \in RecordEach(RecordOne(f, ks[1]), ks[2]) : g \in RecordOne(d, ks[3])
    BY <2>1 DEF RecordEach
  <2>3. Recorded(f, g, {ks[1], ks[2]} \cup {ks[3]})
    BY <1>2, <1>5, <1>7, <2>2, RecordStep
  <2> QED
    BY <1>2, <1>7, <2>3
<1> QED
  BY <1>1, <1>6, <1>7

-----------------------------------------------------------------------------
(* The inductive invariant *)

\* The bucket of k, empty when it has none.
Bucket(k) == IF k \in DOMAIN failed THEN failed[k] ELSE <<>>

\* A bucket is the history of its key, in order, without a part that has left the
\* window.
HistoryOK(k) ==
  /\ \A i, j \in 1..Len(recorded[k]) : i <= j => recorded[k][i] <= recorded[k][j]
  /\ \E d \in 0..Len(recorded[k]) :
       /\ Suffix(Bucket(k), recorded[k], d)
       /\ \A j \in 1..d : recorded[k][j] <= Cutoff(now)

LimiterInv ==
  /\ LimiterTypeOK /\ IsFiniteSet(DOMAIN failed)
  /\ \A t \in Tasks : stage[t] = "passed" => job[t] \in Attempts
  /\ \A k \in Keys : HistoryOK(k)

\* Those who have passed the check of k and may still record.
Passed(k) == {t \in Tasks : stage[t] = "passed" /\ k \in KeySet(job[t])}

BucketsOK ==
  \A k \in DOMAIN failed :
    Len(failed[k]) + Cardinality(Passed(k)) <= LimitOf(k) - 1 + Cardinality(Tasks)

LEMMA TypeParts ==
  LimiterTypeOK /\ IsFiniteSet(DOMAIN failed) <=>
    /\ Clock /\ Table(failed) /\ BucketsOK
    /\ stage \in [Tasks -> {"idle", "passed"}]
    /\ job \in [Tasks -> Attempts \cup {NoAttempt}]
    /\ recorded \in [Keys -> Seq(1..now)]
BY DEF LimiterTypeOK, Clock, Table, BucketsOK, Passed

LEMMA CutoffFacts ==
  ASSUME Clock
  PROVE  /\ now \in 1..now /\ Cutoff(now) \in Nat
         /\ \A at \in 1..now : /\ Cutoff(at) \in Nat /\ Cutoff(at) <= Cutoff(now)
                               /\ \A x \in 1..now : x > Cutoff(at) <=> at - x < Window
         /\ now' \in Nat /\ now <= now' => Cutoff(now') \in Nat /\ Cutoff(now) <= Cutoff(now')
BY LimitAssumption DEF Clock, Cutoff

LEMMA PassedCount ==
  ASSUME NEW k
  PROVE  /\ IsFiniteSet(Passed(k)) /\ Cardinality(Passed(k)) \in Nat
         /\ Cardinality(Passed(k)) <= Cardinality(Tasks) /\ Cardinality(Tasks) \in Nat
BY LimitAssumption, FS_Subset, FS_CardinalityType DEF Passed

LEMMA ElementOf ==
  ASSUME NEW T, NEW s \in Seq(T), NEW i \in 1..Len(s)
  PROVE  s[i] \in T
OBVIOUS

LEMMA AppendFacts ==
  ASSUME NEW T, NEW s \in Seq(T), NEW x \in T, NEW r, r = Append(s, x)
  PROVE  /\ r \in Seq(T) /\ Len(s) \in Nat /\ Len(r) = Len(s) + 1
         /\ r[Len(s) + 1] = x /\ \A i \in 1..Len(s) : r[i] = s[i]
OBVIOUS

LEMMA SuffixOfSuffix ==
  ASSUME NEW a, NEW b, NEW c, NEW d, NEW e, Len(b) \in Nat, Len(c) \in Nat,
         Suffix(b, a, d), Suffix(c, b, e), Len(a) \in Nat
  PROVE  Suffix(c, a, d + e)
BY DEF Suffix

\* The history of a key stays in order when its bucket loses what left the window.
LEMMA HistoryKept ==
  ASSUME LimiterInv, NEW k \in Keys, now' \in Nat, now <= now',
         recorded'[k] = recorded[k],
         NEW e, Suffix(Bucket(k)', Bucket(k), e),
         \A j \in 1..e : Bucket(k)[j] <= Cutoff(now')
  PROVE  HistoryOK(k)'
<1>1. Clock /\ recorded[k] \in Seq(1..now) /\ HistoryOK(k)
  BY TypeParts DEF LimiterInv
<1>2. PICK d \in 0..Len(recorded[k]) :
        Suffix(Bucket(k), recorded[k], d) /\ \A j \in 1..d : recorded[k][j] <= Cutoff(now)
  BY <1>1 DEF HistoryOK
<1>3. /\ Len(recorded[k]) \in Nat /\ d \in Nat /\ e \in Nat
      /\ Len(Bucket(k)) = Len(recorded[k]) - d /\ Len(Bucket(k)) \in Nat
      /\ Len(Bucket(k)') = Len(Bucket(k)) - e /\ Len(Bucket(k)') \in Nat
  BY <1>1, <1>2 DEF Suffix
<1>4. Suffix(Bucket(k)', recorded[k], d + e)
  BY <1>2, <1>3, SuffixOfSuffix
<1>5. Cutoff(now) \in Nat /\ Cutoff(now') \in Nat /\ Cutoff(now) <= Cutoff(now')
  BY <1>1, CutoffFacts
<1>6. ASSUME NEW j \in 1..(d + e)
      PROVE  recorded[k][j] <= Cutoff(now')
  <2>1. CASE j <= d
    <3>1. j \in 1..d /\ j \in 1..Len(recorded[k])
      BY <1>3, <2>1
    <3>2. recorded[k][j] <= Cutoff(now)
      BY <1>2, <3>1
    <3>3. recorded[k][j] \in 1..now
      <4>1. recorded[k] \in Seq(1..now)
        BY <1>1
      <4> QED
        BY <3>1, <4>1, ElementOf
    <3> QED
      BY <1>1, <1>5, <3>2, <3>3 DEF Clock
  <2>2. CASE ~(j <= d)
    <3>1. j - d \in 1..e /\ j - d \in 1..Len(Bucket(k)) /\ d + (j - d) = j
      BY <1>3, <2>2
    <3>2. Bucket(k)[j - d] = recorded[k][d + (j - d)]
      BY <1>2, <3>1 DEF Suffix
    <3> QED
      BY <3>1, <3>2
  <2> QED
    BY <2>1, <2>2
<1>7. d + e \in 0..Len(recorded[k])
  BY <1>3
<1>8. \A i, j \in 1..Len(recorded[k]) : i <= j => recorded[k][i] <= recorded[k][j]
  BY <1>1 DEF HistoryOK
<1> QED
  BY <1>4, <1>6, <1>7, <1>8 DEF HistoryOK

\* Nothing is dropped from a bucket.
LEMMA HistoryUntouched ==
  ASSUME LimiterInv, NEW k \in Keys, now' \in Nat, now <= now',
         recorded'[k] = recorded[k], Bucket(k)' = Bucket(k)
  PROVE  HistoryOK(k)'
<1>1. Len(Bucket(k)) \in Nat
  <2>1. recorded[k] \in Seq(1..now) /\ HistoryOK(k)
    BY TypeParts DEF LimiterInv
  <2> QED
    BY <2>1 DEF HistoryOK, Suffix
<1>2. Suffix(Bucket(k)', Bucket(k), 0)
  BY <1>1 DEF Suffix
<1>3. \A j \in 1..0 : Bucket(k)[j] <= Cutoff(now')
  OBVIOUS
<1> QED
  BY <1>2, <1>3, HistoryKept

-----------------------------------------------------------------------------
(* Steps *)

LEMMA InWindowFacts ==
  ASSUME Clock, NEW times \in Seq(1..now), NEW at \in 1..now
  PROVE  /\ InWindow(times, at) \in Seq(1..now)
         /\ \E d \in 0..Len(times) :
              /\ Suffix(InWindow(times, at), times, d)
              /\ \A j \in 1..d : times[j] <= Cutoff(at)
              /\ d < Len(times) => times[d + 1] > Cutoff(at)
<1>1. 1..now \in SUBSET Int /\ Cutoff(at) \in Int
  BY CutoffFacts DEF Clock
<1> QED
  BY <1>1, PopFrontFacts DEF InWindow

\* rate_limited and the sweep drop only what has left the window.
LEMMA PruningSafe ==
  ASSUME LimiterInv, NEW ks, NEW at \in 1..now, failed' = Pruned(ks, at),
         UNCHANGED <<now, recorded>>
  PROVE  /\ Clock' /\ Table(failed)' /\ recorded' \in [Keys -> Seq(1..now')]
         /\ \A k \in DOMAIN failed' :
              /\ k \in DOMAIN failed /\ Len(failed'[k]) <= Len(failed[k])
              /\ k \in ks => failed'[k] = InWindow(failed[k], at)
         /\ \A k \in DOMAIN failed \ DOMAIN failed' : InWindow(failed[k], at) = <<>>
         /\ \A k \in Keys : HistoryOK(k)'
<1>1. /\ Clock /\ Table(failed) /\ recorded \in [Keys -> Seq(1..now)]
      /\ \A k \in DOMAIN failed : failed[k] \in Seq(1..now) \ {<<>>}
      /\ DOMAIN failed \subseteq Keys
  BY TypeParts DEF LimiterInv, Table
<1> DEFINE left(k) == IF k \in ks THEN InWindow(failed[k], at) ELSE failed[k]
<1>2. /\ DOMAIN failed' = {k \in DOMAIN failed : left(k) # <<>>}
      /\ \A k \in DOMAIN failed' : failed'[k] = left(k)
  BY DEF Pruned, Restricted
<1>3. ASSUME NEW k \in DOMAIN failed
      PROVE  /\ left(k) \in Seq(1..now)
             /\ \E e \in 0..Len(failed[k]) :
                  /\ Suffix(left(k), failed[k], e)
                  /\ \A j \in 1..e : failed[k][j] <= Cutoff(now)
  <2>1. failed[k] \in Seq(1..now) /\ Len(failed[k]) \in Nat
    BY <1>1
  <2>2. CASE k \in ks
    <3>1. PICK e \in 0..Len(failed[k]) :
            /\ left(k) \in Seq(1..now) /\ Suffix(left(k), failed[k], e)
            /\ \A j \in 1..e : failed[k][j] <= Cutoff(at)
      BY <1>1, <2>1, <2>2, InWindowFacts
    <3>2. ASSUME NEW j \in 1..e
          PROVE  failed[k][j] \in 1..now
      <4>1. j \in 1..Len(failed[k]) /\ failed[k] \in Seq(1..now)
        BY <2>1, <3>1
      <4> QED
        BY <4>1, ElementOf
    <3>3. Cutoff(at) \in Nat /\ Cutoff(now) \in Nat /\ Cutoff(at) <= Cutoff(now)
      BY <1>1, CutoffFacts
    <3>4. \A j \in 1..e : failed[k][j] <= Cutoff(now)
      BY <1>1, <3>1, <3>2, <3>3 DEF Clock
    <3> QED
      BY <3>1, <3>4
  <2>3. CASE k \notin ks
    <3>1. Suffix(left(k), failed[k], 0) /\ 0 \in 0..Len(failed[k])
      BY <2>1, <2>3 DEF Suffix
    <3> QED
      BY <2>1, <2>3, <3>1
  <2> QED
    BY <2>2, <2>3
<1> HIDE DEF left
<1>4. /\ Table(failed)' /\ Clock'
  <2>1. IsFiniteSet(DOMAIN failed') /\ Cardinality(DOMAIN failed') <= MaxBuckets
    <3>1. DOMAIN failed' \subseteq DOMAIN failed
      BY <1>2
    <3>2. /\ IsFiniteSet(DOMAIN failed) /\ Cardinality(DOMAIN failed) <= MaxBuckets
          /\ MaxBuckets \in Nat
      BY <1>1, LimitAssumption DEF Table
    <3>3. /\ IsFiniteSet(DOMAIN failed')
          /\ Cardinality(DOMAIN failed') <= Cardinality(DOMAIN failed)
          /\ Cardinality(DOMAIN failed') \in Nat /\ Cardinality(DOMAIN failed) \in Nat
      BY <3>1, <3>2, FS_Subset, FS_CardinalityType
    <3> QED
      BY <3>2, <3>3
  <2>2. \A k \in DOMAIN failed' : failed'[k] \in Seq(1..now') \ {<<>>}
    BY <1>2, <1>3
  <2>3. DOMAIN failed' \subseteq Keys
    BY <1>1, <1>2
  <2> QED
    BY <1>1, <2>1, <2>2, <2>3 DEF Table, Clock
<1>5. ASSUME NEW k \in DOMAIN failed'
      PROVE  /\ k \in DOMAIN failed /\ Len(failed'[k]) <= Len(failed[k])
             /\ k \in ks => failed'[k] = InWindow(failed[k], at)
  <2>1. k \in DOMAIN failed /\ failed'[k] = left(k) /\ Len(failed[k]) \in Nat
    BY <1>1, <1>2
  <2>2. Len(left(k)) <= Len(failed[k])
    BY <1>3, <2>1 DEF Suffix
  <2> QED
    BY <2>1, <2>2 DEF left
<1>6. \A k \in DOMAIN failed \ DOMAIN failed' : InWindow(failed[k], at) = <<>>
  BY <1>1, <1>2 DEF left
<1>7. ASSUME NEW k \in Keys
      PROVE  HistoryOK(k)'
  <2>1. now \in Nat /\ now' = now /\ recorded' = recorded /\ Cutoff(now') = Cutoff(now)
    BY <1>1 DEF Clock, Cutoff
  <2>2. CASE k \notin DOMAIN failed
    <3>1. Bucket(k)' = Bucket(k)
      BY <1>2, <2>2 DEF Bucket
    <3> QED
      BY <2>1, <3>1, HistoryUntouched
  <2>3. CASE k \in DOMAIN failed
    <3>1. Bucket(k)' = left(k) /\ Bucket(k) = failed[k]
      BY <1>2, <2>3 DEF Bucket
    <3>2. PICK e \in 0..Len(failed[k]) :
            /\ Suffix(left(k), failed[k], e)
            /\ \A j \in 1..e : failed[k][j] <= Cutoff(now)
      BY <1>3, <2>3
    <3>3. Suffix(Bucket(k)', Bucket(k), e) /\ \A j \in 1..e : Bucket(k)[j] <= Cutoff(now')
      BY <2>1, <3>1, <3>2
    <3> QED
      BY <2>1, <3>3, HistoryKept
  <2> QED
    BY <2>2, <2>3
<1> QED
  BY <1>1, <1>4, <1>5, <1>6, <1>7

\* A bucket that does not grow, and whose key nobody else passes.
LEMMA BucketShrinks ==
  ASSUME LimiterInv, NEW k \in DOMAIN failed, Passed(k)' \subseteq Passed(k),
         Len(failed'[k]) \in Nat, Len(failed'[k]) <= Len(failed[k])
  PROVE  Len(failed'[k]) + Cardinality(Passed(k)') <= LimitOf(k) - 1 + Cardinality(Tasks)
<1>1. /\ Len(failed[k]) + Cardinality(Passed(k)) <= LimitOf(k) - 1 + Cardinality(Tasks)
      /\ k \in Keys /\ Len(failed[k]) \in Nat
  BY TypeParts DEF LimiterInv, BucketsOK, Table
<1>2. /\ IsFiniteSet(Passed(k)) /\ Cardinality(Passed(k)) \in Nat
      /\ Cardinality(Tasks) \in Nat /\ LimitOf(k) \in Nat
  BY <1>1, PassedCount, LimitType
<1>3. /\ Cardinality(Passed(k)') \in Nat
      /\ Cardinality(Passed(k)') <= Cardinality(Passed(k))
  BY <1>2, FS_Subset, FS_CardinalityType
<1> QED
  BY <1>1, <1>2, <1>3

\* No bucket grows and nobody else passes.
LEMMA BucketsShrink ==
  ASSUME LimiterInv,
         \A t \in Tasks : stage'[t] = "passed" => stage[t] = "passed" /\ job'[t] = job[t],
         \A k \in DOMAIN failed' :
           k \in DOMAIN failed /\ Len(failed'[k]) \in Nat /\ Len(failed'[k]) <= Len(failed[k])
  PROVE  BucketsOK'
<1>1. \A k : Passed(k)' \subseteq Passed(k)
  BY DEF Passed
<1> QED
  BY <1>1, BucketShrinks DEF BucketsOK

LEMMA NextInv ==
  ASSUME Clock', Table(failed)', BucketsOK', stage' \in [Tasks -> {"idle", "passed"}],
         job' \in [Tasks -> Attempts \cup {NoAttempt}],
         recorded' \in [Keys -> Seq(1..now')],
         \A t \in Tasks : stage'[t] = "passed" => job'[t] \in Attempts,
         \A k \in Keys : HistoryOK(k)'
  PROVE  LimiterInv'
BY DEF LimiterInv, LimiterTypeOK, Clock, Table, BucketsOK, Passed

LEMMA InvParts ==
  ASSUME LimiterInv
  PROVE  /\ Clock /\ Table(failed) /\ BucketsOK
         /\ stage \in [Tasks -> {"idle", "passed"}]
         /\ job \in [Tasks -> Attempts \cup {NoAttempt}]
         /\ recorded \in [Keys -> Seq(1..now)]
         /\ \A t \in Tasks : stage[t] = "passed" => job[t] \in Attempts
         /\ \A k \in Keys : HistoryOK(k)
         /\ \A k \in DOMAIN failed : failed[k] \in Seq(1..now) /\ Len(failed[k]) \in Nat \ {0}
BY TypeParts DEF LimiterInv, Table

LEMMA InitLimiter == LimiterInit => LimiterInv
<1> SUFFICES ASSUME LimiterInit PROVE LimiterInv
  OBVIOUS
<1>1. DOMAIN failed = {} /\ Cardinality({}) = 0 /\ IsFiniteSet({})
  BY FS_EmptySet DEF LimiterInit
<1>2. Clock /\ Table(failed) /\ BucketsOK
  BY <1>1, LimitAssumption DEF LimiterInit, Clock, Table, BucketsOK
<1>3. ASSUME NEW k \in Keys
      PROVE  HistoryOK(k)
  <2>1. recorded[k] = <<>> /\ Bucket(k) = <<>>
    BY <1>1 DEF LimiterInit, Bucket
  <2>2. Suffix(Bucket(k), recorded[k], 0) /\ 0 \in 0..Len(recorded[k])
    BY <2>1 DEF Suffix
  <2> QED
    BY <2>1, <2>2 DEF HistoryOK
<1> QED
  BY <1>2, <1>3, TypeParts DEF LimiterInv, LimiterInit

LEMMA LaterTimes ==
  ASSUME NEW m \in Nat, NEW n \in Nat, m <= n, NEW s \in Seq(1..m)
  PROVE  s \in Seq(1..n)
OBVIOUS

LEMMA TickStep == LimiterInv /\ Tick => LimiterInv'
<1> SUFFICES ASSUME LimiterInv, Tick PROVE LimiterInv'
  OBVIOUS
<1>1. /\ now \in Nat /\ now' \in Nat /\ now <= now' /\ Clock'
      /\ UNCHANGED <<failed, stage, job, recorded>>
  BY InvParts DEF Tick, Clock
<1>2. Table(failed)'
  <2>1. \A k \in DOMAIN failed : failed[k] \in Seq(1..now') \ {<<>>}
    BY <1>1, InvParts, LaterTimes DEF Table
  <2> QED
    BY <1>1, <2>1, InvParts DEF Table
<1>3. recorded' \in [Keys -> Seq(1..now')]
  <2>1. \A k \in Keys : recorded[k] \in Seq(1..now')
    BY <1>1, InvParts, LaterTimes
  <2> QED
    BY <1>1, <2>1, InvParts
<1>4. BucketsOK'
  BY <1>1, InvParts, BucketsShrink
<1>5. \A k \in Keys : HistoryOK(k)'
  <2>1. \A k : Bucket(k)' = Bucket(k)
    BY <1>1 DEF Bucket
  <2> QED
    BY <1>1, <2>1, HistoryUntouched
<1> QED
  BY <1>1, <1>2, <1>3, <1>4, <1>5, InvParts, NextInv

\* Reject and Sweep.
LEMMA PruneStep ==
  ASSUME LimiterInv, NEW ks, NEW at \in 1..now, failed' = Pruned(ks, at),
         UNCHANGED <<now, stage, job, recorded>>
  PROVE  LimiterInv'
<1>1. /\ Clock' /\ Table(failed)' /\ recorded' \in [Keys -> Seq(1..now')]
      /\ \A k \in DOMAIN failed' :
           k \in DOMAIN failed /\ Len(failed'[k]) <= Len(failed[k])
      /\ \A k \in Keys : HistoryOK(k)'
  BY PruningSafe
<1>2. \A k \in DOMAIN failed' : Len(failed'[k]) \in Nat
  BY <1>1 DEF Table
<1>3. BucketsOK'
  BY <1>1, <1>2, BucketsShrink
<1> QED
  BY <1>1, <1>3, InvParts, NextInv

\* Whoever has passed has found room in each of its buckets.
LEMMA PassStep ==
  ASSUME LimiterInv, NEW t \in Tasks, NEW a \in Attempts, NEW at \in 1..now,
         Pass(t, a, at)
  PROVE  LimiterInv'
<1>1. Looked(a, at) = KeySet(a) /\ \A k \in KeySet(a) : ~Limited(k, at)
  <2>1. \A k \in KeySet(a) : ~Limited(k, at)
    BY DEF Pass, Rejected
  <2> DEFINE ks == KeysOf(a)
  <2>2. \A i \in DOMAIN ks : ks[i] \in KeySet(a)
    BY DEF KeySet
  <2>3. DOMAIN ks = 1..Len(ks) /\ Len(ks) \in Nat
    <3>1. CASE a.use = "login"
      <4>1. ks = << <<"login", "source", a.source>>, <<"login", "user", a.user>>,
                    <<"login", "global", None>> >>
        BY <3>1 DEF KeysOf
      <4> QED
        BY <4>1
    <3>2. CASE a.use # "login"
      <4>1. ks = << <<"dcr", "source", a.source>>, <<"dcr", "global", None>> >>
        BY <3>2 DEF KeysOf
      <4> QED
        BY <4>1
    <3> QED
      BY <3>1, <3>2
  <2> HIDE DEF ks
  <2>4. \A j \in DOMAIN ks : \A h \in 1..(j - 1) : ~Limited(ks[h], at)
    BY <2>1, <2>2, <2>3
  <2>5. {j \in DOMAIN ks : \A h \in 1..(j - 1) : ~Limited(ks[h], at)} = DOMAIN ks
    BY <2>4
  <2> QED
    BY <2>1, <2>5 DEF Looked, KeySet, ks
<1>2. /\ Clock' /\ Table(failed)' /\ recorded' \in [Keys -> Seq(1..now')]
      /\ \A k \in DOMAIN failed' :
           /\ k \in DOMAIN failed /\ Len(failed'[k]) <= Len(failed[k])
           /\ k \in KeySet(a) => failed'[k] = InWindow(failed[k], at)
      /\ \A k \in Keys : HistoryOK(k)'
  BY <1>1, PruningSafe DEF Pass
<1>3. /\ stage' = [stage EXCEPT ![t] = "passed"] /\ job' = [job EXCEPT ![t] = a]
      /\ stage \in [Tasks -> {"idle", "passed"}]
      /\ job \in [Tasks -> Attempts \cup {NoAttempt}]
  BY InvParts DEF Pass
<1>4. ASSUME NEW k \in DOMAIN failed'
      PROVE  Len(failed'[k]) + Cardinality(Passed(k)')
               <= LimitOf(k) - 1 + Cardinality(Tasks)
  <2>1. k \in DOMAIN failed /\ k \in Keys /\ Len(failed'[k]) \in Nat
    BY <1>2 DEF Table
  <2>2. CASE k \in KeySet(a)
    <3>1. Len(failed'[k]) < LimitOf(k)
      <4>1. ~(Len(InWindow(failed[k], at)) >= LimitOf(k)) /\ failed'[k] = InWindow(failed[k], at)
        BY <1>1, <1>2, <2>1, <2>2 DEF Limited
      <4> QED
        BY <2>1, <4>1, LimitType
    <3>2. Passed(k)' \subseteq Tasks
      BY DEF Passed
    <3>3. Cardinality(Passed(k)') \in Nat /\ Cardinality(Passed(k)') <= Cardinality(Tasks)
      BY <3>2, LimitAssumption, FS_Subset, FS_CardinalityType
    <3>4. Cardinality(Tasks) \in Nat
      BY LimitAssumption, FS_CardinalityType
    <3> QED
      BY <2>1, <3>1, <3>3, <3>4, LimitType
  <2>3. CASE k \notin KeySet(a)
    <3>1. Passed(k)' \subseteq Passed(k)
      BY <1>3, <2>3 DEF Passed
    <3> QED
      BY <1>2, <2>1, <3>1, BucketShrinks
  <2> QED
    BY <2>2, <2>3
<1>5. BucketsOK'
  BY <1>4 DEF BucketsOK
<1>6. /\ stage' \in [Tasks -> {"idle", "passed"}]
      /\ job' \in [Tasks -> Attempts \cup {NoAttempt}]
      /\ \A u \in Tasks : stage'[u] = "passed" => job'[u] \in Attempts
  BY <1>3, InvParts
<1> QED
  BY <1>2, <1>5, <1>6, NextInv

LEMMA HistoryEmpty ==
  ASSUME NEW k, recorded'[k] = <<>>, Bucket(k)' = <<>>
  PROVE  HistoryOK(k)'
<1>1. Suffix(Bucket(k)', recorded'[k], 0) /\ 0 \in 0..Len(recorded'[k])
  BY DEF Suffix
<1> QED
  BY <1>1 DEF HistoryOK

\* The event that is recorded now is the latest.
LEMMA HistoryGrows ==
  ASSUME LimiterInv, NEW k \in Keys, UNCHANGED now,
         recorded'[k] = Append(recorded[k], now), Bucket(k)' = Append(Bucket(k), now)
  PROVE  HistoryOK(k)'
<1>1. Clock /\ recorded[k] \in Seq(1..now) /\ HistoryOK(k)
  BY InvParts
<1> DEFINE r == recorded[k]
           b == Bucket(k)
<1>2. PICK d \in 0..Len(r) : Suffix(b, r, d) /\ \A j \in 1..d : r[j] <= Cutoff(now)
  BY <1>1 DEF HistoryOK
<1>3. /\ Len(r) \in Nat /\ d \in Nat /\ d <= Len(r) /\ Len(b) = Len(r) - d
      /\ b \in Seq(1..now)
      /\ \A i \in 1..Len(b) : b[i] = r[d + i]
  <2>1. b \in Seq(1..now)
    <3>1. \A x \in DOMAIN failed : failed[x] \in Seq(1..now)
      BY InvParts
    <3>2. <<>> \in Seq(1..now)
      OBVIOUS
    <3>3. Bucket(k) \in Seq(1..now)
      BY <3>1, <3>2 DEF Bucket
    <3> QED
      BY <3>3
  <2> QED
    BY <1>1, <1>2, <2>1 DEF Suffix
<1>4. \A i \in 1..Len(r) : r[i] \in 1..now
  BY <1>1, ElementOf
<1>5. \A i, j \in 1..Len(r) : i <= j => r[i] <= r[j]
  BY <1>1 DEF HistoryOK
<1>6. r \in Seq(1..now) /\ recorded'[k] = Append(r, now) /\ Bucket(k)' = Append(b, now)
  BY <1>1
<1>7. now \in Nat /\ Cutoff(now') = Cutoff(now)
  BY <1>1 DEF Clock, Cutoff
<1> HIDE DEF r, b
<1>8. /\ Len(recorded'[k]) = Len(r) + 1 /\ Len(Bucket(k)') = Len(b) + 1
      /\ recorded'[k][Len(r) + 1] = now /\ Bucket(k)'[Len(b) + 1] = now
      /\ \A i \in 1..Len(r) : recorded'[k][i] = r[i]
      /\ \A i \in 1..Len(b) : Bucket(k)'[i] = b[i]
  <2>1. now \in 1..now
    BY <1>1 DEF Clock
  <2> QED
    BY <1>3, <1>6, <2>1, AppendFacts
<1>9. \A i, j \in 1..Len(recorded'[k]) : i <= j => recorded'[k][i] <= recorded'[k][j]
  <2> SUFFICES ASSUME NEW i \in 1..Len(recorded'[k]), NEW j \in 1..Len(recorded'[k]), i <= j
               PROVE  recorded'[k][i] <= recorded'[k][j]
    OBVIOUS
  <2>1. CASE j \in 1..Len(r)
    <3>1. i \in 1..Len(r)
      BY <1>3, <1>8, <2>1
    <3> QED
      BY <1>5, <1>8, <2>1, <3>1
  <2>2. CASE j = Len(r) + 1 /\ i \in 1..Len(r)
    BY <1>4, <1>7, <1>8, <2>2
  <2>3. CASE j = Len(r) + 1 /\ i = Len(r) + 1
    BY <1>7, <1>8, <2>3
  <2> QED
    BY <1>3, <1>8, <2>1, <2>2, <2>3
<1>10. Suffix(Bucket(k)', recorded'[k], d)
  <2>1. \A i \in 1..Len(Bucket(k)') : Bucket(k)'[i] = recorded'[k][d + i]
    <3> SUFFICES ASSUME NEW i \in 1..Len(Bucket(k)')
                 PROVE  Bucket(k)'[i] = recorded'[k][d + i]
      OBVIOUS
    <3>1. CASE i \in 1..Len(b)
      <4>1. d + i \in 1..Len(r)
        BY <1>3, <3>1
      <4> QED
        BY <1>3, <1>8, <3>1, <4>1
    <3>2. CASE i = Len(b) + 1
      <4>1. d + i = Len(r) + 1
        BY <1>3, <3>2
      <4> QED
        BY <1>8, <3>2, <4>1
    <3> QED
      BY <1>3, <1>8, <3>1, <3>2
  <2>2. d \in 0..Len(recorded'[k]) /\ Len(Bucket(k)') = Len(recorded'[k]) - d
    BY <1>3, <1>8
  <2> QED
    BY <2>1, <2>2 DEF Suffix
<1>11. \A j \in 1..d : recorded'[k][j] <= Cutoff(now')
  BY <1>2, <1>3, <1>7, <1>8 DEF r
<1>12. d \in 0..Len(recorded'[k])
  BY <1>3, <1>8
<1> QED
  BY <1>9, <1>10, <1>11, <1>12 DEF HistoryOK

LEMMA RecordFacts ==
  ASSUME LimiterInv, NEW t \in Tasks, Record(t)
  PROVE  /\ job[t] \in Attempts /\ KeySet(job[t]) \subseteq Keys
         /\ Recorded(failed, failed', KeySet(job[t]))
         /\ t \in Tasks /\ stage[t] = "passed"
         /\ stage' = [stage EXCEPT ![t] = "idle"] /\ job' = [job EXCEPT ![t] = NoAttempt]
<1>1. job[t] \in Attempts /\ stage[t] = "passed"
  BY InvParts DEF Record
<1>2. Recorded(failed, failed', KeySet(job[t]))
  BY <1>1, InvParts, RecordAllFacts DEF Record
<1> QED
  BY <1>1, <1>2, KeyFacts DEF Record, Leave

LEMMA RecordStepInv ==
  ASSUME LimiterInv, NEW t \in Tasks, Record(t)
  PROVE  LimiterInv'
<1> DEFINE S == KeySet(job[t])
<1>1. /\ job[t] \in Attempts /\ S \subseteq Keys /\ stage[t] = "passed"
      /\ Recorded(failed, failed', S)
      /\ stage' = [stage EXCEPT ![t] = "idle"] /\ job' = [job EXCEPT ![t] = NoAttempt]
      /\ now' = now /\ Clock /\ Clock'
  BY RecordFacts, InvParts DEF Record, Clock
<1>2. recorded' = [k \in Keys |->
                    IF k \notin DOMAIN failed' THEN <<>>
                    ELSE IF k \notin S THEN recorded[k]
                    ELSE Append(IF failed'[k] = <<now>> THEN <<>>
                                ELSE recorded[k], now)]
  BY DEF Record
<1>3. Table(failed)'
  BY <1>1 DEF Recorded, Table
<1>4. \A k \in DOMAIN failed' :
        \/ k \notin S /\ k \in DOMAIN failed /\ failed'[k] = failed[k]
        \/ k \in S /\ failed'[k] = <<now>>
        \/ k \in S /\ k \in DOMAIN failed /\ failed'[k] = Append(failed[k], now)
  BY <1>1 DEF Recorded
<1>5. /\ stage \in [Tasks -> {"idle", "passed"}]
      /\ job \in [Tasks -> Attempts \cup {NoAttempt}]
      /\ recorded \in [Keys -> Seq(1..now)]
  BY InvParts
<1> HIDE DEF S
<1>6. ASSUME NEW k \in DOMAIN failed'
      PROVE  Len(failed'[k]) + Cardinality(Passed(k)')
               <= LimitOf(k) - 1 + Cardinality(Tasks)
  <2>1. k \in Keys /\ LimitOf(k) \in Nat \ {0} /\ Cardinality(Tasks) \in Nat
    BY <1>3, LimitType, PassedCount DEF Table
  <2>2. Passed(k)' \subseteq Passed(k) \ {t}
    BY <1>1, <1>5 DEF Passed
  <2>3. CASE k \notin S /\ k \in DOMAIN failed /\ failed'[k] = failed[k]
    <3>1. Len(failed'[k]) \in Nat /\ Len(failed'[k]) <= Len(failed[k])
      BY <2>3, InvParts
    <3> QED
      BY <2>2, <2>3, <3>1, BucketShrinks
  <2>4. CASE k \in S /\ failed'[k] = <<now>>
    <3>1. Passed(k)' \subseteq Tasks \ {t}
      BY <2>2 DEF Passed
    <3>2. /\ IsFiniteSet(Tasks \ {t})
          /\ Cardinality(Tasks \ {t}) = Cardinality(Tasks) - 1
      BY LimitAssumption, FS_RemoveElement
    <3>3. /\ Cardinality(Passed(k)') \in Nat
          /\ Cardinality(Passed(k)') <= Cardinality(Tasks) - 1
      BY <3>1, <3>2, FS_Subset, FS_CardinalityType
    <3>4. Len(failed'[k]) = 1
      BY <2>4
    <3> QED
      BY <2>1, <3>3, <3>4
  <2>5. CASE k \in S /\ k \in DOMAIN failed /\ failed'[k] = Append(failed[k], now)
    <3>1. t \in Passed(k)
      BY <1>1, <2>5 DEF Passed, S
    <3>2. /\ IsFiniteSet(Passed(k)) /\ Cardinality(Passed(k)) \in Nat
      BY PassedCount
    <3>3. /\ IsFiniteSet(Passed(k) \ {t})
          /\ Cardinality(Passed(k) \ {t}) = Cardinality(Passed(k)) - 1
      BY <3>1, <3>2, FS_RemoveElement
    <3>4. /\ Cardinality(Passed(k)') \in Nat
          /\ Cardinality(Passed(k)') <= Cardinality(Passed(k)) - 1
      BY <2>2, <3>3, FS_Subset, FS_CardinalityType
    <3>5. /\ Len(failed[k]) + Cardinality(Passed(k)) <= LimitOf(k) - 1 + Cardinality(Tasks)
          /\ Len(failed[k]) \in Nat /\ failed[k] \in Seq(1..now)
      BY <2>5, InvParts DEF BucketsOK
    <3>6. Len(failed'[k]) = Len(failed[k]) + 1
      BY <2>5, <3>5
    <3> QED
      BY <2>1, <3>2, <3>4, <3>5, <3>6
  <2> QED
    BY <1>4, <2>3, <2>4, <2>5
<1>7. BucketsOK'
  BY <1>6 DEF BucketsOK
<1>8. ASSUME NEW k \in Keys
      PROVE  recorded'[k] \in Seq(1..now') /\ HistoryOK(k)'
  <2>1. recorded[k] \in Seq(1..now) /\ now \in 1..now
    BY <1>1, <1>5 DEF Clock
  <2>2. CASE k \notin DOMAIN failed'
    <3>1. recorded'[k] = <<>>
      BY <1>2, <2>2
    <3>2. Bucket(k)' = <<>>
      BY <2>2 DEF Bucket
    <3> QED
      BY <3>1, <3>2, HistoryEmpty
  <2>3. CASE k \in DOMAIN failed' /\ k \notin S
    <3>1. recorded'[k] = recorded[k] /\ Bucket(k)' = Bucket(k)
      BY <1>2, <1>4, <2>3 DEF Bucket
    <3> QED
      BY <1>1, <2>1, <3>1, HistoryUntouched DEF Clock
  <2>4. CASE k \in DOMAIN failed' /\ k \in S /\ failed'[k] = <<now>>
    <3>1. Bucket(k)' = <<now>>
      BY <2>4 DEF Bucket
    <3>2. recorded'[k] = <<now>>
      BY <1>2, <2>4
    <3>3. Suffix(Bucket(k)', recorded'[k], 0) /\ 0 \in 0..Len(recorded'[k])
      BY <3>1, <3>2 DEF Suffix
    <3>4. \A i, j \in 1..Len(recorded'[k]) : recorded'[k][i] <= recorded'[k][j]
      BY <2>1, <3>2
    <3>5. HistoryOK(k)'
      BY <3>3, <3>4 DEF HistoryOK
    <3> QED
      BY <1>1, <2>1, <3>2, <3>5
  <2>5. CASE /\ k \in DOMAIN failed' /\ k \in S /\ failed'[k] # <<now>>
             /\ k \in DOMAIN failed /\ failed'[k] = Append(failed[k], now)
    <3>1. Bucket(k)' = Append(Bucket(k), now)
      BY <2>5 DEF Bucket
    <3>2. recorded'[k] = Append(recorded[k], now)
      BY <1>2, <2>5
    <3>3. recorded'[k] \in Seq(1..now')
      BY <1>1, <2>1, <3>2
    <3> QED
      BY <1>1, <3>1, <3>2, <3>3, HistoryGrows
  <2> QED
    BY <1>4, <2>2, <2>3, <2>4, <2>5
<1>9. recorded' \in [Keys -> Seq(1..now')]
  BY <1>2, <1>8
<1>10. /\ stage' \in [Tasks -> {"idle", "passed"}]
       /\ job' \in [Tasks -> Attempts \cup {NoAttempt}]
       /\ \A u \in Tasks : stage'[u] = "passed" => job'[u] \in Attempts
  BY <1>1, <1>5, InvParts
<1> QED
  BY <1>1, <1>3, <1>7, <1>8, <1>9, <1>10, NextInv

LEMMA LeaveFacts ==
  ASSUME LimiterInv, NEW t \in Tasks, Leave(t)
  PROVE  /\ stage' \in [Tasks -> {"idle", "passed"}]
         /\ job' \in [Tasks -> Attempts \cup {NoAttempt}]
         /\ \A u \in Tasks :
              stage'[u] = "passed" => /\ stage[u] = "passed" /\ job'[u] = job[u]
                                   /\ job'[u] \in Attempts
<1>1. /\ stage \in [Tasks -> {"idle", "passed"}]
      /\ job \in [Tasks -> Attempts \cup {NoAttempt}]
  BY InvParts
<1> QED
  BY <1>1, InvParts DEF Leave

LEMMA SucceedStep ==
  ASSUME LimiterInv, NEW t \in Tasks, Succeed(t)
  PROVE  LimiterInv'
<1>1. /\ DOMAIN failed' = DOMAIN failed \ Cleared(t)
      /\ \A k \in DOMAIN failed' : failed'[k] = failed[k]
      /\ recorded' = [k \in Keys |-> IF k \in Cleared(t) THEN <<>> ELSE recorded[k]]
      /\ Leave(t) /\ now' = now
  BY DEF Succeed, Restricted
<1>2. Clock /\ Table(failed) /\ recorded \in [Keys -> Seq(1..now)]
  BY InvParts
<1>3. Table(failed)' /\ Clock'
  <2>1. /\ IsFiniteSet(DOMAIN failed')
        /\ Cardinality(DOMAIN failed') <= Cardinality(DOMAIN failed)
        /\ Cardinality(DOMAIN failed') \in Nat /\ Cardinality(DOMAIN failed) \in Nat
    BY <1>1, <1>2, FS_Subset, FS_CardinalityType DEF Table
  <2>2. MaxBuckets \in Nat
    BY LimitAssumption
  <2>3. Cardinality(DOMAIN failed') <= MaxBuckets
    BY <1>2, <2>1, <2>2 DEF Table
  <2>4. \A k \in DOMAIN failed' : failed'[k] \in Seq(1..now') \ {<<>>}
    BY <1>1, <1>2 DEF Table
  <2> QED
    BY <1>1, <1>2, <2>1, <2>3, <2>4 DEF Table, Clock
<1>4. BucketsOK'
  BY <1>1, InvParts, LeaveFacts, BucketsShrink
<1>5. ASSUME NEW k \in Keys
      PROVE  recorded'[k] \in Seq(1..now') /\ HistoryOK(k)'
  <2>1. CASE k \in Cleared(t)
    <3>1. recorded'[k] = <<>>
      BY <1>1, <2>1
    <3>2. Bucket(k)' = <<>>
      BY <1>1, <2>1 DEF Bucket
    <3> QED
      BY <3>1, <3>2, HistoryEmpty
  <2>2. CASE k \notin Cleared(t)
    <3>1. recorded'[k] = recorded[k] /\ Bucket(k)' = Bucket(k)
      BY <1>1, <2>2 DEF Bucket
    <3> QED
      BY <1>1, <1>2, <3>1, HistoryUntouched DEF Clock
  <2> QED
    BY <2>1, <2>2
<1>6. recorded' \in [Keys -> Seq(1..now')]
  BY <1>1, <1>5
<1> QED
  BY <1>1, <1>3, <1>4, <1>5, <1>6, LeaveFacts, NextInv

LEMMA AbandonStep ==
  ASSUME LimiterInv, NEW t \in Tasks, Abandon(t)
  PROVE  LimiterInv'
<1>1. UNCHANGED <<now, failed, recorded>> /\ Leave(t)
  BY DEF Abandon
<1>2. /\ Clock /\ Table(failed) /\ recorded \in [Keys -> Seq(1..now)] /\ now \in Nat
  BY InvParts DEF Clock
<1>3. Clock' /\ Table(failed)' /\ recorded' \in [Keys -> Seq(1..now')]
  BY <1>1, <1>2 DEF Clock, Table
<1>4. BucketsOK'
  BY <1>1, InvParts, LeaveFacts, BucketsShrink
<1>5. \A k \in Keys : HistoryOK(k)'
  <2>1. \A k : Bucket(k)' = Bucket(k)
    BY <1>1 DEF Bucket
  <2> QED
    BY <1>1, <1>2, <2>1, HistoryUntouched
<1> QED
  BY <1>1, <1>3, <1>4, <1>5, LeaveFacts, NextInv

LEMMA StepLimiter == LimiterInv /\ [LimiterNext]_limiterVars => LimiterInv'
<1> SUFFICES ASSUME LimiterInv, [LimiterNext]_limiterVars PROVE LimiterInv'
  OBVIOUS
<1>1. CASE Tick
  BY <1>1, TickStep
<1>2. ASSUME NEW at \in 1..now, Sweep(at)
      PROVE  LimiterInv'
  BY <1>2, PruneStep DEF Sweep
<1>3. ASSUME NEW at \in 1..now, NEW a \in Attempts, Reject(a, at)
      PROVE  LimiterInv'
  BY <1>3, PruneStep DEF Reject
<1>4. ASSUME NEW at \in 1..now, NEW a \in Attempts, NEW t \in Tasks, Pass(t, a, at)
      PROVE  LimiterInv'
  BY <1>4, PassStep
<1>5. ASSUME NEW t \in Tasks, Record(t) \/ Succeed(t) \/ Abandon(t)
      PROVE  LimiterInv'
  BY <1>5, RecordStepInv, SucceedStep, AbandonStep
<1>6. CASE UNCHANGED limiterVars
  BY <1>6 DEF limiterVars, LimiterInv, LimiterTypeOK, HistoryOK, Bucket, Cutoff
<1> QED
  BY <1>1, <1>2, <1>3, <1>4, <1>5, <1>6 DEF LimiterNext

-----------------------------------------------------------------------------
(* Theorems *)

\* At all times every bucket is the history of its key, in order, less a part that
\* has left the window: whatever is pruned, by whom and when, can never be missed.
THEOREM LimiterInvariant == LimiterSpec => []LimiterInv
BY InitLimiter, StepLimiter, PTL DEF LimiterSpec

\* The table never has more than MaxBuckets buckets, and requests that pass the
\* check of a key together exceed its limit by at most their number, less one.
THEOREM LimiterTypeCorrect == LimiterSpec => []LimiterTypeOK
<1>1. LimiterInv => LimiterTypeOK
  BY DEF LimiterInv
<1> QED
  BY <1>1, LimiterInvariant, PTL

\* Looking at a bucket, with a time read before, counts no less than the window that
\* ends now has of the key's history, and no more than the one that ended then.
LEMMA RecentIsCounted ==
  ASSUME LimiterInv, NEW k \in Keys, NEW at \in 1..now
  PROVE  /\ Recent(k, now) <= Len(InWindow(Bucket(k), at))
         /\ Len(InWindow(Bucket(k), at)) <= Recent(k, at)
         /\ Recent(k, now) \in Nat /\ Recent(k, at) \in Nat
         /\ Len(InWindow(Bucket(k), at)) \in Nat
<1> DEFINE r == recorded[k]
           b == Bucket(k)
           w == InWindow(b, at)
<1>1. /\ Clock /\ r \in Seq(1..now) /\ HistoryOK(k) /\ b \in Seq(1..now)
  <2>1. \A x \in DOMAIN failed : failed[x] \in Seq(1..now)
    BY InvParts
  <2>2. <<>> \in Seq(1..now)
    OBVIOUS
  <2>3. b \in Seq(1..now)
    BY <2>1, <2>2 DEF Bucket
  <2> QED
    BY <2>3, InvParts
<1>2. PICK d \in 0..Len(r) : Suffix(b, r, d) /\ \A j \in 1..d : r[j] <= Cutoff(now)
  BY <1>1 DEF HistoryOK
<1>3. PICK e \in 0..Len(b) :
        /\ Suffix(w, b, e) /\ \A j \in 1..e : b[j] <= Cutoff(at)
        /\ e < Len(b) => b[e + 1] > Cutoff(at)
  BY <1>1, InWindowFacts
<1>4. \A i, j \in 1..Len(r) : i <= j => r[i] <= r[j]
  BY <1>1 DEF HistoryOK
<1>5. \A i \in 1..Len(r) : r[i] \in 1..now
  BY <1>1, ElementOf
<1> DEFINE S(n) == {i \in 1..Len(r) : n - r[i] < Window}
<1>6. \A n : Recent(k, n) = Cardinality(S(n))
  <2>1. DOMAIN r = 1..Len(r)
    BY <1>1
  <2> QED
    BY <2>1 DEF Recent
<1>7. /\ now \in Nat /\ Cutoff(now) \in Nat /\ Cutoff(at) \in Nat /\ Cutoff(at) <= Cutoff(now)
      /\ \A x \in 1..now : x > Cutoff(now) <=> now - x < Window
      /\ \A x \in 1..now : x > Cutoff(at) <=> at - x < Window
  BY <1>1, CutoffFacts DEF Clock
<1>8. Len(r) \in Nat /\ Len(b) \in Nat
  BY <1>1
<1> HIDE DEF r, b, w
<1>9. /\ d \in Nat /\ e \in Nat /\ d <= Len(r) /\ e <= Len(b)
      /\ Len(b) = Len(r) - d /\ Len(w) = Len(r) - (d + e) /\ d + e <= Len(r)
      /\ \A i \in 1..Len(b) : b[i] = r[d + i]
  BY <1>2, <1>3, <1>8 DEF Suffix
<1> DEFINE kept == (d + e + 1)..Len(r)
<1>10. ASSUME NEW i \in S(now)
       PROVE  i \in kept
  <2>1. i \in 1..Len(r) /\ r[i] \in 1..now /\ r[i] > Cutoff(now)
    BY <1>5, <1>7
  <2>2. CASE i <= d
    <3>1. r[i] <= Cutoff(now)
      BY <1>2, <1>9, <2>1, <2>2
    <3> QED
      BY <1>7, <2>1, <3>1
  <2>3. CASE d < i /\ i <= d + e
    <3>1. i - d \in 1..e /\ i - d \in 1..Len(b) /\ d + (i - d) = i
      BY <1>9, <2>1, <2>3
    <3>2. r[i] <= Cutoff(at)
      <4>1. b[i - d] = r[d + (i - d)] /\ b[i - d] <= Cutoff(at)
        BY <1>3, <1>9, <3>1
      <4> QED
        BY <3>1, <4>1
    <3> QED
      BY <1>7, <2>1, <3>2
  <2> QED
    BY <1>9, <2>1, <2>2, <2>3
<1>11. ASSUME NEW i \in kept
       PROVE  i \in S(at)
  <2>1. /\ i \in 1..Len(r) /\ e < Len(b) /\ e + 1 \in 1..Len(b)
        /\ d + (e + 1) \in 1..Len(r) /\ d + (e + 1) <= i
    BY <1>8, <1>9
  <2>2. b[e + 1] > Cutoff(at) /\ b[e + 1] = r[d + (e + 1)] /\ r[d + (e + 1)] <= r[i]
    BY <1>3, <1>4, <1>9, <2>1
  <2>3. r[d + (e + 1)] \in 1..now /\ r[i] \in 1..now
    BY <1>5, <2>1
  <2>4. r[i] > Cutoff(at)
    <3>1. /\ Cutoff(at) \in Int /\ r[d + (e + 1)] \in Int /\ r[i] \in Int
          /\ r[d + (e + 1)] > Cutoff(at)
      BY <1>7, <2>2, <2>3
    <3> QED
      BY <2>2, <3>1
  <2> QED
    BY <1>7, <2>1, <2>3, <2>4
<1>12. Cardinality(kept) = Len(w) /\ IsFiniteSet(kept) /\ Len(w) \in Nat
  <2> DEFINE from == d + e + 1
  <2>1. /\ from \in Int /\ Len(r) \in Int /\ from <= Len(r) + 1
        /\ Len(r) - from + 1 = Len(w) /\ Len(w) \in Nat
    BY <1>8, <1>9
  <2> HIDE DEF from
  <2>2. /\ IsFiniteSet(from..Len(r))
        /\ Cardinality(from..Len(r)) = IF from > Len(r) THEN 0 ELSE Len(r) - from + 1
    BY <2>1, FS_Interval
  <2>3. Cardinality(from..Len(r)) = Len(r) - from + 1
    BY <2>1, <2>2
  <2> QED
    BY <2>1, <2>2, <2>3 DEF from
<1>13. IsFiniteSet(S(at)) /\ Cardinality(S(at)) \in Nat
  <2>1. IsFiniteSet(1..Len(r))
    BY <1>8, FS_Interval
  <2> QED
    BY <2>1, FS_Subset, FS_CardinalityType
<1>14. S(now) \subseteq kept /\ kept \subseteq S(at)
  BY <1>10, <1>11
<1> HIDE DEF S, kept
<1>15. /\ Cardinality(S(now)) <= Cardinality(kept) /\ Cardinality(S(now)) \in Nat
       /\ Cardinality(kept) <= Cardinality(S(at))
  BY <1>12, <1>13, <1>14, FS_Subset, FS_CardinalityType
<1> QED
  BY <1>6, <1>12, <1>13, <1>15 DEF w, b

LEMMA LimitedIsRecent ==
  ASSUME LimiterInv, NEW k \in Keys, NEW at \in 1..now
  PROVE  /\ Recent(k, now) >= LimitOf(k) => Limited(k, at)
         /\ Limited(k, at) => Recent(k, at) >= LimitOf(k)
<1>1. /\ Recent(k, now) <= Len(InWindow(Bucket(k), at))
      /\ Len(InWindow(Bucket(k), at)) <= Recent(k, at)
      /\ Recent(k, now) \in Nat /\ Recent(k, at) \in Nat
      /\ Len(InWindow(Bucket(k), at)) \in Nat /\ LimitOf(k) \in Nat \ {0}
  BY RecentIsCounted, LimitType
<1>2. CASE k \in DOMAIN failed
  <2>1. Limited(k, at) <=> Len(InWindow(Bucket(k), at)) >= LimitOf(k)
    BY <1>2 DEF Limited, Bucket
  <2> QED
    BY <1>1, <2>1
<1>3. CASE k \notin DOMAIN failed
  <2>1. Len(InWindow(<<>>, at)) = 0
    <3> DEFINE none == <<>>
    <3>1. Clock /\ none \in Seq(1..now) /\ Len(none) = 0
      BY InvParts
    <3> HIDE DEF none
    <3>2. PICK d \in 0..Len(none) : Suffix(InWindow(none, at), none, d)
      BY <3>1, InWindowFacts
    <3>3. Len(InWindow(none, at)) = 0
      BY <3>1, <3>2 DEF Suffix
    <3> QED
      BY <3>3 DEF none
  <2>2. Bucket(k) = <<>> /\ ~Limited(k, at)
    BY <1>3 DEF Bucket, Limited
  <2> QED
    BY <1>1, <2>1, <2>2
<1> QED
  BY <1>2, <1>3

\* An attempt is rejected if one of its keys has reached its limit in the window
\* that ends now, and only if one has reached it in the window that ended at the
\* time the check judges by, whatever has been pruned before, with whatever times.
THEOREM ThrottleExact == LimiterSpec => []ThrottleIsExact
<1>1. LimiterInv => ThrottleIsExact
  <2> SUFFICES ASSUME LimiterInv, NEW a \in Attempts, NEW at \in 1..now
               PROVE  /\ (\E k \in KeySet(a) : Recent(k, now) >= LimitOf(k))
                           => Rejected(a, at)
                      /\ Rejected(a, at)
                           => \E k \in KeySet(a) : Recent(k, at) >= LimitOf(k)
    BY DEF ThrottleIsExact
  <2>1. \A k \in KeySet(a) : /\ Recent(k, now) >= LimitOf(k) => Limited(k, at)
                             /\ Limited(k, at) => Recent(k, at) >= LimitOf(k)
    BY KeyFacts, LimitedIsRecent
  <2> QED
    BY <2>1 DEF Rejected
<1> QED
  BY <1>1, LimiterInvariant, PTL

\* A bucket that leaves the table when it is recorded makes room for another.
LEMMA MakesRoom ==
  ASSUME LimiterInv, NEW t \in Tasks, Record(t), NEW k \in DOMAIN failed \ DOMAIN failed'
  PROVE  /\ Cardinality(DOMAIN failed') = MaxBuckets
         /\ DOMAIN failed' \ DOMAIN failed # {}
         /\ \A h \in DOMAIN failed' : failed[k][1] <= failed'[h][1]
<1>1. /\ Cardinality(DOMAIN failed') = MaxBuckets
      /\ \A h \in DOMAIN failed' : failed[k][1] <= failed'[h][1]
  BY RecordFacts DEF Recorded
<1>2. /\ IsFiniteSet(DOMAIN failed) /\ Cardinality(DOMAIN failed) <= MaxBuckets
      /\ Cardinality(DOMAIN failed) \in Nat /\ MaxBuckets \in Nat
  BY InvParts, FS_CardinalityType, LimitAssumption DEF Table
<1>3. /\ IsFiniteSet(DOMAIN failed \ {k})
      /\ Cardinality(DOMAIN failed \ {k}) = Cardinality(DOMAIN failed) - 1
  BY <1>2, FS_RemoveElement
<1>4. ~(DOMAIN failed' \subseteq DOMAIN failed \ {k})
  <2> SUFFICES ASSUME DOMAIN failed' \subseteq DOMAIN failed \ {k} PROVE FALSE
    OBVIOUS
  <2>1. Cardinality(DOMAIN failed') <= Cardinality(DOMAIN failed \ {k})
    BY <1>3, FS_Subset
  <2> QED
    BY <1>1, <1>2, <1>3, <2>1
<1> QED
  BY <1>1, <1>4

\* Of a bucket that an earlier window has left, this one has nothing either.
LEMMA EmptyLater ==
  ASSUME LimiterInv, NEW k \in DOMAIN failed, NEW at \in 1..now,
         InWindow(failed[k], at) = <<>>
  PROVE  InWindow(failed[k], now) = <<>>
<1> DEFINE b == failed[k]
           w == InWindow(b, at)
           v == InWindow(b, now)
<1>1. Clock /\ b \in Seq(1..now) /\ Len(b) \in Nat /\ now \in 1..now
  BY InvParts, CutoffFacts
<1>2. PICK e \in 0..Len(b) : Suffix(w, b, e) /\ \A j \in 1..e : b[j] <= Cutoff(at)
  BY <1>1, InWindowFacts
<1>3. PICK d \in 0..Len(b) :
        /\ v \in Seq(1..now) /\ Suffix(v, b, d)
        /\ d < Len(b) => b[d + 1] > Cutoff(now)
  BY <1>1, InWindowFacts
<1>4. e = Len(b)
  <2>1. Len(w) = 0
    OBVIOUS
  <2> QED
    BY <1>1, <1>2, <2>1 DEF Suffix
<1>5. d = Len(b)
  <2> SUFFICES ASSUME d # Len(b) PROVE FALSE
    OBVIOUS
  <2>1. d + 1 \in 1..Len(b)
    BY <1>1
  <2>2. b[d + 1] \in 1..now
    BY <1>1, <2>1, ElementOf
  <2>3. b[d + 1] <= Cutoff(at) /\ b[d + 1] > Cutoff(now)
    BY <1>1, <1>2, <1>3, <1>4, <2>1
  <2>4. Cutoff(at) \in Nat /\ Cutoff(now) \in Nat /\ Cutoff(at) <= Cutoff(now) /\ now \in Nat
    BY <1>1, CutoffFacts DEF Clock
  <2> QED
    BY <2>2, <2>3, <2>4
<1>6. Len(v) = 0
  BY <1>1, <1>3, <1>5 DEF Suffix
<1> HIDE DEF v
<1>7. v = <<>>
  BY <1>3, <1>6
<1> QED
  BY <1>7 DEF v

\* A bucket disappears when nothing of it is left in the window, by a login that
\* succeeds and then never a global one, or because the table is full, the oldest
\* first.
THEOREM BucketsLeave == LimiterSpec => BucketsLeaveOnlyFor
<1>1. ASSUME LimiterInv, [LimiterNext]_limiterVars
      PROVE  [\A k \in DOMAIN failed \ DOMAIN failed' :
       \/ InWindow(failed[k], now) = <<>>
       \/ k[2] # "global" /\ \E t \in Tasks : stage[t] = "passed" /\ stage'[t] = "idle"
                                              /\ k \in Cleared(t)
       \/ /\ Cardinality(DOMAIN failed') = MaxBuckets
          /\ DOMAIN failed' \ DOMAIN failed # {}
          /\ \A h \in DOMAIN failed' : failed[k][1] <= failed'[h][1]]_limiterVars
  <2> SUFFICES ASSUME LimiterNext, NEW k \in DOMAIN failed \ DOMAIN failed'
               PROVE  \/ InWindow(failed[k], now) = <<>>
                      \/ /\ k[2] # "global"
                         /\ \E t \in Tasks : /\ stage[t] = "passed" /\ stage'[t] = "idle"
                                             /\ k \in Cleared(t)
                      \/ /\ Cardinality(DOMAIN failed') = MaxBuckets
                         /\ DOMAIN failed' \ DOMAIN failed # {}
                         /\ \A h \in DOMAIN failed' : failed[k][1] <= failed'[h][1]
    BY <1>1 DEF limiterVars
  <2>1. ASSUME NEW ks, NEW at \in 1..now, failed' = Pruned(ks, at), UNCHANGED <<now, recorded>>
        PROVE  InWindow(failed[k], now) = <<>>
    <3>1. InWindow(failed[k], at) = <<>>
      BY <1>1, <2>1, PruningSafe
    <3> QED
      BY <1>1, <3>1, EmptyLater
  <2>2. CASE \E at \in 1..now :
               \/ Sweep(at)
               \/ \E a \in Attempts : Reject(a, at) \/ \E t \in Tasks : Pass(t, a, at)
    BY <2>1, <2>2 DEF Sweep, Reject, Pass
  <2>3. ASSUME NEW t \in Tasks, Record(t)
        PROVE  /\ Cardinality(DOMAIN failed') = MaxBuckets
               /\ DOMAIN failed' \ DOMAIN failed # {}
               /\ \A h \in DOMAIN failed' : failed[k][1] <= failed'[h][1]
    BY <1>1, <2>3, MakesRoom
  <2>4. ASSUME NEW t \in Tasks, Succeed(t)
        PROVE  k[2] # "global" /\ stage[t] = "passed" /\ stage'[t] = "idle" /\ k \in Cleared(t)
    <3>1. k \in Cleared(t) /\ stage[t] = "passed"
      BY <2>4 DEF Succeed, Restricted
    <3>2. stage'[t] = "idle"
      BY <1>1, <2>4, InvParts DEF Succeed, Leave
    <3> QED
      BY <3>1, <3>2 DEF Cleared
  <2>5. CASE Tick \/ \E t \in Tasks : Abandon(t)
    BY <2>5 DEF Tick, Abandon
  <2> QED
    BY <2>2, <2>3, <2>4, <2>5 DEF LimiterNext
<1> QED
  BY <1>1, LimiterInvariant, PTL DEF LimiterSpec, BucketsLeaveOnlyFor

-----------------------------------------------------------------------------
(* The tool gate: its queue *)

Elems(s)    == {s[i] : i \in DOMAIN s}
Distinct(s) == \A i, j \in DOMAIN s : s[i] = s[j] => i = j

LEMMA AppendElems ==
  ASSUME NEW s \in Seq(Callers), NEW c \in Callers, Distinct(s), c \notin Elems(s)
  PROVE  /\ Append(s, c) \in Seq(Callers)
         /\ Elems(Append(s, c)) = Elems(s) \cup {c}
         /\ Distinct(Append(s, c))
<1>1. /\ DOMAIN s = 1..Len(s) /\ Len(s) \in Nat
      /\ DOMAIN Append(s, c) = 1..(Len(s) + 1)
      /\ \A i \in 1..Len(s) : Append(s, c)[i] = s[i]
      /\ Append(s, c)[Len(s) + 1] = c
  OBVIOUS
<1>2. Elems(Append(s, c)) = Elems(s) \cup {c}
  BY <1>1 DEF Elems
<1>3. Distinct(Append(s, c))
  BY <1>1 DEF Elems, Distinct
<1> QED
  BY <1>2, <1>3

LEMMA TailElems ==
  ASSUME NEW s \in Seq(Callers), Distinct(s), s # <<>>
  PROVE  /\ Tail(s) \in Seq(Callers)
         /\ Head(s) = s[1] /\ Head(s) \in Elems(s) /\ Head(s) \in Callers
         /\ Elems(Tail(s)) = Elems(s) \ {Head(s)}
         /\ Distinct(Tail(s))
<1>1. /\ DOMAIN s = 1..Len(s) /\ Len(s) \in Nat \ {0}
      /\ Tail(s) \in Seq(Callers) /\ Len(Tail(s)) = Len(s) - 1
      /\ DOMAIN Tail(s) = 1..(Len(s) - 1)
      /\ \A i \in 1..(Len(s) - 1) : Tail(s)[i] = s[i + 1]
      /\ Head(s) = s[1]
  OBVIOUS
<1>2. Head(s) \in Elems(s) /\ Head(s) \in Callers
  BY <1>1 DEF Elems
<1>3. Elems(Tail(s)) = Elems(s) \ {Head(s)}
  <2>1. ASSUME NEW x \in Elems(s), x # Head(s) PROVE x \in Elems(Tail(s))
    <3>1. PICK i \in 1..Len(s) : x = s[i]
      BY <1>1, <2>1 DEF Elems
    <3>2. i - 1 \in 1..(Len(s) - 1) /\ Tail(s)[i - 1] = s[i]
      BY <1>1, <2>1, <3>1
    <3> QED
      BY <1>1, <3>1, <3>2 DEF Elems
  <2>2. ASSUME NEW x \in Elems(Tail(s)) PROVE x \in Elems(s) /\ x # Head(s)
    <3>1. PICK i \in 1..(Len(s) - 1) : x = s[i + 1]
      BY <1>1, <2>2 DEF Elems
    <3>2. i + 1 \in 1..Len(s) /\ 1 \in 1..Len(s) /\ i + 1 # 1
      BY <1>1, <3>1
    <3> QED
      BY <1>1, <3>1, <3>2 DEF Elems, Distinct
  <2> QED
    BY <2>1, <2>2
<1>4. Distinct(Tail(s))
  BY <1>1 DEF Distinct
<1> QED
  BY <1>1, <1>2, <1>3, <1>4

LEMMA WithoutElems ==
  ASSUME NEW s \in Seq(Callers), Distinct(s), NEW c \in Elems(s)
  PROVE  /\ Without(s, c) \in Seq(Callers)
         /\ Elems(Without(s, c)) = Elems(s) \ {c}
         /\ Distinct(Without(s, c))
<1> DEFINE at == CHOOSE i \in DOMAIN s : s[i] = c
           left == SubSeq(s, 1, at - 1)
           right == SubSeq(s, at + 1, Len(s))
<1>1. at \in 1..Len(s) /\ s[at] = c /\ Len(s) \in Nat /\ DOMAIN s = 1..Len(s)
  BY DEF Elems
<1>2. /\ left \in Seq(Callers) /\ Len(left) = at - 1
      /\ \A i \in 1..(at - 1) : left[i] = s[i]
      /\ right \in Seq(Callers) /\ Len(right) = Len(s) - at
      /\ \A i \in 1..(Len(s) - at) : right[i] = s[at + i]
  <2> HIDE DEF at
  <2>1. at \in Int /\ at - 1 \in Int /\ at + 1 \in Int /\ Len(s) \in Int
    BY <1>1
  <2>2. /\ \A i \in 1..(at - 1) : s[i] \in Callers
        /\ \A i \in (at + 1)..Len(s) : s[i] \in Callers
    BY <1>1
  <2>3. /\ left \in Seq(Callers)
        /\ Len(left) = IF 1 <= at - 1 THEN (at - 1) - 1 + 1 ELSE 0
        /\ \A i \in 1..((at - 1) - 1 + 1) : left[i] = s[1 + i - 1]
    BY <2>1, <2>2, SubSeqProperties
  <2>4. /\ right \in Seq(Callers)
        /\ Len(right) = IF at + 1 <= Len(s) THEN Len(s) - (at + 1) + 1 ELSE 0
        /\ \A i \in 1..(Len(s) - (at + 1) + 1) : right[i] = s[at + 1 + i - 1]
    BY <2>1, <2>2, SubSeqProperties
  <2> HIDE DEF left, right
  <2>5. Len(left) = at - 1 /\ \A i \in 1..(at - 1) : left[i] = s[i]
    BY <1>1, <2>3
  <2>6. Len(right) = Len(s) - at /\ \A i \in 1..(Len(s) - at) : right[i] = s[at + i]
    <3>1. Len(right) = Len(s) - at
      <4>1. Len(right) = IF at + 1 <= Len(s) THEN Len(s) - (at + 1) + 1 ELSE 0
        BY <2>4
      <4>2. at \in Int /\ Len(s) \in Int /\ at <= Len(s)
        BY <1>1
      <4>3. (IF at + 1 <= Len(s) THEN Len(s) - (at + 1) + 1 ELSE 0) = Len(s) - at
        BY ONLY <4>2
      <4> QED
        BY <4>1, <4>3
    <3>2. ASSUME NEW i \in 1..(Len(s) - at) PROVE right[i] = s[at + i]
      <4>1. i \in 1..(Len(s) - (at + 1) + 1) /\ at + 1 + i - 1 = at + i
        BY <1>1
      <4> QED
        BY <2>4, <4>1
    <3> QED
      BY <3>1, <3>2
  <2> QED
    BY <2>3, <2>4, <2>5, <2>6
<1>3. Without(s, c) = left \o right
  BY DEF Without
<1> HIDE DEF at, left, right
<1>4. /\ Without(s, c) \in Seq(Callers)
      /\ Len(Without(s, c)) = Len(s) - 1
      /\ DOMAIN Without(s, c) = 1..(Len(s) - 1)
      /\ \A i \in 1..(Len(s) - 1) :
           Without(s, c)[i] = IF i < at THEN s[i] ELSE s[i + 1]
  <2>1. left \o right \in Seq(Callers) /\ Len(left \o right) = Len(s) - 1
    <3>1. /\ left \o right \in Seq(Callers)
          /\ Len(left \o right) = Len(left) + Len(right)
      BY <1>2
    <3> QED
      BY <1>1, <1>2, <3>1
  <2>2. ASSUME NEW i \in 1..(Len(s) - 1)
        PROVE  (left \o right)[i] = IF i < at THEN s[i] ELSE s[i + 1]
    <3>1. (left \o right)[i] = IF i <= Len(left) THEN left[i] ELSE right[i - Len(left)]
      BY <1>1, <1>2, <2>2
    <3>2. CASE i < at
      BY <1>1, <1>2, <3>1, <3>2
    <3>3. CASE ~(i < at)
      <4>1. i - (at - 1) \in 1..(Len(s) - at) /\ at + (i - (at - 1)) = i + 1
        BY <1>1, <3>3
      <4> QED
        BY <1>1, <1>2, <3>1, <3>3, <4>1
    <3> QED
      BY <3>2, <3>3
  <2> QED
    BY <1>3, <2>1, <2>2
<1>5. Elems(Without(s, c)) = Elems(s) \ {c}
  <2>1. ASSUME NEW x \in Elems(s), x # c PROVE x \in Elems(Without(s, c))
    <3>1. PICK i \in 1..Len(s) : x = s[i]
      BY <1>1 DEF Elems
    <3>2. CASE i < at
      BY <1>1, <1>4, <3>1, <3>2 DEF Elems
    <3>3. CASE i > at
      <4>1. /\ i - 1 \in 1..(Len(s) - 1) /\ ~(i - 1 < at) /\ (i - 1) + 1 = i
        BY <1>1, <3>3
      <4>2. Without(s, c)[i - 1] = s[i]
        BY <1>4, <4>1
      <4> QED
        BY <1>4, <3>1, <4>1, <4>2 DEF Elems
    <3> QED
      BY <1>1, <2>1, <3>1, <3>2, <3>3
  <2>2. ASSUME NEW x \in Elems(Without(s, c)) PROVE x \in Elems(s) /\ x # c
    <3>1. PICK i \in 1..(Len(s) - 1) : x = IF i < at THEN s[i] ELSE s[i + 1]
      BY <1>4, <2>2 DEF Elems
    <3>2. PICK j \in 1..Len(s) : x = s[j] /\ j # at
      BY <1>1, <3>1
    <3> QED
      BY <1>1, <3>2 DEF Elems, Distinct
  <2> QED
    BY <2>1, <2>2
<1>6. Distinct(Without(s, c))
  <2> DEFINE from(i) == IF i < at THEN i ELSE i + 1
  <2>1. \A i \in 1..(Len(s) - 1) :
          from(i) \in 1..Len(s) /\ Without(s, c)[i] = s[from(i)]
    BY <1>1, <1>4
  <2>2. \A i, j \in 1..(Len(s) - 1) : from(i) = from(j) => i = j
    BY <1>1
  <2> HIDE DEF from
  <2> QED
    BY SMTT(30), <1>1, <1>4, <2>1, <2>2 DEF Distinct
<1> QED
  BY <1>4, <1>5, <1>6

-----------------------------------------------------------------------------
(* Steps *)

Busy   == At({"running"})
Inside == Callers \ At({"outside"})

Waiters == At({"waiting", "expired"})

\* Every permit of either semaphore is accounted for.
Permits ==
  /\ running + Cardinality(Busy) + Cardinality(assigned) = Concurrency
  /\ admitted + Cardinality(Inside) = Capacity

Places == {"outside", "admitted", "waiting", "expired", "running", "leaving"}

\* The invariant, with the queue seen as the set of those who wait.
GateInv ==
  /\ pc \in [Callers -> Places] /\ admitted \in Nat /\ running \in Nat
  /\ queue \in Seq(Callers) /\ assigned \in SUBSET Callers
  /\ Permits
  /\ Distinct(queue) /\ Elems(queue) \cup assigned = Waiters
  /\ Elems(queue) \cap assigned = {}
  /\ running > 0 => queue = <<>>

LEMMA GateConstants ==
  /\ Concurrency \in Nat \ {0} /\ IsFiniteSet(Callers)
  /\ Capacity = 4 * Concurrency /\ Capacity \in Nat
BY GateAssumption DEF Capacity

LEMMA FiniteParts ==
  ASSUME TypeOK
  PROVE  /\ IsFiniteSet(Busy) /\ Cardinality(Busy) \in Nat
         /\ IsFiniteSet(Inside) /\ Cardinality(Inside) \in Nat
         /\ IsFiniteSet(assigned) /\ Cardinality(assigned) \in Nat
<1>1. Busy \in SUBSET Callers /\ Inside \in SUBSET Callers /\ assigned \in SUBSET Callers
  BY DEF Busy, Inside, At, TypeOK
<1>2. \A T \in SUBSET Callers : IsFiniteSet(T)
  BY GateConstants, FS_Subset
<1> QED
  BY <1>1, <1>2, FS_CardinalityType

\* How a step of one caller changes the two counts.
LEMMA Moved ==
  ASSUME TypeOK, NEW c \in Callers, NEW where,
         pc' = [pc EXCEPT ![c] = where]
  PROVE  /\ (pc[c] # "running" /\ where = "running") =>
               Cardinality(Busy') = Cardinality(Busy) + 1
         /\ (pc[c] = "running" /\ where # "running") =>
               Cardinality(Busy') = Cardinality(Busy) - 1
         /\ (pc[c] # "running" /\ where # "running") => Busy' = Busy
         /\ (pc[c] = "outside" /\ where # "outside") =>
               Cardinality(Inside') = Cardinality(Inside) + 1
         /\ (pc[c] # "outside" /\ where = "outside") =>
               Cardinality(Inside') = Cardinality(Inside) - 1
         /\ (pc[c] # "outside" /\ where # "outside") => Inside' = Inside
<1>1. \A x \in Callers : pc'[x] = IF x = c THEN where ELSE pc[x]
  BY DEF TypeOK
<1>2. /\ (pc[c] # "running" /\ where = "running") => Busy' = Busy \cup {c} /\ c \notin Busy
      /\ (pc[c] = "running" /\ where # "running") => Busy' = Busy \ {c} /\ c \in Busy
      /\ (pc[c] # "running" /\ where # "running") => Busy' = Busy
  BY <1>1 DEF Busy, At
<1>3. /\ (pc[c] = "outside" /\ where # "outside") =>
           Inside' = Inside \cup {c} /\ c \notin Inside
      /\ (pc[c] # "outside" /\ where = "outside") => Inside' = Inside \ {c} /\ c \in Inside
      /\ (pc[c] # "outside" /\ where # "outside") => Inside' = Inside
  BY <1>1 DEF Inside, At
<1> HIDE DEF Busy, Inside
<1>4. /\ IsFiniteSet(Busy) /\ Cardinality(Busy \cup {c}) =
             IF c \in Busy THEN Cardinality(Busy) ELSE Cardinality(Busy) + 1
      /\ Cardinality(Busy \ {c}) =
             IF c \in Busy THEN Cardinality(Busy) - 1 ELSE Cardinality(Busy)
  BY FiniteParts, FS_AddElement, FS_RemoveElement
<1>5. /\ IsFiniteSet(Inside) /\ Cardinality(Inside \cup {c}) =
             IF c \in Inside THEN Cardinality(Inside) ELSE Cardinality(Inside) + 1
      /\ Cardinality(Inside \ {c}) =
             IF c \in Inside THEN Cardinality(Inside) - 1 ELSE Cardinality(Inside)
  BY FiniteParts, FS_AddElement, FS_RemoveElement
<1> QED
  BY <1>2, <1>3, <1>4, <1>5

\* A permit that comes back is available, or on its way to the first waiter.
LEMMA HandedBack ==
  ASSUME TypeOK, Distinct(queue), running > 0 => queue = <<>>,
         NEW owners \in SUBSET Callers, Elems(queue) \cap owners = {},
         HandBack(queue, owners)
  PROVE  /\ queue' \in Seq(Callers) /\ Distinct(queue') /\ assigned' \in SUBSET Callers
         /\ Elems(queue') \cup assigned' = Elems(queue) \cup owners
         /\ Elems(queue') \cap assigned' = {}
         /\ running' \in Nat /\ (running' > 0 => queue' = <<>>)
         /\ running' + Cardinality(assigned') = running + Cardinality(owners) + 1
<1>1. /\ IsFiniteSet(owners) /\ Cardinality(owners) \in Nat
      /\ queue \in Seq(Callers) /\ running \in Nat
  BY GateConstants, FS_Subset, FS_CardinalityType DEF TypeOK
<1>2. CASE queue = <<>>
  BY <1>1, <1>2 DEF HandBack
<1>3. CASE queue # <<>>
  <2> DEFINE first == Head(queue)
  <2>1. /\ queue' = Tail(queue) /\ assigned' = owners \cup {first}
        /\ running' = running /\ running = 0
    BY <1>1, <1>3 DEF HandBack
  <2>2. /\ Tail(queue) \in Seq(Callers) /\ Distinct(Tail(queue))
        /\ first \in Elems(queue) /\ first \in Callers
        /\ Elems(Tail(queue)) = Elems(queue) \ {first}
    BY <1>1, <1>3, TailElems
  <2> HIDE DEF first
  <2>3. Cardinality(owners \cup {first}) = Cardinality(owners) + 1
    BY <1>1, <2>2, FS_AddElement
  <2> QED
    BY <1>1, <2>1, <2>2, <2>3
<1> QED
  BY <1>2, <1>3

LEMMA InitGate ==
  ASSUME Init
  PROVE  GateInv
<1>1. Capacity \in Nat /\ Concurrency \in Nat
  BY GateConstants
<1>3. Busy = {} /\ Inside = {} /\ assigned = {}
  BY DEF Init, Busy, Inside, At
<1>4. Permits
  <2>1. Cardinality(Busy) = 0 /\ Cardinality(Inside) = 0 /\ Cardinality(assigned) = 0
    BY <1>3, FS_EmptySet
  <2>2. running = Concurrency /\ admitted = Capacity
    BY DEF Init
  <2> QED
    BY <1>1, <2>1, <2>2 DEF Permits
<1>5. Distinct(queue) /\ Elems(queue) = {} /\ Waiters = {}
  BY DEF Init, Distinct, Elems, Waiters, At
<1> QED
  BY <1>1, <1>3, <1>4, <1>5 DEF GateInv, Init, Places

LEMMA GateType ==
  ASSUME GateInv
  PROVE  TypeOK
<1>1. /\ Cardinality(Busy) \in Nat /\ Cardinality(Inside) \in Nat
      /\ Cardinality(assigned) \in Nat
  <2>1. Busy \in SUBSET Callers /\ Inside \in SUBSET Callers
    BY DEF Busy, Inside, At
  <2> QED
    BY <2>1, GateConstants, FS_Subset, FS_CardinalityType DEF GateInv
<1>2. /\ running + Cardinality(Busy) + Cardinality(assigned) = Concurrency
      /\ admitted + Cardinality(Inside) = Capacity
  BY DEF GateInv, Permits
<1>3. Capacity \in Nat /\ Concurrency \in Nat
  BY GateConstants
<1>4. running \in 0..Concurrency /\ admitted \in 0..Capacity
  BY <1>1, <1>2, <1>3 DEF GateInv
<1> QED
  BY <1>4 DEF GateInv, TypeOK, Places

\* One step of one caller, and the parts it disturbs.
LEMMA StepGate ==
  ASSUME GateInv, [Next]_vars
  PROVE  GateInv'
<1>1. TypeOK /\ GateInv
  BY GateType
<1>2. /\ Cardinality(Busy) \in Nat /\ Cardinality(Inside) \in Nat
      /\ Cardinality(assigned) \in Nat /\ IsFiniteSet(assigned)
      /\ running \in Nat /\ admitted \in Nat
      /\ Concurrency \in Nat /\ Capacity \in Nat
  BY <1>1, GateConstants, FiniteParts DEF GateInv
<1>3. /\ running + Cardinality(Busy) + Cardinality(assigned) = Concurrency
      /\ admitted + Cardinality(Inside) = Capacity
  BY <1>1 DEF GateInv, Permits
<1>4. Permits' <=>
        /\ running' + Cardinality(Busy') + Cardinality(assigned') = Concurrency
        /\ admitted' + Cardinality(Inside') = Capacity
  BY DEF Permits, Capacity
<1>5. ASSUME NEW c \in Callers, NEW where \in Places, pc' = [pc EXCEPT ![c] = where]
      PROVE  /\ pc' \in [Callers -> Places]
             /\ where \in {"waiting", "expired"} => Waiters' = Waiters \cup {c}
             /\ where \notin {"waiting", "expired"} => Waiters' = Waiters \ {c}
             /\ pc[c] \in {"waiting", "expired"} <=> c \in Waiters
             /\ (pc[c] # "running" /\ where = "running") =>
                  Cardinality(Busy') = Cardinality(Busy) + 1
             /\ (pc[c] = "running" /\ where # "running") =>
                  Cardinality(Busy') = Cardinality(Busy) - 1
             /\ (pc[c] # "running" /\ where # "running") => Busy' = Busy
             /\ (pc[c] = "outside" /\ where # "outside") =>
                  Cardinality(Inside') = Cardinality(Inside) + 1
             /\ (pc[c] # "outside" /\ where = "outside") =>
                  Cardinality(Inside') = Cardinality(Inside) - 1
             /\ (pc[c] # "outside" /\ where # "outside") => Inside' = Inside
  <2>0. TypeOK
    BY <1>1
  <2>1. pc' \in [Callers -> Places]
    BY <1>1, <1>5 DEF GateInv
  <2>2. \A x \in Callers : pc'[x] = IF x = c THEN where ELSE pc[x]
    BY <1>1, <1>5 DEF GateInv
  <2>3. /\ where \in {"waiting", "expired"} => Waiters' = Waiters \cup {c}
        /\ where \notin {"waiting", "expired"} => Waiters' = Waiters \ {c}
        /\ pc[c] \in {"waiting", "expired"} <=> c \in Waiters
    BY <2>1, <2>2 DEF Waiters, At
  <2> QED
    BY <2>0, <2>1, <2>3, <1>5, Moved
<1>0. /\ "outside" \in Places /\ "admitted" \in Places /\ "waiting" \in Places
      /\ "expired" \in Places /\ "running" \in Places /\ "leaving" \in Places
  BY DEF Places
<1>6. ASSUME NEW c \in Callers, Admit(c) PROVE GateInv'
  <2>1. /\ pc[c] = "outside" /\ pc' = [pc EXCEPT ![c] = "admitted"]
        /\ admitted' = admitted - 1 /\ admitted > 0
        /\ running' = running /\ queue' = queue /\ assigned' = assigned
    BY <1>6 DEF Admit
  <2>2. pc' \in [Callers -> Places] /\ Waiters' = Waiters \ {c} /\ c \notin Waiters
    BY <1>0, <1>5, <2>1
  <2>3. Busy' = Busy /\ Cardinality(Inside') = Cardinality(Inside) + 1
    BY <1>0, <1>5, <2>1
  <2>4. Permits' /\ admitted' \in Nat
    BY <1>2, <1>3, <1>4, <2>1, <2>3
  <2> QED
    BY <1>1, <2>1, <2>2, <2>4 DEF GateInv
<1>7. ASSUME NEW c \in Callers, Enter(c) PROVE GateInv'
  <2>1. pc[c] = "admitted" /\ admitted' = admitted /\ assigned' = assigned
    BY <1>7 DEF Enter
  <2>2. CASE running > 0 /\ running' = running - 1 /\ queue' = queue
             /\ pc' = [pc EXCEPT ![c] = "running"]
    <3>1. pc' \in [Callers -> Places] /\ Waiters' = Waiters \ {c} /\ c \notin Waiters
      BY <1>0, <1>5, <2>1, <2>2
    <3>2. Inside' = Inside /\ Cardinality(Busy') = Cardinality(Busy) + 1
      BY <1>0, <1>5, <2>1, <2>2
    <3>3. Permits' /\ running' \in Nat
      BY <1>2, <1>3, <1>4, <2>1, <2>2, <3>2
    <3> QED
      BY <1>1, <2>1, <2>2, <3>1, <3>3 DEF GateInv
  <2>3. CASE running = 0 /\ running' = running /\ queue' = Append(queue, c)
             /\ pc' = [pc EXCEPT ![c] = "waiting"]
    <3>1. pc' \in [Callers -> Places] /\ Waiters' = Waiters \cup {c} /\ c \notin Waiters
      BY <1>0, <1>5, <2>1, <2>3
    <3>2. Inside' = Inside /\ Busy' = Busy
      BY <1>0, <1>5, <2>1, <2>3
    <3>3. Permits'
      BY <1>2, <1>3, <1>4, <2>1, <2>3, <3>2
    <3>4. c \notin Elems(queue) /\ c \notin assigned
      BY <1>1, <3>1 DEF GateInv
    <3>5. /\ queue' \in Seq(Callers) /\ Distinct(queue')
          /\ Elems(queue') = Elems(queue) \cup {c}
      BY <1>1, <2>3, <3>4, AppendElems DEF GateInv
    <3> QED
      BY <1>1, <2>1, <2>3, <3>1, <3>3, <3>4, <3>5 DEF GateInv
  <2> QED
    BY <1>7, <2>2, <2>3 DEF Enter
<1>8. ASSUME NEW c \in Callers, Resume(c) PROVE GateInv'
  <2>1. /\ pc[c] = "waiting" /\ c \in assigned /\ pc' = [pc EXCEPT ![c] = "running"]
        /\ assigned' = assigned \ {c}
        /\ admitted' = admitted /\ running' = running /\ queue' = queue
    BY <1>8 DEF Resume
  <2>2. pc' \in [Callers -> Places] /\ Waiters' = Waiters \ {c}
    BY <1>0, <1>5, <2>1
  <2>3. Inside' = Inside /\ Cardinality(Busy') = Cardinality(Busy) + 1
    BY <1>0, <1>5, <2>1
  <2>4. Cardinality(assigned') = Cardinality(assigned) - 1
    BY <1>2, <2>1, FS_RemoveElement
  <2>5. Permits'
    BY <1>2, <1>3, <1>4, <2>1, <2>3, <2>4
  <2>6. Elems(queue') \cup assigned' = Waiters' /\ Elems(queue') \cap assigned' = {}
    BY <1>1, <2>1, <2>2 DEF GateInv
  <2> QED
    BY <1>1, <2>1, <2>2, <2>5, <2>6 DEF GateInv
<1>9. ASSUME NEW c \in Callers, Expire(c) PROVE GateInv'
  <2>1. /\ pc[c] = "waiting" /\ pc' = [pc EXCEPT ![c] = "expired"]
        /\ admitted' = admitted /\ running' = running /\ queue' = queue
        /\ assigned' = assigned
    BY <1>9 DEF Expire
  <2>2. pc' \in [Callers -> Places] /\ Waiters' = Waiters \cup {c} /\ c \in Waiters
    BY <1>0, <1>5, <2>1
  <2>3. Inside' = Inside /\ Busy' = Busy
    BY <1>0, <1>5, <2>1
  <2>4. Permits'
    BY <1>3, <1>4, <2>1, <2>3
  <2> QED
    BY <1>1, <2>1, <2>2, <2>4 DEF GateInv
<1>10. ASSUME NEW c \in Callers, Withdraw(c) PROVE GateInv'
  <2>1. /\ pc[c] \in {"waiting", "expired"} /\ pc' = [pc EXCEPT ![c] = "leaving"]
        /\ admitted' = admitted
    BY <1>10 DEF Withdraw
  <2>2. pc' \in [Callers -> Places] /\ Waiters' = Waiters \ {c} /\ c \in Waiters
    BY <1>0, <1>5, <2>1
  <2>3. Inside' = Inside /\ Busy' = Busy
    BY <1>0, <1>5, <2>1
  <2>4. CASE c \in assigned
    <3>1. HandBack(queue, assigned \ {c})
      BY <1>10, <2>4 DEF Withdraw
    <3>2. /\ assigned \ {c} \in SUBSET Callers /\ Elems(queue) \cap (assigned \ {c}) = {}
          /\ c \notin Elems(queue)
      BY <1>1, <2>4 DEF GateInv
    <3>3. /\ queue' \in Seq(Callers) /\ Distinct(queue') /\ assigned' \in SUBSET Callers
          /\ Elems(queue') \cup assigned' = Elems(queue) \cup (assigned \ {c})
          /\ Elems(queue') \cap assigned' = {}
          /\ running' \in Nat /\ (running' > 0 => queue' = <<>>)
          /\ running' + Cardinality(assigned')
               = running + Cardinality(assigned \ {c}) + 1
      BY <1>1, <3>1, <3>2, HandedBack DEF GateInv
    <3>4. Cardinality(assigned \ {c}) = Cardinality(assigned) - 1
      BY <1>2, <2>4, FS_RemoveElement
    <3>5. IsFiniteSet(assigned') /\ Cardinality(assigned') \in Nat
      BY <3>3, GateConstants, FS_Subset, FS_CardinalityType
    <3>6. Permits'
      <4>1. /\ running' \in Nat
            /\ running' + Cardinality(assigned')
                 = running + Cardinality(assigned \ {c}) + 1
        BY <3>3
      <4>2. running' + Cardinality(Busy') + Cardinality(assigned') = Concurrency
        BY <1>2, <1>3, <2>3, <3>4, <3>5, <4>1
      <4>3. admitted' + Cardinality(Inside') = Capacity
        BY <1>3, <2>1, <2>3
      <4> QED
        BY <1>4, <4>2, <4>3
    <3>7. Elems(queue') \cup assigned' = Waiters'
      BY <1>1, <2>2, <3>2, <3>3 DEF GateInv
    <3> QED
      BY <1>1, <2>1, <2>2, <3>3, <3>6, <3>7 DEF GateInv
  <2>5. CASE c \notin assigned
    <3>1. queue' = Without(queue, c) /\ running' = running /\ assigned' = assigned
      BY <1>10, <2>5 DEF Withdraw
    <3>2. c \in Elems(queue)
      BY <1>1, <2>2, <2>5 DEF GateInv
    <3>3. /\ queue' \in Seq(Callers) /\ Distinct(queue')
          /\ Elems(queue') = Elems(queue) \ {c}
      BY <1>1, <3>1, <3>2, WithoutElems DEF GateInv
    <3>4. Permits'
      BY <1>3, <1>4, <2>1, <2>3, <3>1
    <3>5. running' > 0 => queue' = <<>>
      BY <1>1, <3>1, <3>2 DEF GateInv, Elems
    <3>6. /\ Elems(queue') \cup assigned' = Waiters'
          /\ Elems(queue') \cap assigned' = {}
      BY <1>1, <2>2, <2>5, <3>1, <3>3 DEF GateInv
    <3> QED
      BY <1>1, <2>1, <2>2, <3>1, <3>3, <3>4, <3>5, <3>6 DEF GateInv
  <2> QED
    BY <2>4, <2>5
<1>11. ASSUME NEW c \in Callers, ReleaseRunning(c) PROVE GateInv'
  <2>1. /\ pc[c] = "running" /\ pc' = [pc EXCEPT ![c] = "leaving"]
        /\ admitted' = admitted /\ HandBack(queue, assigned)
    BY <1>11 DEF ReleaseRunning
  <2>2. pc' \in [Callers -> Places] /\ Waiters' = Waiters \ {c} /\ c \notin Waiters
    BY <1>0, <1>5, <2>1
  <2>3. Inside' = Inside /\ Cardinality(Busy') = Cardinality(Busy) - 1
    BY <1>0, <1>5, <2>1
  <2>4. /\ queue' \in Seq(Callers) /\ Distinct(queue') /\ assigned' \in SUBSET Callers
        /\ Elems(queue') \cup assigned' = Elems(queue) \cup assigned
        /\ Elems(queue') \cap assigned' = {}
        /\ running' \in Nat /\ (running' > 0 => queue' = <<>>)
        /\ running' + Cardinality(assigned') = running + Cardinality(assigned) + 1
    BY <1>1, <2>1, HandedBack DEF GateInv
  <2>5. Cardinality(assigned') \in Nat
    BY <2>4, GateConstants, FS_Subset, FS_CardinalityType
  <2>6. Permits'
    <3>1. /\ running' \in Nat
          /\ running' + Cardinality(assigned') = running + Cardinality(assigned) + 1
      BY <2>4
    <3>2. running' + Cardinality(Busy') + Cardinality(assigned') = Concurrency
      BY <1>2, <1>3, <2>3, <2>5, <3>1
    <3>3. admitted' + Cardinality(Inside') = Capacity
      BY <1>3, <2>1, <2>3
    <3> QED
      BY <1>4, <3>2, <3>3
  <2>7. Elems(queue') \cup assigned' = Waiters'
    BY <1>1, <2>2, <2>4 DEF GateInv
  <2> QED
    BY <1>1, <2>1, <2>2, <2>4, <2>6, <2>7 DEF GateInv
<1>12. ASSUME NEW c \in Callers, ReleaseAdmitted(c) PROVE GateInv'
  <2>1. /\ pc[c] = "leaving" /\ pc' = [pc EXCEPT ![c] = "outside"]
        /\ admitted' = admitted + 1
        /\ running' = running /\ queue' = queue /\ assigned' = assigned
    BY <1>12 DEF ReleaseAdmitted
  <2>2. pc' \in [Callers -> Places] /\ Waiters' = Waiters \ {c} /\ c \notin Waiters
    BY <1>0, <1>5, <2>1
  <2>3. Busy' = Busy /\ Cardinality(Inside') = Cardinality(Inside) - 1
    BY <1>0, <1>5, <2>1
  <2>4. Permits' /\ admitted' \in Nat
    BY <1>2, <1>3, <1>4, <2>1, <2>3
  <2> QED
    BY <1>1, <2>1, <2>2, <2>4 DEF GateInv
<1>13. CASE UNCHANGED vars
  BY <1>1, <1>13 DEF vars, GateInv, Permits, Busy, Inside, Waiters, At,
       Capacity
<1> QED
  BY <1>6, <1>7, <1>8, <1>9, <1>10, <1>11, <1>12, <1>13 DEF Next

THEOREM GateInvariant == Spec => []GateInv
BY InitGate, StepGate, PTL DEF Spec

-----------------------------------------------------------------------------
(* The theorems *)

\* Where a call can be, and how many permits there can be.
THEOREM TypeCorrect == Spec => []TypeOK
<1>1. ASSUME GateInv PROVE TypeOK
  BY <1>1, GateType
<1> QED
  BY <1>1, GateInvariant, PTL

\* No permit is lost or duplicated, for any callers and any concurrency.
THEOREM Conserved == Spec => []PermitsConserved
<1>1. GateInv => PermitsConserved
  BY DEF GateInv, Permits, Busy, Inside, PermitsConserved
<1> QED
  BY <1>1, GateInvariant, PTL

\* Nobody waits for a free slot, and the queue is bounded: while somebody waits
\* every permit of `running` is out, so that of the 4 C calls inside at most 3 C
\* can be in the queue.
THEOREM BoundedWaiting == Spec => []NobodyWaitsForFreeSlot
<1>1. ASSUME GateInv PROVE NobodyWaitsForFreeSlot
  <2>1. TypeOK /\ GateInv
    BY <1>1, GateType
  <2>2. CASE queue = <<>>
    BY <2>2, GateConstants DEF NobodyWaitsForFreeSlot
  <2>3. CASE queue # <<>>
    <3> DEFINE q == Elems(queue)
    <3>1. running = 0 /\ Concurrency \in Nat /\ Capacity = 4 * Concurrency /\ admitted \in Nat
      BY <2>1, <2>3, GateConstants DEF GateInv
    <3>2. /\ IsFiniteSet(Busy) /\ IsFiniteSet(Inside) /\ IsFiniteSet(assigned)
          /\ Cardinality(Busy) \in Nat /\ Cardinality(Inside) \in Nat
          /\ Cardinality(assigned) \in Nat
      BY <2>1, FiniteParts
    <3>3. /\ Cardinality(Busy) + Cardinality(assigned) = Concurrency
          /\ Cardinality(Inside) <= 4 * Concurrency
      <4>1. /\ running + Cardinality(Busy) + Cardinality(assigned) = Concurrency
            /\ admitted + Cardinality(Inside) = Capacity
        BY <2>1 DEF GateInv, Permits
      <4> QED
        BY <3>1, <3>2, <4>1
    <3>4. /\ q \subseteq Inside /\ assigned \subseteq Inside /\ Busy \subseteq Inside
          /\ q \cap assigned = {} /\ (q \cup assigned) \cap Busy = {}
      BY <2>1 DEF GateInv, Elems, Waiters, Inside, Busy, At
    <3>5. IsFiniteSet(q) /\ Cardinality(q) = Len(queue) /\ Len(queue) \in Nat
      <4>1. /\ queue \in Seq(Callers) /\ DOMAIN queue = 1..Len(queue)
            /\ Len(queue) \in Nat
        BY <2>1 DEF GateInv
      <4>2. queue \in Bijection(1..Len(queue), q)
        BY <2>1, <4>1 DEF GateInv, Distinct, Elems, Bijection, Injection, Surjection,
          IsInjective
      <4>3. ExistsBijection(1..Len(queue), q)
        BY <4>2 DEF ExistsBijection
      <4> QED
        BY <3>2, <3>4, <4>1, <4>3, FS_CountingElements, FS_Subset
    <3> HIDE DEF q
    <3>6. /\ IsFiniteSet(q \cup assigned)
          /\ Cardinality(q \cup assigned) = Cardinality(q) + Cardinality(assigned)
      <4>1. Cardinality(q \cap assigned) = 0
        BY <3>4, FS_EmptySet
      <4>2. /\ IsFiniteSet(q \cup assigned)
            /\ Cardinality(q \cup assigned)
                 = Cardinality(q) + Cardinality(assigned) - Cardinality(q \cap assigned)
        BY <3>2, <3>5, FS_Union
      <4>3. Cardinality(q) \in Nat
        BY <3>5
      <4> QED
        BY <3>2, <4>1, <4>2, <4>3
    <3>7. Cardinality((q \cup assigned) \cup Busy)
             = Cardinality(q) + Cardinality(assigned) + Cardinality(Busy)
      <4>1. Cardinality((q \cup assigned) \cap Busy) = 0
        BY <3>4, FS_EmptySet
      <4>2. Cardinality((q \cup assigned) \cup Busy)
              = Cardinality(q \cup assigned) + Cardinality(Busy)
                  - Cardinality((q \cup assigned) \cap Busy)
        BY <3>2, <3>6, FS_Union
      <4>3. Cardinality(q) \in Nat
        BY <3>5
      <4> QED
        BY <3>2, <3>6, <4>1, <4>2, <4>3
    <3>8. Cardinality((q \cup assigned) \cup Busy) <= Cardinality(Inside)
      BY <3>2, <3>4, FS_Subset
    <3>9. Len(queue) <= 3 * Concurrency
      BY <3>1, <3>2, <3>3, <3>5, <3>7, <3>8
    <3> QED
      BY <3>1, <3>9 DEF NobodyWaitsForFreeSlot
  <2> QED
    BY <2>2, <2>3
<1> QED
  BY <1>1, GateInvariant, PTL
=============================================================================

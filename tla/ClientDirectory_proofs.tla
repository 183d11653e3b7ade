------------------------ MODULE ClientDirectory_proofs ------------------------
(* Theorems about ClientDirectory, for any requests, documents and             *)
(* registrations, any capacity and any lifetimes.                              *)
EXTENDS ClientDirectory, FiniteSetTheorems, TLAPS

-----------------------------------------------------------------------------
(* The inductive invariant behind these properties *)

\* A version of the document of u that may be served until time: the current one,
\* or one replaced no longer ago than a copy of it can be on its way and then cached.
Servable(u, version, time) ==
  /\ version \in 1..doc[u]
  /\ doc[u] = version \/ time <= replaced[u][version] + FetchTime + CacheTTL

\* No entry of a document outlives the time it may be served.
EntriesServable ==
  \A u \in Urls \cap DOMAIN clients :
    Servable(u, clients[u].version, clients[u].expires)

\* What a resolver holds between its awaits, and how it relates to the clock it read.
ResolverOK(t) ==
  /\ pc[t] = "idle" <=> id[t] = None
  /\ pc[t] \notin {"reading", "cache"} => fetched[t] = NoEntry
  /\ pc[t] \in {"reading", "cache"} => id[t] \in Urls /\ fetched[t] # NoEntry
  /\ pc[t] = "reading" =>
       /\ at[t] <= fetched[t].expires /\ fetched[t].expires <= now
       /\ Servable(id[t], fetched[t].version, fetched[t].expires + FetchTime + CacheTTL)
  /\ pc[t] = "cache" =>
       /\ at[t] < fetched[t].expires
       /\ Servable(id[t], fetched[t].version, fetched[t].expires)
  /\ pc[t] = "done" /\ id[t] \in Urls /\ result[t] # Never =>
       Servable(id[t], result[t], at[t] + 1)

\* The capacity a registration has seen is still there when it has saved.
GateOK ==
  /\ IsFiniteSet(DOMAIN clients)
  /\ gate = "registering" => Cardinality(LiveAt(cleaningAt)) < MaxClients

DirectoryInv ==
  TypeOK /\ EntriesServable /\ GateOK /\ \A t \in Tasks : ResolverOK(t)

Stages == {"idle", "lookup", "recheck", "fetch", "reading", "cache", "done"}
Entries == [expires : Nat, version : 0..MaxVersion]

-----------------------------------------------------------------------------
(* The map of clients *)

LEMMA OnlyMap ==
  ASSUME NEW ks
  PROVE  /\ DOMAIN Only(ks) = DOMAIN clients \cap ks
         /\ \A k \in DOMAIN clients \cap ks : Only(ks)[k] = clients[k]
BY DEF Only

LEMMA WithOnlyMap ==
  ASSUME NEW ks, NEW h, NEW entry, clients' = With(Only(ks), h, entry)
  PROVE  /\ DOMAIN clients' = (DOMAIN clients \cap ks) \cup {h} /\ clients'[h] = entry
         /\ \A k \in (DOMAIN clients \cap ks) \ {h} : clients'[k] = clients[k]
<1> DEFINE smaller == Only(ks)
<1>1. clients' = With(smaller, h, entry)
  OBVIOUS
<1> HIDE DEF smaller
<1>2. /\ DOMAIN clients' = DOMAIN smaller \cup {h} /\ clients'[h] = entry
      /\ \A k \in DOMAIN smaller \ {h} : clients'[k] = smaller[k]
  BY <1>1 DEF With
<1> QED
  BY <1>2, OnlyMap DEF smaller

LEMMA EntryType ==
  ASSUME TypeOK, NEW k
  PROVE  EntriesOf(k) \subseteq Entries
<1>1. now + (IF k \in Urls THEN CacheTTL ELSE ClientTTL) \in Nat
  BY DirectoryAssumption DEF TypeOK
<1> QED
  BY <1>1 DEF EntriesOf, Entries

\* What the invariant says of the map.
MapOK ==
  /\ IsFiniteSet(DOMAIN clients)
  /\ DOMAIN clients \subseteq Ids /\ Cardinality(DOMAIN clients) <= MaxClients
  /\ \A k \in DOMAIN clients : clients[k] \in EntriesOf(k)
  /\ EntriesServable

\* Entries leave the map.
LEMMA SmallerMap ==
  ASSUME DirectoryInv, NEW ks, clients' = Only(ks), UNCHANGED <<now, doc, replaced>>
  PROVE  MapOK'
<1>1. /\ DOMAIN clients' = DOMAIN clients \cap ks
      /\ \A k \in DOMAIN clients' : clients'[k] = clients[k]
  BY OnlyMap
<1>2. /\ TypeOK /\ EntriesServable /\ IsFiniteSet(DOMAIN clients)
      /\ Cardinality(DOMAIN clients) <= MaxClients /\ MaxClients \in Nat
  BY DirectoryAssumption DEF DirectoryInv, GateOK, TypeOK
<1>3. /\ IsFiniteSet(DOMAIN clients')
      /\ Cardinality(DOMAIN clients') <= Cardinality(DOMAIN clients)
  BY <1>1, <1>2, FS_Subset
<1>4. Cardinality(DOMAIN clients') \in Nat /\ Cardinality(DOMAIN clients) \in Nat
  BY <1>2, <1>3, FS_CardinalityType
<1>5. Cardinality(DOMAIN clients') <= MaxClients
  BY <1>2, <1>3, <1>4
<1>6. \A k \in DOMAIN clients' : clients'[k] \in EntriesOf(k)'
  BY <1>1, <1>2 DEF TypeOK, EntriesOf
<1>7. EntriesServable'
  BY <1>1, <1>2 DEF EntriesServable, Servable
<1> QED
  BY <1>1, <1>2, <1>3, <1>5, <1>6, <1>7 DEF MapOK, TypeOK

\* And one is written, if there is room.
LEMMA LargerMap ==
  ASSUME DirectoryInv, NEW ks, NEW h \in Ids, NEW entry \in EntriesOf(h),
         clients' = With(Only(ks), h, entry), UNCHANGED <<now, doc, replaced>>,
         h \in DOMAIN Only(ks) \/ Cardinality(DOMAIN Only(ks)) < MaxClients,
         h \in Urls => Servable(h, entry.version, entry.expires)
  PROVE  MapOK'
<1> DEFINE kept == DOMAIN clients \cap ks
<1>1. /\ DOMAIN Only(ks) = kept /\ \A k \in kept : Only(ks)[k] = clients[k]
  BY OnlyMap
<1>2. /\ DOMAIN clients' = kept \cup {h} /\ clients'[h] = entry
      /\ \A k \in kept \ {h} : clients'[k] = clients[k]
  BY WithOnlyMap
<1>3. /\ TypeOK /\ EntriesServable /\ IsFiniteSet(DOMAIN clients)
      /\ Cardinality(DOMAIN clients) <= MaxClients /\ MaxClients \in Nat
  BY DirectoryAssumption DEF DirectoryInv, GateOK, TypeOK
<1>4. IsFiniteSet(kept) /\ Cardinality(kept) <= Cardinality(DOMAIN clients)
  BY <1>3, FS_Subset
<1>5. Cardinality(kept) \in Nat /\ Cardinality(DOMAIN clients) \in Nat
  BY <1>3, <1>4, FS_CardinalityType
<1>6. /\ IsFiniteSet(kept \cup {h})
      /\ Cardinality(kept \cup {h}) = IF h \in kept THEN Cardinality(kept)
                                      ELSE Cardinality(kept) + 1
  BY <1>4, FS_AddElement
<1>7. Cardinality(kept \cup {h}) <= MaxClients
  BY <1>1, <1>3, <1>4, <1>5, <1>6
<1>8. DOMAIN clients' \subseteq Ids
  BY <1>2, <1>3 DEF TypeOK
<1>9. ASSUME NEW k \in DOMAIN clients'
      PROVE  clients'[k] \in EntriesOf(k)'
  <2>1. EntriesOf(k)' = EntriesOf(k)
    BY DEF EntriesOf
  <2>2. CASE k = h
    BY <1>2, <2>1, <2>2
  <2>3. CASE k # h
    BY <1>2, <1>3, <2>1, <2>3 DEF TypeOK
  <2> QED
    BY <2>2, <2>3
<1>10. ASSUME NEW u \in Urls \cap DOMAIN clients'
       PROVE  Servable(u, clients'[u].version, clients'[u].expires)
  <2>1. CASE u = h
    BY <1>2, <2>1
  <2>2. CASE u # h
    BY <1>2, <1>3, <2>2 DEF EntriesServable
  <2> QED
    BY <2>1, <2>2
<1>11. EntriesServable'
  BY <1>10 DEF EntriesServable, Servable
<1> QED
  BY <1>2, <1>6, <1>7, <1>8, <1>9, <1>11 DEF MapOK

\* Or it stays as it is.
LEMMA SameMap ==
  ASSUME DirectoryInv, clients' = clients, UNCHANGED <<now, doc, replaced>>
  PROVE  MapOK'
BY DEF DirectoryInv, GateOK, TypeOK, MapOK, EntriesServable, Servable, EntriesOf

-----------------------------------------------------------------------------
(* Steps of a resolver *)

LEMMA ResolverStep ==
  ASSUME DirectoryInv, NEW t \in Tasks,
         NEW p \in Stages, NEW k \in Ids \cup {None}, NEW a \in 0..now,
         NEW f \in Entries, NEW r \in 0..MaxVersion,
         f = NoEntry \/ f \in EntriesOf(k),
         pc' = [pc EXCEPT ![t] = p], id' = [id EXCEPT ![t] = k],
         at' = [at EXCEPT ![t] = a], fetched' = [fetched EXCEPT ![t] = f],
         result' = [result EXCEPT ![t] = r],
         UNCHANGED <<now, world, gateVars>>,
         MapOK', clients' = clients \/ Unlocked,
         /\ pc'[t] = p /\ id'[t] = k /\ at'[t] = a /\ fetched'[t] = f
         /\ result'[t] = r /\ UNCHANGED <<now, doc, replaced>>
         => ResolverOK(t)'
  PROVE  DirectoryInv'
<1>1. TypeOK /\ GateOK /\ \A d \in Tasks : ResolverOK(d)
  BY DEF DirectoryInv
<1>2. UNCHANGED <<now, doc, replaced, gate, cleaningAt, registered>>
  BY DEF world, gateVars
<1>3. /\ pc'[t] = p /\ id'[t] = k /\ at'[t] = a /\ fetched'[t] = f /\ result'[t] = r
      /\ \A d \in Tasks \ {t} :
           /\ pc'[d] = pc[d] /\ id'[d] = id[d] /\ at'[d] = at[d]
           /\ fetched'[d] = fetched[d] /\ result'[d] = result[d]
  BY <1>1 DEF TypeOK
<1>4. /\ pc' \in [Tasks -> Stages] /\ id' \in [Tasks -> Ids \cup {None}]
      /\ at' \in [Tasks -> 0..now'] /\ fetched' \in [Tasks -> Entries]
      /\ result' \in [Tasks -> 0..MaxVersion]
  BY <1>1, <1>2 DEF TypeOK, Stages, Entries
<1>5. ASSUME NEW d \in Tasks
      PROVE  (fetched[d] = NoEntry \/ fetched[d] \in EntriesOf(id[d]))'
  <2>1. \A h : EntriesOf(h)' = EntriesOf(h)
    BY <1>2 DEF EntriesOf
  <2>2. CASE d = t
    BY <1>3, <2>1, <2>2
  <2>3. CASE d # t
    BY <1>1, <1>3, <2>1, <2>3 DEF TypeOK
  <2> QED
    BY <2>2, <2>3
<1>6. TypeOK'
  BY <1>1, <1>2, <1>4, <1>5 DEF TypeOK, MapOK, Stages, Entries
<1>7. GateOK'
  BY <1>1, <1>2 DEF GateOK, MapOK, Unlocked, LiveAt
<1>8. ASSUME NEW d \in Tasks
      PROVE  ResolverOK(d)'
  <2>1. CASE d = t
    BY <1>2, <1>3, <2>1
  <2>2. CASE d # t
    BY <1>1, <1>2, <1>3, <2>2 DEF ResolverOK, Servable
  <2> QED
    BY <2>1, <2>2
<1> QED
  BY <1>6, <1>7, <1>8 DEF DirectoryInv, MapOK

LEMMA NoEntryTyped == NoEntry \in Entries
BY DirectoryAssumption DEF NoEntry, Entries

\* A request gets its answer.
LEMMA FinishSafe ==
  ASSUME DirectoryInv, NEW t \in Tasks, NEW version \in 0..MaxVersion,
         pc[t] # "idle", Finish(t, version), UNCHANGED <<now, world, gateVars>>,
         MapOK', clients' = clients \/ Unlocked,
         id[t] \in Urls /\ version # Never => Servable(id[t], version, at[t] + 1)
  PROVE  DirectoryInv'
<1>1. TypeOK /\ ResolverOK(t)
  BY DEF DirectoryInv
<1>2. /\ id[t] \in Ids \cup {None} /\ at[t] \in 0..now
      /\ id = [id EXCEPT ![t] = id[t]] /\ at = [at EXCEPT ![t] = at[t]]
  BY <1>1 DEF TypeOK
<1>3. /\ pc' = [pc EXCEPT ![t] = "done"]
      /\ id' = [id EXCEPT ![t] = id[t]] /\ at' = [at EXCEPT ![t] = at[t]]
      /\ fetched' = [fetched EXCEPT ![t] = NoEntry]
      /\ result' = [result EXCEPT ![t] = version]
  BY <1>2 DEF Finish
<1>4. /\ pc'[t] = "done" /\ id'[t] = id[t] /\ at'[t] = at[t] /\ fetched'[t] = NoEntry
      /\ result'[t] = version /\ UNCHANGED <<now, doc, replaced>>
      => ResolverOK(t)'
  BY <1>1 DEF ResolverOK, Servable
<1> QED
  BY <1>2, <1>3, <1>4, NoEntryTyped, ResolverStep DEF Stages

\* A request goes on without having fetched anything.
LEMMA MoveSafe ==
  ASSUME DirectoryInv, NEW t \in Tasks, NEW to \in {"recheck", "fetch"},
         pc[t] \in {"lookup", "recheck"}, Move(t, to),
         UNCHANGED <<now, world, gateVars>>, MapOK', clients' = clients \/ Unlocked
  PROVE  DirectoryInv'
<1>1. TypeOK /\ ResolverOK(t)
  BY DEF DirectoryInv
<1>2. /\ id[t] \in Ids \cup {None} /\ at[t] \in 0..now /\ result[t] \in 0..MaxVersion
      /\ fetched[t] = NoEntry
      /\ id = [id EXCEPT ![t] = id[t]] /\ at = [at EXCEPT ![t] = at[t]]
      /\ fetched = [fetched EXCEPT ![t] = NoEntry]
      /\ result = [result EXCEPT ![t] = result[t]]
  BY <1>1 DEF TypeOK, ResolverOK
<1>3. /\ pc' = [pc EXCEPT ![t] = to]
      /\ id' = [id EXCEPT ![t] = id[t]] /\ at' = [at EXCEPT ![t] = at[t]]
      /\ fetched' = [fetched EXCEPT ![t] = NoEntry]
      /\ result' = [result EXCEPT ![t] = result[t]]
  BY <1>2 DEF Move
<1>4. /\ pc'[t] = to /\ id'[t] = id[t] /\ at'[t] = at[t] /\ fetched'[t] = NoEntry
      /\ result'[t] = result[t] /\ UNCHANGED <<now, doc, replaced>>
      => ResolverOK(t)'
  BY <1>1 DEF ResolverOK
<1> QED
  BY <1>2, <1>3, <1>4, NoEntryTyped, ResolverStep DEF Stages

LEMMA ServableUntil ==
  ASSUME TypeOK, NEW u \in Urls, NEW version, NEW time \in Int, NEW earlier \in Int,
         Servable(u, version, time), earlier <= time
  PROVE  Servable(u, version, earlier)
<1>1. version \in 1..MaxVersion => replaced[u][version] \in Int
  <2>1. replaced[u] \in [1..MaxVersion -> 0..now] /\ now \in Nat
    BY DEF TypeOK
  <2>2. version \in 1..MaxVersion => replaced[u][version] \in 0..now
    BY <2>1
  <2> QED
    BY <2>1, <2>2
<1>2. version \in 1..doc[u] /\ doc[u] \in 1..MaxVersion
  BY DEF Servable, TypeOK
<1>3. MaxVersion \in Nat
  BY DirectoryAssumption
<1>4. version \in 1..MaxVersion
  BY <1>2, <1>3
<1> QED
  BY <1>1, <1>4, DirectoryAssumption DEF Servable

\* What a resolver finds in the map before it has expired may be served.
LEMMA FoundSafe ==
  ASSUME DirectoryInv, NEW t \in Tasks, id[t] \in DOMAIN clients,
         clients[id[t]].expires > at[t]
  PROVE  /\ clients[id[t]].version \in 0..MaxVersion
         /\ id[t] \in Urls => Servable(id[t], clients[id[t]].version, at[t] + 1)
<1>1. TypeOK /\ EntriesServable /\ at[t] \in Int /\ clients[id[t]] \in Entries
  BY EntryType DEF DirectoryInv, TypeOK
<1>2. /\ clients[id[t]].version \in 0..MaxVersion
      /\ clients[id[t]].expires \in Int
      /\ at[t] + 1 <= clients[id[t]].expires
  BY <1>1 DEF Entries
<1>3. ASSUME id[t] \in Urls
      PROVE  Servable(id[t], clients[id[t]].version, clients[id[t]].expires)
  BY <1>1, <1>3 DEF EntriesServable
<1> QED
  BY <1>1, <1>2, <1>3, ServableUntil

LEMMA LookupSafe ==
  ASSUME DirectoryInv, NEW t \in Tasks, Lookup(t) \/ Recheck(t)
  PROVE  DirectoryInv'
<1>1. /\ TypeOK /\ pc[t] \in {"lookup", "recheck"} /\ Unlocked
      /\ UNCHANGED <<now, world, gateVars, doc, replaced>>
  BY DEF DirectoryInv, Lookup, Recheck, world
<1>2. Never \in 0..MaxVersion
  BY DirectoryAssumption DEF Never
<1>3. CASE Lookup(t)
  <2>1. MapOK'
    BY <1>1, <1>3, SameMap DEF Lookup
  <2>2. CASE id[t] \notin DOMAIN clients
    BY <1>1, <1>3, <2>1, <2>2, MoveSafe DEF Lookup
  <2>3. CASE id[t] \in DOMAIN clients /\ clients[id[t]].expires > at[t]
    BY <1>1, <1>3, <2>1, <2>3, FoundSafe, FinishSafe DEF Lookup
  <2>4. CASE id[t] \in DOMAIN clients /\ ~(clients[id[t]].expires > at[t])
    BY <1>1, <1>3, <2>1, <2>4, MoveSafe DEF Lookup
  <2> QED
    BY <2>2, <2>3, <2>4
<1>4. CASE Recheck(t)
  <2>1. CASE id[t] \notin DOMAIN clients
    <3>1. Move(t, "fetch") /\ clients' = clients
      BY <1>4, <2>1 DEF Recheck, LiveAt
    <3> QED
      BY <1>1, <3>1, SameMap, MoveSafe
  <2>2. CASE id[t] \in LiveAt(at[t])
    <3>1. Finish(t, clients[id[t]].version) /\ clients' = clients
      BY <1>4, <2>2 DEF Recheck, LiveAt
    <3> QED
      BY <1>1, <2>2, <3>1, SameMap, FoundSafe, FinishSafe DEF LiveAt
  <2>3. CASE id[t] \in DOMAIN clients \ LiveAt(at[t])
    <3>1. \/ Finish(t, Never) /\ clients' = clients
          \/ Move(t, "fetch") /\ clients' = Only(DOMAIN clients \ {id[t]})
      BY <1>4, <2>3 DEF Recheck
    <3>2. CASE Finish(t, Never) /\ clients' = clients
      BY <1>1, <1>2, <3>2, SameMap, FinishSafe
    <3>3. CASE Move(t, "fetch") /\ clients' = Only(DOMAIN clients \ {id[t]})
      BY <1>1, <3>3, SmallerMap, MoveSafe
    <3> QED
      BY <3>1, <3>2, <3>3
  <2> QED
    BY <2>1, <2>2, <2>3
<1> QED
  BY <1>3, <1>4

LEMMA BeginSafe ==
  ASSUME DirectoryInv, NEW t \in Tasks, (\E k \in Ids : Begin(t, k)) \/ Leave(t)
  PROVE  DirectoryInv'
<1>1. TypeOK /\ ResolverOK(t) /\ NoEntry \in Entries
  BY NoEntryTyped DEF DirectoryInv
<1>2. MapOK' /\ UNCHANGED <<now, world, gateVars, doc, replaced>> /\ clients' = clients
  <2>1. UNCHANGED <<now, world, gateVars, doc, replaced>> /\ clients' = clients
    BY DEF Begin, Leave, world
  <2> QED
    BY <2>1, SameMap
<1>3. /\ now \in 0..now /\ Never \in 0..now /\ Never \in 0..MaxVersion
      /\ None \notin Ids
  BY <1>1, DirectoryAssumption DEF TypeOK, Never
<1>4. ASSUME NEW k \in Ids, Begin(t, k)
      PROVE  DirectoryInv'
  <2>1. fetched[t] = NoEntry /\ fetched = [fetched EXCEPT ![t] = NoEntry]
    BY <1>1, <1>4 DEF Begin, ResolverOK, TypeOK
  <2>2. /\ pc' = [pc EXCEPT ![t] = "lookup"] /\ id' = [id EXCEPT ![t] = k]
        /\ at' = [at EXCEPT ![t] = now] /\ fetched' = [fetched EXCEPT ![t] = NoEntry]
        /\ result' = [result EXCEPT ![t] = Never]
    BY <1>4, <2>1 DEF Begin
  <2>3. pc'[t] = "lookup" /\ id'[t] = k /\ fetched'[t] = NoEntry => ResolverOK(t)'
    BY <1>3 DEF ResolverOK
  <2> QED
    BY <1>1, <1>2, <1>3, <2>2, <2>3, ResolverStep DEF Stages
<1>5. ASSUME Leave(t)
      PROVE  DirectoryInv'
  <2>1. /\ pc' = [pc EXCEPT ![t] = "idle"] /\ id' = [id EXCEPT ![t] = None]
        /\ at' = [at EXCEPT ![t] = Never] /\ fetched' = [fetched EXCEPT ![t] = NoEntry]
        /\ result' = [result EXCEPT ![t] = Never]
    BY <1>5 DEF Leave
  <2>2. pc'[t] = "idle" /\ id'[t] = None /\ fetched'[t] = NoEntry => ResolverOK(t)'
    BY DEF ResolverOK
  <2> QED
    BY <1>1, <1>2, <1>3, <2>1, <2>2, ResolverStep DEF Stages
<1> QED
  BY <1>4, <1>5

LEMMA FetchSafe ==
  ASSUME DirectoryInv, NEW t \in Tasks, Answered(t) \/ Fetch(t) \/ FetchFails(t)
  PROVE  DirectoryInv'
<1>1. TypeOK /\ ResolverOK(t)
  BY DEF DirectoryInv
<1>2. MapOK' /\ UNCHANGED <<now, world, gateVars, doc, replaced>> /\ clients' = clients
  <2>1. UNCHANGED <<now, world, gateVars, doc, replaced>> /\ clients' = clients
    BY DEF Answered, Fetch, FetchFails, world
  <2> QED
    BY <2>1, SameMap
<1>3. /\ now \in Nat /\ CacheTTL \in Nat \ {0} /\ FetchTime \in Nat \ {0}
      /\ MaxVersion \in Nat \ {0}
      /\ id[t] \in Ids \cup {None} /\ at[t] \in 0..now /\ result[t] \in 0..MaxVersion
      /\ fetched[t] \in Entries
      /\ id = [id EXCEPT ![t] = id[t]] /\ at = [at EXCEPT ![t] = at[t]]
      /\ result = [result EXCEPT ![t] = result[t]]
  BY <1>1, DirectoryAssumption DEF TypeOK, Entries
<1>4. CASE Answered(t)
  <2> DEFINE f == [expires |-> now, version |-> doc[id[t]]]
  <2>1. /\ id[t] \in Urls /\ doc[id[t]] \in 1..MaxVersion
    BY <1>1, <1>4 DEF Answered, TypeOK
  <2>2. f.expires = now /\ f.version = doc[id[t]]
    OBVIOUS
  <2>3. f \in Entries /\ f \in EntriesOf(id[t]) /\ f # NoEntry
    BY <1>3, <2>1 DEF Entries, EntriesOf, NoEntry
  <2>4. /\ pc' = [pc EXCEPT ![t] = "reading"]
        /\ id' = [id EXCEPT ![t] = id[t]] /\ at' = [at EXCEPT ![t] = at[t]]
        /\ fetched' = [fetched EXCEPT ![t] = f]
        /\ result' = [result EXCEPT ![t] = result[t]]
    BY <1>3, <1>4 DEF Answered
  <2> HIDE DEF f
  <2>5. /\ pc'[t] = "reading" /\ id'[t] = id[t] /\ at'[t] = at[t] /\ fetched'[t] = f
        /\ result'[t] = result[t] /\ UNCHANGED <<now, doc, replaced>>
        => ResolverOK(t)'
    <3>1. Servable(id[t], f.version, f.expires + FetchTime + CacheTTL)
      BY <1>1, <2>1, <2>2 DEF Servable, TypeOK
    <3>2. id[t] # None
      BY <2>1, DirectoryAssumption DEF Ids
    <3> QED
      BY <1>3, <2>1, <2>2, <2>3, <3>1, <3>2 DEF ResolverOK, Servable
  <2> QED
    BY <1>2, <1>3, <2>3, <2>4, <2>5, ResolverStep DEF Stages
<1>5. CASE FetchFails(t)
  <2>1. Never \in 0..MaxVersion /\ pc[t] # "idle" /\ Finish(t, Never)
    BY <1>3, <1>5 DEF FetchFails, Never
  <2> QED
    BY <1>2, <2>1, FinishSafe
<1>6. CASE Fetch(t)
  <2>1. /\ pc[t] = "reading" /\ id[t] \in Urls
        /\ now <= fetched[t].expires + FetchTime
        /\ at[t] <= fetched[t].expires /\ fetched[t].expires <= now
        /\ Servable(id[t], fetched[t].version, fetched[t].expires + FetchTime + CacheTTL)
        /\ fetched[t].expires \in Nat /\ fetched[t].version \in 0..MaxVersion
    BY <1>1, <1>3, <1>6 DEF Fetch, ResolverOK, Entries
  <2>2. PICK ttl \in 0..CacheTTL :
          IF ttl = 0
          THEN Finish(t, fetched[t].version)
          ELSE /\ pc' = [pc EXCEPT ![t] = "cache"]
               /\ fetched' = [fetched EXCEPT ![t].expires = now + ttl]
               /\ UNCHANGED <<id, at, result>>
    BY <1>6 DEF Fetch, Lifetimes
  <2>3. CASE ttl = 0
    <3>1. Servable(id[t], fetched[t].version, at[t] + 1)
      BY <1>1, <1>3, <2>1, ServableUntil
    <3> QED
      BY <1>2, <2>1, <2>2, <2>3, <3>1, FinishSafe
  <2>4. CASE ttl # 0
    <3> DEFINE f == [fetched[t] EXCEPT !.expires = now + ttl]
    <3>1. f \in Entries /\ f.expires = now + ttl /\ f.version = fetched[t].version
      BY <1>3 DEF Entries
    <3>2. f \in EntriesOf(id[t]) /\ f # NoEntry
      BY <1>3, <2>1, <2>4, <3>1 DEF Entries, EntriesOf, NoEntry
    <3>3. /\ pc' = [pc EXCEPT ![t] = "cache"]
          /\ id' = [id EXCEPT ![t] = id[t]] /\ at' = [at EXCEPT ![t] = at[t]]
          /\ fetched' = [fetched EXCEPT ![t] = f]
          /\ result' = [result EXCEPT ![t] = result[t]]
      BY <1>3, <2>2, <2>4
    <3> HIDE DEF f
    <3>4. Servable(id[t], f.version, f.expires)
      BY <1>1, <1>3, <2>1, <3>1, ServableUntil
    <3>5. at[t] < f.expires
      BY <1>3, <2>4, <3>1
    <3>6. /\ pc'[t] = "cache" /\ id'[t] = id[t] /\ at'[t] = at[t] /\ fetched'[t] = f
          /\ result'[t] = result[t] /\ UNCHANGED <<now, doc, replaced>>
          => ResolverOK(t)'
      <4>1. id[t] # None
        BY <2>1, DirectoryAssumption DEF Ids
      <4> QED
        BY <2>1, <3>2, <3>4, <3>5, <4>1 DEF ResolverOK, Servable
    <3> QED
      BY <1>2, <1>3, <3>1, <3>2, <3>3, <3>6, ResolverStep DEF Stages
  <2> QED
    BY <2>3, <2>4
<1> QED
  BY <1>4, <1>5, <1>6

\* cache_client: an entry is written only if there is room for it.
LEMMA CacheSafe ==
  ASSUME DirectoryInv, NEW t \in Tasks, Cache(t)
  PROVE  DirectoryInv'
<1>1. TypeOK /\ ResolverOK(t) /\ pc[t] = "cache" /\ Unlocked
  BY DEF DirectoryInv, Cache
<1>2. UNCHANGED <<now, world, gateVars, doc, replaced>>
  BY DEF Cache, world
<1>0. PICK time \in at[t]..now :
        LET kept == Only(CleanCache(time)) IN
        clients' = IF id[t] \in DOMAIN kept \/ Cardinality(DOMAIN kept) < MaxClients
                   THEN With(kept, id[t], fetched[t]) ELSE kept
  BY DEF Cache
<1> DEFINE ks == CleanCache(time)
<1>3. \/ clients' = Only(ks)
      \/ /\ clients' = With(Only(ks), id[t], fetched[t])
         /\ id[t] \in DOMAIN Only(ks) \/ Cardinality(DOMAIN Only(ks)) < MaxClients
  BY <1>0
<1> HIDE DEF ks
<1>4. /\ id[t] \in Urls /\ fetched[t] \in EntriesOf(id[t])
      /\ at[t] < fetched[t].expires
      /\ Servable(id[t], fetched[t].version, fetched[t].expires)
  BY <1>1 DEF ResolverOK, TypeOK
<1>5. MapOK'
  BY <1>2, <1>3, <1>4, SmallerMap, LargerMap DEF Ids
<1>6. /\ fetched[t].version \in 0..MaxVersion /\ fetched[t].expires \in Int
      /\ at[t] \in Int
  BY <1>1, <1>4, EntryType DEF Entries, TypeOK
<1>7. Servable(id[t], fetched[t].version, at[t] + 1)
  BY <1>1, <1>4, <1>6, ServableUntil
<1>8. Finish(t, fetched[t].version)
  BY DEF Cache
<1> QED
  BY <1>1, <1>2, <1>5, <1>6, <1>7, <1>8, FinishSafe

-----------------------------------------------------------------------------
(* Steps of the clock, of the owners and of the gate's holder *)

\* Later is later: what was in time stays so.
LEMMA TickSafe ==
  ASSUME DirectoryInv, Tick
  PROVE  DirectoryInv'
<1>1. /\ now' = now + 1
      /\ UNCHANGED <<clients, pc, id, at, fetched, result, doc, replaced, gate,
                     cleaningAt, registered>>
  BY DEF Tick, resolver, world, gateVars
<1>2. TypeOK /\ now \in Nat
  BY DEF DirectoryInv, TypeOK
<1>3. \A k : EntriesOf(k) \subseteq EntriesOf(k)'
  BY <1>1, <1>2, DirectoryAssumption DEF EntriesOf
<1>4. 0..now \subseteq 0..now'
  BY <1>1, <1>2
<1>5. TypeOK'
  <2>1. /\ at' \in [Tasks -> 0..now'] /\ cleaningAt' \in 0..now' /\ now' \in Nat
        /\ replaced' \in [Urls -> [1..MaxVersion -> 0..now']]
    BY <1>1, <1>2, <1>4 DEF TypeOK
  <2>2. /\ \A k \in DOMAIN clients' : clients'[k] \in EntriesOf(k)'
        /\ \A t \in Tasks : (fetched[t] = NoEntry \/ fetched[t] \in EntriesOf(id[t]))'
    BY <1>1, <1>2, <1>3 DEF TypeOK
  <2> QED
    BY <1>1, <1>2, <2>1, <2>2 DEF TypeOK
<1>6. EntriesServable' /\ GateOK'
  BY <1>1 DEF DirectoryInv, EntriesServable, Servable, GateOK, LiveAt
<1>7. ASSUME NEW t \in Tasks
      PROVE  ResolverOK(t)'
  <2>1. ResolverOK(t) /\ fetched[t].expires \in Nat
    BY <1>2 DEF DirectoryInv, TypeOK
  <2> QED
    BY <1>1, <1>2, <2>1 DEF ResolverOK, Servable
<1> QED
  BY <1>5, <1>6, <1>7 DEF DirectoryInv

\* A version replaced now may be served for as long as a copy of it is on its way and
\* in the cache.
LEMMA ReplaceSafe ==
  ASSUME DirectoryInv, NEW u \in Urls, Replace(u)
  PROVE  DirectoryInv'
<1>1. /\ doc[u] < MaxVersion /\ doc' = [doc EXCEPT ![u] = doc[u] + 1]
      /\ replaced' = [replaced EXCEPT ![u][doc[u]] = now]
      /\ UNCHANGED <<now, clients, pc, id, at, fetched, result, gate, cleaningAt,
                     registered>>
  BY DEF Replace, resolver, gateVars
<1>2. /\ TypeOK /\ now \in Nat /\ doc[u] \in 1..MaxVersion
      /\ CacheTTL \in Nat \ {0} /\ FetchTime \in Nat \ {0} /\ MaxVersion \in Nat
      /\ replaced[u] \in [1..MaxVersion -> 0..now]
  BY DirectoryAssumption DEF DirectoryInv, TypeOK
<1>3. /\ doc'[u] = doc[u] + 1 /\ replaced'[u] = [replaced[u] EXCEPT ![doc[u]] = now]
      /\ \A x \in Urls \ {u} : doc'[x] = doc[x] /\ replaced'[x] = replaced[x]
  BY <1>1, <1>2 DEF TypeOK
<1>4. /\ replaced'[u][doc[u]] = now
      /\ \A v \in (1..MaxVersion) \ {doc[u]} : replaced'[u][v] = replaced[u][v]
      /\ replaced'[u] \in [1..MaxVersion -> 0..now]
  BY <1>2, <1>3
<1>5. ASSUME NEW x \in Urls, NEW version, NEW time \in Int, Servable(x, version, time),
             time <= now + FetchTime + CacheTTL
      PROVE  Servable(x, version, time)'
  <2>1. CASE x # u
    BY <1>3, <1>5, <2>1 DEF Servable
  <2>2. CASE x = u
    <3>1. version \in 1..doc[u] /\ version \in 1..MaxVersion /\ version \in 1..doc'[u]
      BY <1>2, <1>3, <1>5, <2>2 DEF Servable
    <3>2. CASE version = doc[u]
      BY <1>4, <1>5, <2>2, <3>1, <3>2 DEF Servable
    <3>3. CASE version # doc[u]
      BY <1>4, <1>5, <2>2, <3>1, <3>3 DEF Servable
    <3> QED
      BY <3>2, <3>3
  <2> QED
    BY <2>1, <2>2
<1>6. TypeOK'
  <2>1. doc' \in [Urls -> 1..MaxVersion]
    BY <1>1, <1>2 DEF TypeOK
  <2>2. replaced' \in [Urls -> [1..MaxVersion -> 0..now]]
    BY <1>1, <1>2, <1>3, <1>4 DEF TypeOK
  <2>3. \A k : EntriesOf(k)' = EntriesOf(k)
    BY <1>1 DEF EntriesOf
  <2> QED
    BY <1>1, <1>2, <2>1, <2>2, <2>3 DEF TypeOK
<1>7. EntriesServable'
  <2> SUFFICES ASSUME NEW x \in Urls \cap DOMAIN clients
               PROVE  Servable(x, clients[x].version, clients[x].expires)'
    BY <1>1 DEF EntriesServable
  <2>1. clients[x] \in EntriesOf(x) /\ Servable(x, clients[x].version, clients[x].expires)
    BY <1>2 DEF DirectoryInv, EntriesServable, TypeOK
  <2>2. clients[x].expires \in Int /\ clients[x].expires <= now + FetchTime + CacheTTL
    BY <1>2, <2>1 DEF EntriesOf
  <2>3. Servable(x, clients[x].version, clients[x].expires)' <=>
        \A y, z : y = clients[x].version /\ z = clients[x].expires => Servable(x, y, z)'
    BY <1>1 DEF Servable
  <2> QED
    BY <1>5, <2>1, <2>2, <2>3
<1>8. GateOK'
  BY <1>1 DEF DirectoryInv, GateOK, LiveAt
<1>9. ASSUME NEW t \in Tasks
      PROVE  ResolverOK(t)'
  <2>1. /\ ResolverOK(t) /\ fetched[t] \in Entries /\ at[t] \in 0..now
        /\ fetched[t] = NoEntry \/ fetched[t] \in EntriesOf(id[t])
    BY <1>2 DEF DirectoryInv, TypeOK, Entries
  <2>2. pc[t] = "reading" =>
          Servable(id[t], fetched[t].version, fetched[t].expires + FetchTime + CacheTTL)'
    <3> SUFFICES ASSUME pc[t] = "reading"
                 PROVE  Servable(id[t], fetched[t].version,
                                 fetched[t].expires + FetchTime + CacheTTL)'
      OBVIOUS
    <3> DEFINE time == fetched[t].expires + FetchTime + CacheTTL
    <3>1. /\ id[t] \in Urls /\ Servable(id[t], fetched[t].version, time)
          /\ fetched[t].expires <= now /\ fetched[t].expires \in Nat
      BY <2>1 DEF ResolverOK, Entries
    <3>2. time \in Int /\ time <= now + FetchTime + CacheTTL
      BY <1>2, <3>1
    <3> HIDE DEF time
    <3>3. (Servable(id[t], fetched[t].version, time))'
      <4>1. id'[t] = id[t] /\ fetched'[t] = fetched[t] /\ time' = time
        BY <1>1 DEF time
      <4> QED
        BY <1>5, <3>1, <3>2, <4>1
    <3> QED
      BY <3>3 DEF time
  <2>3. pc[t] = "cache" => Servable(id[t], fetched[t].version, fetched[t].expires)'
    BY <1>1, <1>2, <1>5, <2>1 DEF ResolverOK, EntriesOf
  <2>4. pc[t] = "done" /\ id[t] \in Urls /\ result[t] # Never =>
          Servable(id[t], result[t], at[t] + 1)'
    BY <1>1, <1>2, <1>5, <2>1 DEF ResolverOK
  <2> QED
    BY <1>1, <2>1, <2>2, <2>3, <2>4 DEF ResolverOK
<1> QED
  BY <1>6, <1>7, <1>8, <1>9 DEF DirectoryInv

\* A step of the holder of the gate.
LEMMA GateStep ==
  ASSUME DirectoryInv, UNCHANGED <<now, resolver, world>>, MapOK',
         gate' \in {"free", "waiting", "registering", "cleaning", "saving"},
         cleaningAt' \in 0..now,
         registered' \subseteq DcrIds,
         gate' = "registering" => Cardinality(LiveAt(cleaningAt))' < MaxClients
  PROVE  DirectoryInv'
<1>1. /\ UNCHANGED <<now, pc, id, at, fetched, result, doc, replaced>>
      /\ TypeOK /\ \A t \in Tasks : ResolverOK(t)
  BY DEF resolver, world, DirectoryInv
<1>2. \A t \in Tasks : ResolverOK(t)'
  BY <1>1 DEF ResolverOK, Servable
<1>3. \A k : EntriesOf(k)' = EntriesOf(k)
  BY <1>1 DEF EntriesOf
<1>4. TypeOK'
  BY <1>1, <1>3 DEF TypeOK, MapOK
<1>5. GateOK'
  BY DEF GateOK, MapOK
<1> QED
  BY <1>2, <1>4, <1>5 DEF DirectoryInv, MapOK

LEMMA GateSafe ==
  ASSUME DirectoryInv,
         \/ RegisterBegins \/ RegisterLocks \/ RegisterFails
         \/ \E d \in DcrIds : Registered(d)
         \/ CleanUp \/ CacheCleaned \/ CleanedUp
  PROVE  DirectoryInv'
<1>1. /\ TypeOK /\ now \in 0..now /\ now \in Nat /\ cleaningAt \in 0..now
      /\ Never \in 0..now /\ registered \subseteq DcrIds
      /\ MaxClients \in Nat /\ ClientTTL \in Nat /\ MaxVersion \in Nat \ {0}
      /\ Urls \cap DcrIds = {}
  BY DirectoryAssumption DEF DirectoryInv, TypeOK, Never
<1>2. UNCHANGED <<now, resolver, world, doc, replaced>>
  BY DEF RegisterBegins, RegisterLocks, RegisterFails, Registered, CleanUp, CacheCleaned,
         CleanedUp, GateFreed, world
<1>3. CASE RegisterBegins \/ RegisterLocks \/ RegisterFails \/ CleanUp
  <2>1. MapOK' /\ clients' = clients /\ registered' = registered
    BY <1>2, <1>3, SameMap
       DEF RegisterBegins, RegisterLocks, RegisterFails, CleanUp
  <2>2. CASE RegisterLocks
    <3>1. /\ gate' = "registering" /\ cleaningAt' = cleaningAt
          /\ Cardinality(LiveAt(cleaningAt)) < MaxClients
      BY <2>2 DEF RegisterLocks
    <3>2. LiveAt(cleaningAt)' = LiveAt(cleaningAt)
      BY <2>1, <3>1 DEF LiveAt
    <3> QED
      BY <1>1, <1>2, <2>1, <3>1, <3>2, GateStep
  <2>3. CASE RegisterBegins \/ RegisterFails \/ CleanUp
    BY <1>1, <1>2, <2>1, <2>3, GateStep
       DEF RegisterBegins, RegisterFails, CleanUp, GateFreed
  <2> QED
    BY <1>3, <2>2, <2>3
<1>4. ASSUME NEW d \in DcrIds, Registered(d)
      PROVE  DirectoryInv'
  <2> DEFINE ks == LiveAt(cleaningAt)
  <2>1. PICK issued \in 1..cleaningAt :
          clients' = With(Only(LiveAt(cleaningAt)), d,
                          [expires |-> issued + ClientTTL, version |-> 1])
    BY <1>4 DEF Registered
  <2> DEFINE entry == [expires |-> issued + ClientTTL, version |-> 1]
  <2>2. /\ gate = "registering" /\ clients' = With(Only(ks), d, entry)
        /\ gate' = "free" /\ cleaningAt' = Never /\ registered' = registered \cup {d}
    BY <1>4, <2>1 DEF Registered, GateFreed
  <2>3. entry \in EntriesOf(d) /\ d \in Ids /\ d \notin Urls
    BY <1>1 DEF EntriesOf, Ids
  <2>4. Cardinality(DOMAIN Only(ks)) < MaxClients
    <3>1. Cardinality(ks) < MaxClients
      BY <2>2 DEF DirectoryInv, GateOK
    <3>2. DOMAIN Only(ks) = ks
      BY OnlyMap DEF LiveAt
    <3> QED
      BY <3>1, <3>2
  <2> HIDE DEF entry, ks
  <2>5. MapOK'
    BY <1>2, <2>2, <2>3, <2>4, LargerMap
  <2> QED
    BY <1>1, <1>2, <2>2, <2>5, GateStep
<1>5. CASE CacheCleaned
  <2>1. /\ MapOK' /\ gate' = "saving" /\ cleaningAt' = cleaningAt
        /\ registered' = registered
    BY <1>2, <1>5, SmallerMap DEF CacheCleaned
  <2> QED
    BY <1>1, <1>2, <2>1, GateStep
<1>6. CASE CleanedUp
  <2>1. MapOK'
    BY <1>2, <1>6, SmallerMap, SameMap DEF CleanedUp
  <2>2. gate' = "free" /\ cleaningAt' = Never /\ registered' = registered
    BY <1>6 DEF CleanedUp, GateFreed
  <2> QED
    BY <1>1, <1>2, <2>1, <2>2, GateStep
<1> QED
  BY <1>3, <1>4, <1>5, <1>6

-----------------------------------------------------------------------------
(* The theorems *)

LEMMA InitSafe ==
  ASSUME Init
  PROVE  DirectoryInv
<1>1. /\ DOMAIN clients = registered /\ registered \subseteq DcrIds
      /\ DOMAIN clients \cap Urls = {} /\ now = 1
      /\ \A k \in DOMAIN clients :
           clients[k] \in [expires : now + 1..now + ClientTTL, version : {1}]
  BY DirectoryAssumption DEF Init, Loaded
<1>2. IsFiniteSet(DOMAIN clients) /\ Cardinality(DOMAIN clients) <= MaxClients
  BY <1>1 DEF Init, Loaded
<1>3. \A t \in Tasks : fetched[t] = NoEntry
  BY DEF Init
<1>4. TypeOK
  <2>1. /\ fetched \in [Tasks -> [expires : Nat, version : 0..MaxVersion]]
    BY NoEntryTyped DEF Init, Entries
  <2>2. /\ replaced \in [Urls -> [1..MaxVersion -> 0..now]] /\ doc \in [Urls -> 1..MaxVersion]
        /\ result \in [Tasks -> 0..MaxVersion] /\ at \in [Tasks -> 0..now]
        /\ cleaningAt \in 0..now /\ now \in Nat
    BY DirectoryAssumption DEF Init, Never
  <2>3. \A k \in DOMAIN clients : clients[k] \in EntriesOf(k)
    BY <1>1, DirectoryAssumption DEF EntriesOf
  <2> QED
    BY <1>1, <1>2, <1>3, <2>1, <2>2, <2>3 DEF Init, TypeOK, Ids
<1>5. EntriesServable /\ GateOK
  BY <1>1, <1>2 DEF EntriesServable, GateOK, Init
<1>6. \A t \in Tasks : ResolverOK(t)
  BY <1>3 DEF ResolverOK, Init
<1> QED
  BY <1>4, <1>5, <1>6 DEF DirectoryInv

LEMMA NextSafe ==
  ASSUME DirectoryInv, [Next]_vars
  PROVE  DirectoryInv'
<1>1. CASE UNCHANGED vars
  BY <1>1 DEF vars, resolver, world, gateVars, DirectoryInv, TypeOK, EntriesServable,
              Servable, GateOK, LiveAt, ResolverOK, EntriesOf
<1>2. CASE Next
  BY <1>2, TickSafe, ReplaceSafe, BeginSafe, LookupSafe, FetchSafe, CacheSafe, GateSafe
     DEF Next
<1> QED
  BY <1>1, <1>2

\* In every reachable state no cached document outlives the time it may be served,
\* every resolver holds an entry that fits its clock, and the room a registration
\* counted on (store_registered_client) is still there when it has been saved.
THEOREM DirectoryInvariant == Spec => []DirectoryInv
<1>1. Init => DirectoryInv
  BY InitSafe
<1>2. DirectoryInv /\ [Next]_vars => DirectoryInv'
  BY NextSafe
<1> QED
  BY <1>1, <1>2, PTL DEF Spec

\* The types; with them the capacity: cached documents and registrations together
\* never exceed max_clients, though cache_client holds no gate.
THEOREM TypeCorrect == Spec => []TypeOK
<1>1. DirectoryInv => TypeOK
  BY DEF DirectoryInv
<1> QED
  BY <1>1, DirectoryInvariant, PTL

\* No request that resolve_oauth_client answers gets a document that was replaced
\* longer ago than one fetch and one cache lifetime before the request began.
THEOREM StalenessIsBounded == Spec => []StalenessBounded
<1>1. ASSUME DirectoryInv
      PROVE  StalenessBounded
  <2> SUFFICES ASSUME NEW t \in Tasks, pc[t] = "done", id[t] \in Urls,
                      result[t] # Never
               PROVE  \/ doc[id[t]] = result[t]
                      \/ replaced[id[t]][result[t]] + FetchTime + CacheTTL > at[t]
    BY DEF StalenessBounded
  <2>1. Servable(id[t], result[t], at[t] + 1) /\ TypeOK
    BY <1>1 DEF DirectoryInv, ResolverOK
  <2>2. result[t] \in 1..MaxVersion /\ at[t] \in Int
    BY <2>1, DirectoryAssumption DEF Servable, TypeOK
  <2>3. replaced[id[t]] \in [1..MaxVersion -> 0..now] /\ now \in Nat
    BY <2>1 DEF TypeOK
  <2>4. replaced[id[t]][result[t]] \in 0..now
    BY <2>2, <2>3
  <2>5. \/ doc[id[t]] = result[t]
        \/ at[t] + 1 <= replaced[id[t]][result[t]] + FetchTime + CacheTTL
    BY <2>1 DEF Servable
  <2>6. /\ replaced[id[t]][result[t]] \in Nat /\ FetchTime \in Nat /\ CacheTTL \in Nat
    BY <2>3, <2>4, DirectoryAssumption
  <2> QED
    BY <2>2, <2>5, <2>6
<1> QED
  BY <1>1, DirectoryInvariant, PTL

\* Whatever leaves the map in a step has expired: resolve_oauth_client removes an
\* entry after a second look at it only, and cleanup_transaction judges the map it
\* finds by a clock that is not ahead.
THEOREM OnlyExpiredAreRemoved == Spec => OnlyExpiredLeaves
<1>1. ASSUME DirectoryInv, [Next]_vars
      PROVE  [\A k \in DOMAIN clients \ DOMAIN clients' : clients[k].expires <= now]_vars
  <2> SUFFICES ASSUME NEW k \in DOMAIN clients \ DOMAIN clients', Next
               PROVE  clients[k].expires <= now
    BY <1>1 DEF vars
  <2>1. TypeOK /\ now \in Nat /\ cleaningAt \in 0..now /\ clients[k].expires \in Nat
    BY <1>1, EntryType DEF DirectoryInv, TypeOK, Entries
  <2>2. ASSUME NEW ks, clients' = Only(ks)
        PROVE  k \notin ks
    BY <2>2, OnlyMap
  <2>3. ASSUME NEW ks, NEW h, NEW entry, clients' = With(Only(ks), h, entry)
        PROVE  k \notin ks
    <3>1. DOMAIN clients' = (DOMAIN clients \cap ks) \cup {h}
      BY <2>3, WithOnlyMap
    <3> QED
      BY <3>1
  <2>4. ASSUME NEW t \in Tasks, Recheck(t)
        PROVE  clients[k].expires <= now
    <3>1. k = id[t] /\ k \notin LiveAt(at[t])
      BY <2>2, <2>4 DEF Recheck
    <3>2. at[t] \in 0..now
      BY <2>1 DEF TypeOK
    <3> QED
      BY <2>1, <3>1, <3>2 DEF LiveAt
  <2>5. ASSUME NEW t \in Tasks, Cache(t)
        PROVE  clients[k].expires <= now
    <3>1. PICK time \in at[t]..now :
            \/ clients' = Only(CleanCache(time))
            \/ clients' = With(Only(CleanCache(time)), id[t], fetched[t])
      BY <2>5 DEF Cache
    <3>2. k \notin CleanCache(time)
      BY <2>2, <2>3, <3>1
    <3>3. at[t] \in 0..now
      BY <2>1 DEF TypeOK
    <3> QED
      BY <2>1, <3>2, <3>3 DEF CleanCache, LiveAt
  <2>6. ASSUME NEW d \in DcrIds, Registered(d)
        PROVE  clients[k].expires <= now
    <3>1. PICK issued : clients' = With(Only(LiveAt(cleaningAt)), d,
                              [expires |-> issued + ClientTTL, version |-> 1])
      BY <2>6 DEF Registered
    <3>2. k \notin LiveAt(cleaningAt)
      BY <3>1, <2>3
    <3> QED
      BY <2>1, <3>2 DEF LiveAt
  <2>7. CASE CacheCleaned \/ CleanedUp
    <3>1. k \notin LiveAt(cleaningAt)
      BY <2>2, <2>7 DEF CacheCleaned, CleanedUp, CleanCache
    <3> QED
      BY <2>1, <3>1 DEF LiveAt
  <2>8. \/ \E t \in Tasks : Recheck(t) \/ Cache(t)
        \/ \E d \in DcrIds : Registered(d)
        \/ CacheCleaned \/ CleanedUp
    BY DEF Next, Tick, Replace, Begin, Lookup, Answered, Fetch, FetchFails, Leave,
           RegisterBegins, RegisterLocks, RegisterFails, CleanUp
  <2> QED
    BY <2>4, <2>5, <2>6, <2>7, <2>8
<1> QED
  BY <1>1, DirectoryInvariant, PTL DEF Spec, OnlyExpiredLeaves
=============================================================================

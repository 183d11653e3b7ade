------------------------- MODULE DurableState_proofs -------------------------
(* Theorems about DurableState, for any number of tasks, credentials and       *)
(* clients, any capacities and any lifetimes.                                  *)
EXTENDS DurableState, BoundedCollections_proofs

-----------------------------------------------------------------------------
(* The inductive invariant behind the credential properties *)

\* Only the holder of the gate is past the queue.
GateHeld == \A t \in Tasks : pc[t] \notin {"idle", "queued"} => gate = t

\* Credentials come from logins and from commits only; without a state file
\* nothing is ever saved.
Known == /\ now # Never
         /\ Durable \/ disk = EmptySnapshot
         /\ codes \subseteq Offered
         /\ Spent \subseteq Offered \cup Committed

\* A prepared snapshot holds committed, unspent tokens and the one drawn for it.
SavingOK ==
  \A t \in Tasks : pc[t] = "saving" =>
    IF job[t].kind = "exchange"
    THEN /\ new[t] \in Grants \ Committed
         /\ job[t].of \in (Offered \cup Committed) \ Spent
         /\ snap[t].access \subseteq Committed \cup {new[t]}
         /\ snap[t].refresh
              \subseteq (Committed \ (Spent \cup {job[t].of})) \cup {new[t]}
    ELSE /\ snap[t].access \subseteq Committed
         /\ snap[t].refresh \subseteq Committed \ Spent

\* So does a saved one, and once it is published the spent token is gone.
PublishingOK ==
  \A t \in Tasks :
    /\ pc[t] \in {"saved", "half"} =>
         /\ snap[t].access \subseteq Committed
         /\ snap[t].refresh \subseteq Committed \ Spent
    /\ pc[t] = "publishing" => refresh \cap Spent = {}
    /\ Publishing(t) /\ job[t].kind = "exchange" => new[t] \in Committed

CredentialInv ==
  /\ TypeOK /\ GateHeld /\ Known /\ SavingOK /\ PublishingOK
  /\ VisibleIsCommitted /\ SpentIsGone /\ OneWinner

-----------------------------------------------------------------------------
(* The inductive invariant behind the properties of the maps and of the file *)

\* Every snapshot, and the saved one, respects the capacities, and a history holds a
\* session once.
Fits(s) ==
  /\ Cardinality(s.access) <= MaxAccess /\ Cardinality(s.refresh) <= MaxRefresh
  /\ Cardinality(s.clients) <= MaxClients
  /\ \A p \in Principals :
       Len(s.sessions[p]) <= MaxSessions /\ NoDuplicates(s.sessions[p])

CapacityInv ==
  /\ Cardinality(codes) <= MaxCodes
  /\ Fits(DurableSnapshot) /\ Fits(disk) /\ \A t \in Tasks : Fits(snap[t])

Registered  == {d \in DcrClients : registeredAt[d] # Never}
Prepared(t) == pc[t] \in {"saving", "saved", "half", "publishing"}

\* No clock is ahead, and no grant is younger than the snapshot under way.
ClocksOK ==
  /\ \A c \in Codes : codeAt[c] <= now
  /\ \A g \in Grants : issuedAt[g] <= now
  /\ \A t \in Tasks :
       at[t] <= now /\ (Prepared(t) => \A g \in Grants : issuedAt[g] <= at[t])

\* Requests name what they were given.
RequestOK(t) ==
  /\ pc[t] # "idle" => job[t] \in Jobs
  /\ job[t].kind = "register" => job[t].of \in Registered
  /\ job[t].kind = "exchange" => job[t].of \in Offered \cup answered

\* What tasks have committed is on record; only exchanges draw a grant.
JobsOK ==
  /\ clients \cup disk.clients \subseteq Registered
  /\ \A t \in Tasks :
       /\ RequestOK(t)
       /\ pc[t] \in {"saved", "half"} => job[t].kind \in {"exchange", "cleanup"}
       /\ Prepared(t) /\ job[t].kind # "exchange" => new[t] = None
       /\ job[t].kind = "exchange" /\ Publishing(t) =>
            parent[new[t]] = job[t].of /\ issuedAt[new[t]] = at[t]

\* The snapshot of the holder of the gate is the memory, but for the maps that its
\* job changes and that it has not published yet; once saved it is the file.
CopyOK(t) ==
  Prepared(t) =>
    LET s    == snap[t]
        kind == job[t].kind
        live == Unexpired(clients, ClientExpiry, at[t])
    IN  /\ kind \in {"register", "remember"} \/ pc[t] \in {"half", "publishing"} =>
             s.access = access
        /\ kind \in {"register", "remember"} \/ pc[t] = "publishing" =>
             s.refresh = refresh
        /\ s.clients = CASE kind = "register" -> live \cup {job[t].of}
                         [] kind = "cleanup"  -> live
                         [] OTHER             -> clients
        /\ s.sessions = IF kind # "remember" THEN sessions
                        ELSE [sessions EXCEPT ![job[t].of[1]] =
                                RememberBounded(@, job[t].of[2], MaxSessions)]
        /\ Publishing(t) /\ Durable => disk = s

\* By time, what keep lacks of old has expired, or was pushed out for drawn.
Evicts(old, keep, drawn, max, expiry, time) ==
  \A x \in old \ keep :
    \/ expiry[x] <= time
    \/ /\ Cardinality(keep) = max
       /\ \A stays \in keep \ {drawn} : expiry[x] <= expiry[stays]

\* A snapshot drops tokens only for a reason.
TokensOK(t) ==
  /\ pc[t] \in {"saving", "saved"} =>
       Evicts(access, snap[t].access, new[t], MaxAccess, AccessExpiry, now)
  /\ pc[t] \in {"saving", "saved", "half"} =>
       /\ snap[t].refresh \subseteq refresh \cup {new[t]}
       /\ Evicts(refresh \ {job[t].of}, snap[t].refresh, new[t], MaxRefresh,
                 RefreshExpiry, now)
  /\ pc[t] = "saving" /\ job[t].kind = "exchange" => new[t] \in snap[t].refresh

StorageInv ==
  /\ CapacityInv /\ ClocksOK /\ JobsOK
  /\ \A t \in Tasks : CopyOK(t) /\ TokensOK(t)
  /\ MemoryMatchesDisk

DurableInv == CredentialInv /\ StorageInv

-----------------------------------------------------------------------------
(* Type correctness *)

LEMMA ExpiryFunctions ==
  ASSUME TypeOK
  PROVE  /\ CodeExpiry \in [Codes -> Nat]
         /\ AccessExpiry \in [Grants -> Nat]
         /\ RefreshExpiry \in [Grants -> Nat]
         /\ ClientExpiry \in [DcrClients -> Nat]
BY ConfigAssumption
   DEF TypeOK, CodeExpiry, AccessExpiry, RefreshExpiry, ClientExpiry

\* insert_bounded neither invents nor loses the kind of the keys.
LEMMA InsertBoundedType ==
  ASSUME NEW T, NEW S \in SUBSET T, NEW key \in T, NEW max, NEW expiry, NEW at0,
         NEW R \in InsertBounded(S, key, max, expiry, at0)
  PROVE  R \subseteq S \cup {key} /\ R \in SUBSET T
BY DEF InsertBounded, Unexpired

\* A task that ends leaves well-typed task state.
LEMMA DoneType ==
  ASSUME TypeOK, NEW t \in Tasks, Done(t)
  PROVE  /\ gate' \in Tasks \cup {None}
         /\ pc' \in [Tasks -> {"idle", "queued", "holding", "saving", "saved",
                               "half", "publishing"}]
         /\ job' \in [Tasks -> Jobs \cup {NoJob}]
         /\ snap' \in [Tasks -> Snapshots]
         /\ at' \in [Tasks -> Nat]
         /\ new' \in [Tasks -> Grants \cup {None}]
<1>1. EmptySnapshot \in Snapshots
  BY DEF EmptySnapshot, Snapshots
<1> QED
  BY <1>1 DEF TypeOK, Done, Never

\* So does a task that has prepared a well-typed snapshot.
LEMMA PrepareType ==
  ASSUME TypeOK, NEW t \in Tasks, NEW s \in Snapshots,
         NEW g \in Grants \cup {None}, Prepare(t, s, g), codes' \subseteq Codes
  PROVE  TypeOK'
BY DEF TypeOK, Prepare, history

LEMMA QueueType ==
  ASSUME TypeOK, NEW t \in Tasks, NEW j \in Jobs, Queue(t, j),
         registeredAt' \in [DcrClients -> Nat]
  PROVE  TypeOK'
BY DEF TypeOK, Queue, memory

LEMMA DurableSnapshotType ==
  ASSUME TypeOK
  PROVE  /\ DurableSnapshot \in Snapshots
         /\ Live \in Snapshots
BY DEF TypeOK, DurableSnapshot, Live, Snapshots, Unexpired

LEMMA JobTypes ==
  ASSUME TypeOK, NEW t \in Tasks
  PROVE  /\ job[t].kind = "exchange" => job[t].of \in Credentials
         /\ job[t].kind = "register" => job[t].of \in DcrClients
         /\ job[t].kind = "remember" => job[t].of \in Principals \X SessionIds
<1>1. job[t] \in Jobs \cup {NoJob}
  BY DEF TypeOK
<1> QED
  BY <1>1 DEF Jobs, NoJob, ExchangeJobs, RegisterJobs, RememberJobs, CleanupJobs

LEMMA InitType == Init => TypeOK
BY DEF Init, TypeOK, EmptySnapshot, Snapshots, Never

LEMMA StepType ==
  ASSUME TypeOK, PublishingOK, NEW t \in Tasks, Step(t)
  PROVE  TypeOK'
<1>1. CASE Refuse(t)
  BY <1>1, DoneType DEF TypeOK, Refuse, memory, history
<1>2. CASE PrepareExchange(t)
  <2>1. PICK g \in Grants \ Committed :
        \E tokens \in InsertBounded(access, g, MaxAccess, AccessExpiry, now),
           rotated \in InsertBounded(refresh \ {job[t].of}, g, MaxRefresh,
                                     RefreshExpiry, now) :
          Prepare(t, [DurableSnapshot EXCEPT !.access = tokens,
                                             !.refresh = rotated], g)
    BY <1>2 DEF PrepareExchange
  <2>2. PICK tokens \in InsertBounded(access, g, MaxAccess, AccessExpiry, now),
             rotated \in InsertBounded(refresh \ {job[t].of}, g, MaxRefresh,
                                       RefreshExpiry, now) :
          Prepare(t, [DurableSnapshot EXCEPT !.access = tokens,
                                             !.refresh = rotated], g)
    BY <2>1
  <2>3. tokens \in SUBSET Grants /\ rotated \in SUBSET Grants
    <3>1. /\ access \in SUBSET Grants /\ refresh \ {job[t].of} \in SUBSET Grants
          /\ g \in Grants
      BY DEF TypeOK
    <3> QED
      BY <3>1, InsertBoundedType
  <2>4. [DurableSnapshot EXCEPT !.access = tokens, !.refresh = rotated]
          \in Snapshots
    BY <2>3, DurableSnapshotType DEF Snapshots
  <2>5. codes' \subseteq Codes
    BY <1>2 DEF PrepareExchange, TypeOK
  <2> QED
    BY <2>2, <2>4, <2>5, PrepareType
<1>3. CASE PrepareRegistration(t)
  <2>1. job[t].of \in DcrClients
    BY <1>3, JobTypes DEF PrepareRegistration, Holds
  <2>2. [DurableSnapshot EXCEPT !.clients =
           Unexpired(clients, ClientExpiry, now) \cup {job[t].of}] \in Snapshots
    BY <2>1, DurableSnapshotType DEF Snapshots, TypeOK, Unexpired
  <2>3. codes' \subseteq Codes
    BY <1>3 DEF PrepareRegistration, TypeOK
  <2> QED
    BY <1>3, <2>2, <2>3, PrepareType DEF PrepareRegistration
<1>4. CASE PrepareRemember(t)
  <2> DEFINE p == job[t].of[1]
             s == job[t].of[2]
  <2>1. p \in Principals /\ s \in SessionIds
    BY <1>4, JobTypes DEF PrepareRemember, Holds
  <2>2. sessions[p] \in Seq(SessionIds)
    BY <2>1 DEF TypeOK
  <2>3. RememberBounded(sessions[p], s, MaxSessions) \in Seq(SessionIds)
    BY <2>1, <2>2, RememberBoundedFits, ConfigAssumption
  <2>4. [DurableSnapshot EXCEPT
           !.sessions[p] = RememberBounded(@, s, MaxSessions)] \in Snapshots
    BY <2>1, <2>3, DurableSnapshotType DEF Snapshots, DurableSnapshot
  <2>5. codes' \subseteq Codes
    BY <1>4 DEF PrepareRemember, TypeOK
  <2> QED
    BY <1>4, <2>4, <2>5, PrepareType DEF PrepareRemember
<1>5. CASE SkipCleanup(t)
  BY <1>5, DoneType DEF TypeOK, SkipCleanup, Unexpired, history
<1>6. CASE PrepareCleanup(t)
  <2>1. codes' \subseteq Codes
    BY <1>6 DEF PrepareCleanup, TypeOK, Unexpired
  <2> QED
    BY <1>6, <2>1, PrepareType, DurableSnapshotType DEF PrepareCleanup
<1>7. CASE Save(t)
  <2>1. job[t].kind = "exchange" => job[t].of \in Credentials
    BY JobTypes
  <2> QED
    BY <1>7, <2>1 DEF TypeOK, Save, memory
<1>8. CASE SaveFails(t)
  BY <1>8, DoneType DEF TypeOK, SaveFails, memory, history
<1>9. CASE PublishAccess(t)
  BY <1>9 DEF TypeOK, PublishAccess, Snapshots, history
<1>10. CASE PublishRefresh(t)
  BY <1>10 DEF TypeOK, PublishRefresh, Snapshots, history
<1>11. CASE FinishExchange(t)
  <2>1. answered' \subseteq Grants
    BY <1>11 DEF TypeOK, FinishExchange, PublishingOK, Publishing, Publishes,
                 Committed
  <2> QED
    BY <1>11, <2>1, DoneType DEF TypeOK, FinishExchange
<1>12. CASE FinishCleanup(t)
  BY <1>12, DoneType DEF TypeOK, FinishCleanup, Unexpired, history
<1>13. CASE FinishRegistration(t)
  <2>1. job[t].of \in DcrClients
    BY <1>13, JobTypes DEF FinishRegistration, Publishes
  <2> QED
    BY <1>13, <2>1, DoneType DEF TypeOK, FinishRegistration, Unexpired, history
<1>14. CASE FinishRemember(t)
  BY <1>14, DoneType DEF TypeOK, FinishRemember, Snapshots, history
<1> QED
  BY <1>1, <1>2, <1>3, <1>4, <1>5, <1>6, <1>7, <1>8, <1>9, <1>10, <1>11, <1>12,
     <1>13, <1>14 DEF Step

LEMMA NextType ==
  ASSUME TypeOK, PublishingOK, [Next]_vars
  PROVE  TypeOK'
<1>1. CASE Tick
  BY <1>1 DEF TypeOK, Tick, memory, taskVars, history
<1>2. CASE \E c \in Codes : Authorize(c)
  <2>1. PICK c \in Codes : Authorize(c)
    BY <1>2
  <2>2. codes' \subseteq Codes
    <3>1. codes \in SUBSET Codes
      BY DEF TypeOK
    <3> QED
      BY <2>1, <3>1, InsertBoundedType DEF Authorize
  <2> QED
    BY <2>1, <2>2 DEF TypeOK, Authorize, taskVars
<1>3. ASSUME NEW t \in Tasks, Arrive(t)
      PROVE  TypeOK'
  <2>1. ASSUME NEW c \in Credentials, RequestExchange(t, c)
        PROVE  TypeOK'
    <3>1. [kind |-> "exchange", of |-> c] \in Jobs
      BY DEF Jobs, ExchangeJobs
    <3> QED
      BY <2>1, <3>1, QueueType DEF RequestExchange, TypeOK
  <2>2. ASSUME NEW d \in DcrClients, RequestRegistration(t, d)
        PROVE  TypeOK'
    <3>1. [kind |-> "register", of |-> d] \in Jobs
      BY DEF Jobs, RegisterJobs
    <3> QED
      BY <2>2, <3>1, QueueType DEF RequestRegistration, TypeOK
  <2>3. ASSUME NEW p \in Principals, NEW s \in SessionIds,
               RequestRemember(t, p, s)
        PROVE  TypeOK'
    <3>1. [kind |-> "remember", of |-> <<p, s>>] \in Jobs
      BY DEF Jobs, RememberJobs
    <3> QED
      BY <2>3, <3>1, QueueType DEF RequestRemember, TypeOK
  <2>4. CASE StartCleanup(t)
    <3>1. [kind |-> "cleanup", of |-> None] \in Jobs
      BY DEF Jobs, CleanupJobs
    <3> QED
      BY <2>4, <3>1, QueueType DEF StartCleanup, TypeOK
  <2> QED
    BY <1>3, <2>1, <2>2, <2>3, <2>4 DEF Arrive
<1>4. ASSUME NEW t \in Tasks, Disconnect(t)
      PROVE  TypeOK'
  BY <1>4, DoneType DEF TypeOK, Disconnect, memory, history
<1>5. ASSUME NEW t \in Tasks, Acquire(t)
      PROVE  TypeOK'
  BY <1>5 DEF TypeOK, Acquire, memory, history
<1>6. CASE Restart
  <2>1. ASSUME NEW p \in Principals
        PROVE  DropOldest(disk.sessions[p], MaxSessions) \in Seq(SessionIds)
    <3>1. disk.sessions[p] \in Seq(SessionIds) /\ MaxSessions \in Nat
      BY ConfigAssumption DEF TypeOK, Snapshots
    <3> QED
      BY <3>1, DropOldestType
  <2>2. /\ codes' \subseteq Codes /\ access' \subseteq Grants
        /\ refresh' \subseteq Grants /\ clients' \subseteq DcrClients
    BY <1>6 DEF TypeOK, Restart, LoadFrom, Snapshots, Unexpired
  <2>3. sessions' \in [Principals -> Seq(SessionIds)]
    BY <1>6, <2>1 DEF Restart, LoadFrom
  <2>4. EmptySnapshot \in Snapshots
    BY DEF EmptySnapshot, Snapshots
  <2> QED
    BY <1>6, <2>2, <2>3, <2>4 DEF TypeOK, Restart, LoadFrom, history, Never
<1>7. CASE UNCHANGED vars
  BY <1>7 DEF TypeOK, vars, memory, taskVars, history
<1> QED
  BY <1>1, <1>2, <1>3, <1>4, <1>5, <1>6, <1>7, StepType DEF Next

-----------------------------------------------------------------------------
(* Credentials are one-time *)

\* Nothing is committed but in Save.
LEMMA SameHistory ==
  ASSUME UNCHANGED <<parent, codeAt>>
  PROVE  /\ Committed' = Committed
         /\ Spent' = Spent
         /\ Offered' = Offered
BY DEF Committed, Spent, Offered

\* While the holder of the gate has not committed anything, what is redeemable
\* is unspent.
LEMMA RedeemableIsUnspent ==
  ASSUME CredentialInv, NEW t \in Tasks, pc[t] \in {"holding", "saving"}
  PROVE  (codes \cup refresh) \cap Spent = {}
<1>1. gate = t
  BY DEF CredentialInv, GateHeld
<1>2. ASSUME NEW u \in Tasks, gate = u, Publishing(u)
      PROVE  FALSE
  BY <1>1, <1>2 DEF Publishing
<1> QED
  BY <1>2 DEF CredentialInv, SpentIsGone

\* The end of a task preserves the invariant, if the task leaves behind no
\* spent credential.
LEMMA Ending ==
  ASSUME CredentialInv, NEW t \in Tasks, Done(t), TypeOK',
         gate = t \/ pc[t] = "queued",
         UNCHANGED <<now, access, refresh, disk, parent, codeAt>>,
         codes' \subseteq codes, answered' \subseteq Committed,
         \A c \in Spent :
           Publishing(t) /\ job[t] = [kind |-> "exchange", of |-> c]
             => c \notin codes' \cup refresh
  PROVE  CredentialInv'
<1>1. /\ GateHeld /\ Known /\ SavingOK /\ PublishingOK /\ VisibleIsCommitted
      /\ SpentIsGone /\ OneWinner /\ TypeOK
  BY DEF CredentialInv
<1>0. Committed' = Committed /\ Spent' = Spent /\ Offered' = Offered
  BY SameHistory
<1>2. \A u \in Tasks :
        /\ u # t => pc'[u] = pc[u] /\ job'[u] = job[u] /\ snap'[u] = snap[u]
                     /\ new'[u] = new[u]
        /\ pc'[t] = "idle"
  BY <1>1 DEF Done, TypeOK
<1>3. GateHeld'
  BY <1>1, <1>2 DEF GateHeld, Done
<1>4. Known'
  BY <1>0, <1>1 DEF Known
<1>5. SavingOK'
  BY <1>0, <1>1, <1>2 DEF SavingOK
<1>6. PublishingOK'
  BY <1>0, <1>1, <1>2 DEF PublishingOK, Publishing
<1>7. VisibleIsCommitted'
  BY <1>0, <1>1 DEF VisibleIsCommitted
<1>8. SpentIsGone'
  <2> SUFFICES ASSUME NEW c \in Spent, c \in codes' \cup refresh
               PROVE  \E u \in Tasks :
                        /\ gate' = u /\ Publishing(u)'
                        /\ job'[u] = [kind |-> "exchange", of |-> c]
    BY <1>0, <1>1 DEF SpentIsGone
  <2>1. PICK u \in Tasks : /\ gate = u /\ Publishing(u)
                           /\ job[u] = [kind |-> "exchange", of |-> c]
    BY <1>1 DEF SpentIsGone
  <2>2. u # t
    BY <2>1
  <2> QED
    BY <1>2, <2>1, <2>2 DEF Done, Publishing
<1>9. OneWinner'
  BY <1>0, <1>1 DEF OneWinner
<1> QED
  BY <1>3, <1>4, <1>5, <1>6, <1>7, <1>8, <1>9 DEF CredentialInv

\* Preparing a snapshot preserves the invariant, if what it will commit may be
\* committed.
LEMMA Preparing ==
  ASSUME CredentialInv, NEW t \in Tasks, pc[t] = "holding", TypeOK',
         NEW s, NEW g, Prepare(t, s, g), codes' \subseteq codes,
         IF job[t].kind = "exchange"
         THEN /\ g \in Grants \ Committed
              /\ job[t].of \in (Offered \cup Committed) \ Spent
              /\ s.access \subseteq Committed \cup {g}
              /\ s.refresh \subseteq (Committed \ (Spent \cup {job[t].of})) \cup {g}
         ELSE /\ s.access \subseteq Committed
              /\ s.refresh \subseteq Committed \ Spent
  PROVE  CredentialInv'
<1>1. /\ GateHeld /\ Known /\ SavingOK /\ PublishingOK /\ VisibleIsCommitted
      /\ SpentIsGone /\ OneWinner /\ TypeOK
  BY DEF CredentialInv
<1>2. /\ UNCHANGED <<now, access, refresh, disk, gate, job, parent, codeAt, answered>>
      /\ pc'[t] = "saving" /\ snap'[t] = s /\ new'[t] = g
      /\ \A u \in Tasks \ {t} :
            pc'[u] = pc[u] /\ snap'[u] = snap[u] /\ new'[u] = new[u]
  BY <1>1 DEF Prepare, TypeOK, history
<1>3. Committed' = Committed /\ Spent' = Spent /\ Offered' = Offered
  BY <1>2, SameHistory
<1>4. GateHeld'
  BY <1>1, <1>2 DEF GateHeld
<1>5. Known'
  BY <1>1, <1>2, <1>3 DEF Known
<1>6. SavingOK'
  BY <1>1, <1>2, <1>3 DEF SavingOK
<1>7. PublishingOK'
  BY <1>1, <1>2, <1>3 DEF PublishingOK, Publishing
<1>8. VisibleIsCommitted'
  BY <1>1, <1>2, <1>3 DEF VisibleIsCommitted
<1>9. SpentIsGone'
  BY <1>1, <1>2, <1>3, RedeemableIsUnspent DEF SpentIsGone
<1>10. OneWinner'
  BY <1>1, <1>2, <1>3 DEF OneWinner
<1> QED
  BY <1>4, <1>5, <1>6, <1>7, <1>8, <1>9, <1>10 DEF CredentialInv

\* A login hands out a code that nobody can have spent.
LEMMA AuthorizeSafe ==
  ASSUME CredentialInv, NEW c \in Codes, Authorize(c), TypeOK'
  PROVE  CredentialInv'
<1>1. /\ GateHeld /\ Known /\ SavingOK /\ PublishingOK /\ VisibleIsCommitted
      /\ SpentIsGone /\ OneWinner /\ TypeOK
  BY DEF CredentialInv
<1>2. codes' \subseteq codes \cup {c}
  <2>1. codes \in SUBSET Codes
    BY <1>1 DEF TypeOK
  <2> QED
    BY <2>1, InsertBoundedType DEF Authorize
<1>3. UNCHANGED <<now, access, refresh, disk, gate, pc, job, snap, new, parent,
                  answered>>
  BY DEF Authorize, taskVars
<1>4. Committed' = Committed /\ Spent' = Spent
  BY <1>3 DEF Committed, Spent
<1>5. Offered' = Offered \cup {c} /\ c \notin Offered
  BY <1>1 DEF Authorize, Offered, TypeOK, Known
<1>6. c \notin Spent
  <2>1. c \notin Committed
    BY IdAssumption DEF Committed
  <2> QED
    BY <1>1, <1>5, <2>1 DEF Known
<1>7. GateHeld'
  BY <1>1, <1>3 DEF GateHeld
<1>8. Known'
  BY <1>1, <1>2, <1>3, <1>4, <1>5 DEF Known, EmptySnapshot
<1>9. SavingOK'
  BY <1>1, <1>3, <1>4, <1>5 DEF SavingOK
<1>10. PublishingOK'
  BY <1>1, <1>3, <1>4 DEF PublishingOK, Publishing
<1>11. VisibleIsCommitted'
  BY <1>1, <1>3, <1>4 DEF VisibleIsCommitted
<1>12. SpentIsGone'
  BY <1>1, <1>2, <1>3, <1>4, <1>6 DEF SpentIsGone, Publishing
<1>13. OneWinner'
  BY <1>1, <1>3, <1>4 DEF OneWinner
<1> QED
  BY <1>7, <1>8, <1>9, <1>10, <1>11, <1>12, <1>13 DEF CredentialInv

\* A step that only moves a task from one unprepared phase to another.
LEMMA WaitingSafe ==
  ASSUME CredentialInv, NEW t \in Tasks, TypeOK',
         UNCHANGED <<now, codes, access, refresh, disk, snap, new, parent, codeAt,
                     answered>>,
         pc[t] \in {"idle", "queued"},
         pc' = [pc EXCEPT ![t] = IF gate' = gate THEN "queued" ELSE "holding"],
         gate' = gate \/ (gate = None /\ gate' = t),
         \A u \in Tasks \ {t} : job'[u] = job[u]
  PROVE  CredentialInv'
<1>1. /\ GateHeld /\ Known /\ SavingOK /\ PublishingOK /\ VisibleIsCommitted
      /\ SpentIsGone /\ OneWinner /\ TypeOK
  BY DEF CredentialInv
<1>2. /\ pc'[t] \in {"queued", "holding"}
      /\ \A u \in Tasks \ {t} : pc'[u] = pc[u]
  BY <1>1 DEF TypeOK
<1>3. Committed' = Committed /\ Spent' = Spent /\ Offered' = Offered
  BY SameHistory
<1>4. GateHeld'
  <2>1. CASE gate' = gate
    BY <1>1, <1>2, <2>1 DEF GateHeld, TypeOK
  <2>2. CASE gate = None /\ gate' = t
    BY <1>1, <1>2, <2>2, IdAssumption DEF GateHeld
  <2> QED
    BY <2>1, <2>2
<1>5. Known'
  BY <1>1, <1>3 DEF Known, EmptySnapshot
<1>6. SavingOK'
  BY <1>1, <1>2, <1>3 DEF SavingOK
<1>7. PublishingOK'
  BY <1>1, <1>2, <1>3 DEF PublishingOK, Publishing
<1>8. VisibleIsCommitted'
  BY <1>1, <1>3 DEF VisibleIsCommitted
<1>9. SpentIsGone'
  <2> SUFFICES ASSUME NEW c \in Spent, c \in codes \cup refresh
               PROVE  \E u \in Tasks :
                        /\ gate' = u /\ Publishing(u)'
                        /\ job'[u] = [kind |-> "exchange", of |-> c]
    BY <1>1, <1>3 DEF SpentIsGone
  <2>1. PICK u \in Tasks : /\ gate = u /\ Publishing(u)
                           /\ job[u] = [kind |-> "exchange", of |-> c]
    BY <1>1 DEF SpentIsGone
  <2>2. u # t /\ u # None
    BY <2>1, IdAssumption DEF Publishing
  <2> QED
    BY <1>2, <2>1, <2>2 DEF Publishing
<1>10. OneWinner'
  BY <1>1, <1>3 DEF OneWinner
<1> QED
  BY <1>4, <1>5, <1>6, <1>7, <1>8, <1>9, <1>10 DEF CredentialInv

\* Saving commits: one grant, for one credential that was not spent before.
LEMMA SaveSafe ==
  ASSUME CredentialInv, NEW t \in Tasks, Save(t), TypeOK'
  PROVE  CredentialInv'
<1>1. /\ GateHeld /\ Known /\ SavingOK /\ PublishingOK /\ VisibleIsCommitted
      /\ SpentIsGone /\ OneWinner /\ TypeOK
  BY DEF CredentialInv
<1>2. /\ UNCHANGED <<now, codes, access, refresh, gate, job, snap, new, codeAt,
                     answered>>
      /\ pc[t] = "saving" /\ pc'[t] \in {"saved", "publishing"}
      /\ job[t].kind = "exchange" => pc'[t] = "saved"
      /\ disk' = snap[t] \/ (disk' = disk /\ ~Durable)
      /\ \A u \in Tasks \ {t} : pc'[u] = pc[u]
  BY <1>1 DEF Save, TypeOK, memory
<1>3. /\ gate = t
      /\ \A u \in Tasks \ {t} : pc[u] \in {"idle", "queued"}
  BY <1>1, <1>2 DEF GateHeld
<1>4. (codes \cup refresh) \cap Spent = {}
  BY <1>2, RedeemableIsUnspent
<1>5. Offered' = Offered
  BY <1>2 DEF Offered
<1>6. ~Durable => disk'.access = {} /\ disk'.refresh = {} /\ disk' = EmptySnapshot
  BY <1>1 DEF Known, EmptySnapshot, Save
<1>7. CASE job[t].kind = "exchange"
  <2> DEFINE c == job[t].of
             g == new[t]
  <2>1. /\ g \in Grants \ Committed
        /\ c \in (Offered \cup Committed) \ Spent
        /\ snap[t].access \subseteq Committed \cup {g}
        /\ snap[t].refresh \subseteq (Committed \ (Spent \cup {c})) \cup {g}
    BY <1>1, <1>2, <1>7 DEF SavingOK
  <2>2. c # None /\ g \notin Offered
    BY <2>1, IdAssumption DEF Offered, Committed
  <2>3. parent' = [parent EXCEPT ![g] = c]
    BY <1>7 DEF Save
  <2>4. Committed' = Committed \cup {g}
    BY <1>1, <2>1, <2>2, <2>3 DEF Committed, TypeOK
  <2>5. Spent' = Spent \cup {c}
    <3>1. parent[g] = None /\ parent'[g] = c
      BY <1>1, <2>1, <2>3 DEF Committed, TypeOK
    <3>2. \A h \in Committed : h # g /\ parent'[h] = parent[h]
      BY <1>1, <2>1, <2>3 DEF Committed, TypeOK
    <3> QED
      BY <2>4, <3>1, <3>2 DEF Spent
  <2>6. g \notin Spent'
    BY <1>1, <2>1, <2>2, <2>5 DEF Known
  <2>7. snap[t].refresh \subseteq Committed' \ Spent'
    BY <2>1, <2>4, <2>5, <2>6
  <2>8. GateHeld'
    BY <1>2, <1>3 DEF GateHeld
  <2>9. Known'
    BY <1>1, <1>2, <1>5, <1>6, <2>1, <2>4, <2>5 DEF Known, EmptySnapshot
  <2>10. SavingOK'
    BY <1>2, <1>3 DEF SavingOK
  <2>11. PublishingOK'
    BY <1>2, <1>3, <1>7, <2>1, <2>4, <2>7 DEF PublishingOK, Publishing
  <2>12. VisibleIsCommitted'
    BY <1>1, <1>2, <2>1, <2>4, <2>7 DEF VisibleIsCommitted
  <2>13. SpentIsGone'
    <3>1. ASSUME NEW k \in Spent'
          PROVE  k \notin disk'.refresh
      BY <1>2, <1>6, <2>7, <3>1
    <3>2. job[t] = [kind |-> "exchange", of |-> c]
      BY <1>1, <1>7 DEF TypeOK, Jobs, NoJob, ExchangeJobs, RegisterJobs,
                        RememberJobs, CleanupJobs
    <3>3. ASSUME NEW k \in Spent', k \in codes' \cup refresh'
          PROVE  k = c
      BY <1>2, <1>4, <2>5, <3>3
    <3>4. gate' = t /\ Publishing(t)'
      BY <1>2, <1>3 DEF Publishing
    <3> QED
      BY <1>2, <3>1, <3>2, <3>3, <3>4 DEF SpentIsGone
  <2>14. OneWinner'
    <3>1. \A h \in Committed : parent'[h] = parent[h] /\ parent[h] # c
      BY <1>1, <2>1, <2>3 DEF Spent, Committed, TypeOK
    <3>2. parent'[g] = c
      BY <1>1, <2>1, <2>3 DEF TypeOK
    <3> QED
      BY <1>1, <2>4, <3>1, <3>2 DEF OneWinner
  <2> QED
    BY <2>8, <2>9, <2>10, <2>11, <2>12, <2>13, <2>14 DEF CredentialInv
<1>8. CASE job[t].kind # "exchange"
  <2>1. parent' = parent
    BY <1>8 DEF Save
  <2>2. Committed' = Committed /\ Spent' = Spent
    BY <2>1 DEF Committed, Spent
  <2>3. /\ snap[t].access \subseteq Committed
        /\ snap[t].refresh \subseteq Committed \ Spent
    BY <1>1, <1>2, <1>8 DEF SavingOK
  <2>4. GateHeld'
    BY <1>2, <1>3 DEF GateHeld
  <2>5. Known'
    BY <1>1, <1>2, <1>5, <1>6, <2>2 DEF Known, EmptySnapshot
  <2>6. SavingOK'
    BY <1>2, <1>3 DEF SavingOK
  <2>7. PublishingOK'
    BY <1>2, <1>3, <1>4, <1>8, <2>2, <2>3 DEF PublishingOK, Publishing
  <2>8. VisibleIsCommitted'
    BY <1>1, <1>2, <2>2, <2>3 DEF VisibleIsCommitted
  <2>9. SpentIsGone'
    BY <1>1, <1>2, <1>4, <2>2, <2>3 DEF SpentIsGone
  <2>10. OneWinner'
    BY <1>1, <2>1, <2>2 DEF OneWinner
  <2> QED
    BY <2>4, <2>5, <2>6, <2>7, <2>8, <2>9, <2>10 DEF CredentialInv
<1> QED
  BY <1>7, <1>8

\* Publication brings the memory to what is committed already.
LEMMA PublishSafe ==
  ASSUME CredentialInv, NEW t \in Tasks, PublishAccess(t) \/ PublishRefresh(t),
         TypeOK'
  PROVE  CredentialInv'
<1>1. /\ GateHeld /\ Known /\ SavingOK /\ PublishingOK /\ VisibleIsCommitted
      /\ SpentIsGone /\ OneWinner /\ TypeOK
  BY DEF CredentialInv
<1>2. /\ UNCHANGED <<now, codes, disk, gate, job, snap, new, parent, codeAt,
                     answered>>
      /\ access' \in {access, snap[t].access}
      /\ \/ pc'[t] = "half" /\ refresh' = refresh
         \/ pc'[t] = "publishing" /\ refresh' = snap[t].refresh
      /\ pc[t] \in {"saved", "half"}
      /\ \A u \in Tasks \ {t} : pc'[u] = pc[u]
  BY <1>1 DEF PublishAccess, PublishRefresh, TypeOK, history
<1>3. /\ gate = t
      /\ \A u \in Tasks \ {t} : pc[u] \in {"idle", "queued"}
  BY <1>1, <1>2 DEF GateHeld
<1>4. Committed' = Committed /\ Spent' = Spent /\ Offered' = Offered
  BY <1>2, SameHistory
<1>5. /\ snap[t].access \subseteq Committed
      /\ snap[t].refresh \subseteq Committed \ Spent
  BY <1>1, <1>2 DEF PublishingOK
<1>6. GateHeld'
  BY <1>2, <1>3 DEF GateHeld
<1>7. Known'
  BY <1>1, <1>2, <1>4 DEF Known, EmptySnapshot
<1>8. SavingOK'
  BY <1>2, <1>3 DEF SavingOK
<1>9. PublishingOK'
  BY <1>1, <1>2, <1>3, <1>4, <1>5 DEF PublishingOK, Publishing
<1>10. VisibleIsCommitted'
  BY <1>1, <1>2, <1>4, <1>5 DEF VisibleIsCommitted
<1>11. SpentIsGone'
  <2>1. Publishing(t) /\ Publishing(t)'
    BY <1>2 DEF Publishing
  <2>2. ASSUME NEW c \in Spent, c \in codes' \cup refresh'
        PROVE  job[t] = [kind |-> "exchange", of |-> c]
    BY <1>1, <1>2, <1>3, <1>5, <2>2 DEF SpentIsGone
  <2> QED
    BY <1>1, <1>2, <1>3, <1>4, <2>1, <2>2 DEF SpentIsGone
<1>12. OneWinner'
  BY <1>1, <1>2, <1>4 DEF OneWinner
<1> QED
  BY <1>6, <1>7, <1>8, <1>9, <1>10, <1>11, <1>12 DEF CredentialInv

LEMMA StepSafe ==
  ASSUME CredentialInv, NEW t \in Tasks, Step(t), TypeOK'
  PROVE  CredentialInv'
<1>1. /\ GateHeld /\ PublishingOK /\ VisibleIsCommitted /\ TypeOK
  BY DEF CredentialInv
<1>2. pc[t] \notin {"idle", "queued"} => gate = t
  BY <1>1 DEF GateHeld
<1>3. CASE Refuse(t)
  BY <1>2, <1>3, Ending DEF Refuse, Holds, Publishing, memory, history,
                            CredentialInv, VisibleIsCommitted
<1>4. CASE PrepareExchange(t)
  <2>1. PICK g \in Grants \ Committed :
        \E tokens \in InsertBounded(access, g, MaxAccess, AccessExpiry, now),
           rotated \in InsertBounded(refresh \ {job[t].of}, g, MaxRefresh,
                                     RefreshExpiry, now) :
          Prepare(t, [DurableSnapshot EXCEPT !.access = tokens,
                                             !.refresh = rotated], g)
    BY <1>4 DEF PrepareExchange
  <2>2. PICK tokens \in InsertBounded(access, g, MaxAccess, AccessExpiry, now),
             rotated \in InsertBounded(refresh \ {job[t].of}, g, MaxRefresh,
                                       RefreshExpiry, now) :
          Prepare(t, [DurableSnapshot EXCEPT !.access = tokens,
                                             !.refresh = rotated], g)
    BY <2>1
  <2> DEFINE s == [DurableSnapshot EXCEPT !.access = tokens, !.refresh = rotated]
  <2>3. /\ tokens \subseteq access \cup {g}
        /\ rotated \subseteq (refresh \ {job[t].of}) \cup {g}
    <3>1. access \in SUBSET Grants /\ refresh \ {job[t].of} \in SUBSET Grants
      BY <1>1 DEF TypeOK
    <3> QED
      BY <3>1, InsertBoundedType
  <2>4. s.access = tokens /\ s.refresh = rotated
    BY DEF DurableSnapshot
  <2>5. /\ pc[t] = "holding" /\ job[t].kind = "exchange" /\ codes' = codes
        /\ job[t].of \in codes \cup refresh
    BY <1>4 DEF PrepareExchange, Holds, Redeemable
  <2>6. (codes \cup refresh) \cap Spent = {}
    BY <2>5, RedeemableIsUnspent
  <2>7. job[t].of \in (Offered \cup Committed) \ Spent
    BY <2>5, <2>6 DEF CredentialInv, Known, VisibleIsCommitted
  <2>8. /\ s.access \subseteq Committed \cup {g}
        /\ s.refresh \subseteq (Committed \ (Spent \cup {job[t].of})) \cup {g}
    BY <1>1, <2>3, <2>4, <2>6 DEF VisibleIsCommitted
  <2> HIDE DEF s
  <2>9. Prepare(t, s, g)
    BY <2>2 DEF s
  <2> QED
    BY <2>5, <2>7, <2>8, <2>9, Preparing
<1>5. ASSUME NEW s, Prepare(t, s, None), codes' \subseteq codes,
             s.access \subseteq access, s.refresh \subseteq refresh,
             pc[t] = "holding", job[t].kind # "exchange"
      PROVE  CredentialInv'
  <2>1. (codes \cup refresh) \cap Spent = {}
    BY <1>5, RedeemableIsUnspent
  <2>2. s.access \subseteq Committed /\ s.refresh \subseteq Committed \ Spent
    BY <1>1, <1>5, <2>1 DEF VisibleIsCommitted
  <2> QED
    BY <1>5, <2>2, Preparing
<1>6. CASE PrepareRegistration(t)
  <2> DEFINE s == [DurableSnapshot EXCEPT !.clients =
                     Unexpired(clients, ClientExpiry, now) \cup {job[t].of}]
  <2>1. s.access = access /\ s.refresh = refresh
    BY DEF DurableSnapshot
  <2>2. /\ Prepare(t, s, None) /\ codes' = codes /\ pc[t] = "holding"
        /\ job[t].kind # "exchange"
    BY <1>6 DEF PrepareRegistration, Holds
  <2> HIDE DEF s
  <2> QED
    BY <1>5, <2>1, <2>2
<1>7. CASE PrepareRemember(t)
  <2> DEFINE s == [DurableSnapshot EXCEPT !.sessions[job[t].of[1]] =
                     RememberBounded(@, job[t].of[2], MaxSessions)]
  <2>1. s.access = access /\ s.refresh = refresh
    BY DEF DurableSnapshot
  <2>2. /\ Prepare(t, s, None) /\ codes' = codes /\ pc[t] = "holding"
        /\ job[t].kind # "exchange"
    BY <1>7 DEF PrepareRemember, Holds
  <2> HIDE DEF s
  <2> QED
    BY <1>5, <2>1, <2>2
<1>8. CASE SkipCleanup(t)
  <2>1. /\ pc[t] = "holding" /\ job[t].kind = "cleanup" /\ Done(t)
        /\ codes' \subseteq codes
        /\ UNCHANGED <<now, access, refresh, disk, parent, codeAt, answered>>
    BY <1>8 DEF SkipCleanup, Holds, Unexpired, history
  <2> QED
    BY <1>1, <1>2, <2>1, Ending DEF Publishing, VisibleIsCommitted
<1>9. CASE PrepareCleanup(t)
  <2>1. Live.access \subseteq access /\ Live.refresh \subseteq refresh
    BY DEF Live, DurableSnapshot, Unexpired
  <2>2. /\ Prepare(t, Live, None) /\ codes' \subseteq codes /\ pc[t] = "holding"
        /\ job[t].kind # "exchange"
    BY <1>9 DEF PrepareCleanup, Holds, Unexpired
  <2> QED
    BY <1>5, <2>1, <2>2
<1>10. CASE Save(t)
  BY <1>10, SaveSafe
<1>11. CASE SaveFails(t)
  BY <1>1, <1>2, <1>11, Ending DEF SaveFails, Publishing, memory, history,
                                   VisibleIsCommitted
<1>12. CASE PublishAccess(t) \/ PublishRefresh(t)
  BY <1>12, PublishSafe
<1>13. CASE FinishExchange(t)
  <2>1. /\ pc[t] = "publishing" /\ job[t].kind = "exchange" /\ Done(t)
        /\ codes' = codes \ {job[t].of}
        /\ answered' \subseteq answered \cup {new[t]}
        /\ UNCHANGED <<now, access, refresh, disk, parent, codeAt>>
    BY <1>13 DEF FinishExchange, Publishes
  <2>2. refresh \cap Spent = {} /\ new[t] \in Committed
    BY <1>1, <2>1 DEF PublishingOK, Publishing
  <2>3. answered' \subseteq Committed
    BY <1>1, <2>1, <2>2 DEF VisibleIsCommitted
  <2>4. \A c \in Spent : job[t] = [kind |-> "exchange", of |-> c]
                           => c \notin codes' \cup refresh
    BY <2>1, <2>2
  <2> QED
    BY <1>2, <2>1, <2>3, <2>4, Ending
<1>14. CASE FinishCleanup(t) \/ FinishRegistration(t) \/ FinishRemember(t)
  <2>1. /\ pc[t] = "publishing" /\ job[t].kind # "exchange" /\ Done(t)
        /\ UNCHANGED <<now, codes, access, refresh, disk, parent, codeAt, answered>>
    BY <1>14 DEF FinishCleanup, FinishRegistration, FinishRemember, Publishes,
                 history
  <2> QED
    BY <1>1, <1>2, <2>1, Ending DEF VisibleIsCommitted
<1> QED
  BY <1>3, <1>4, <1>6, <1>7, <1>8, <1>9, <1>10, <1>11, <1>12, <1>13, <1>14
     DEF Step

\* A restart starts from what is committed and unspent: the state file.
LEMMA RestartSafe ==
  ASSUME CredentialInv, Restart, TypeOK'
  PROVE  CredentialInv'
<1>1. Known /\ VisibleIsCommitted /\ SpentIsGone /\ OneWinner
  BY DEF CredentialInv
<1>2. /\ UNCHANGED <<now, disk, parent, codeAt, answered>>
      /\ codes' = {} /\ access' \subseteq disk.access
      /\ refresh' \subseteq disk.refresh
      /\ \A t \in Tasks : pc'[t] = "idle"
  BY DEF Restart, LoadFrom, Unexpired, history
<1>3. Committed' = Committed /\ Spent' = Spent /\ Offered' = Offered
  BY <1>2, SameHistory
<1>4. GateHeld' /\ SavingOK' /\ PublishingOK'
  BY <1>2 DEF GateHeld, SavingOK, PublishingOK, Publishing
<1>5. Known'
  BY <1>1, <1>2, <1>3 DEF Known, EmptySnapshot
<1>6. VisibleIsCommitted'
  BY <1>1, <1>2, <1>3 DEF VisibleIsCommitted
<1>7. SpentIsGone'
  BY <1>1, <1>2, <1>3 DEF SpentIsGone
<1>8. OneWinner'
  BY <1>1, <1>2, <1>3 DEF OneWinner
<1> QED
  BY <1>4, <1>5, <1>6, <1>7, <1>8 DEF CredentialInv

LEMMA InitSafe == Init => CredentialInv
<1> SUFFICES ASSUME Init
             PROVE  CredentialInv
  OBVIOUS
<1>1. Committed = {} /\ Spent = {}
  BY DEF Init, Committed, Spent
<1>2. TypeOK
  BY InitType
<1>3. GateHeld /\ Known /\ SavingOK /\ PublishingOK
  BY <1>1 DEF Init, GateHeld, Known, SavingOK, PublishingOK, Publishing, Never
<1>4. VisibleIsCommitted /\ SpentIsGone /\ OneWinner
  BY <1>1 DEF Init, VisibleIsCommitted, SpentIsGone, OneWinner, EmptySnapshot
<1> QED
  BY <1>2, <1>3, <1>4 DEF CredentialInv

LEMMA NextSafe ==
  ASSUME CredentialInv, [Next]_vars
  PROVE  CredentialInv'
<1>1. TypeOK'
  BY NextType DEF CredentialInv
<1>2. CASE Tick \/ UNCHANGED vars
  <2>1. /\ UNCHANGED <<codes, access, refresh, disk, gate, pc, job, snap, new,
                       parent, codeAt, answered>>
        /\ now' \in {now, now + 1}
    BY <1>2 DEF Tick, vars, memory, taskVars, history
  <2>2. Committed' = Committed /\ Spent' = Spent /\ Offered' = Offered
    BY <2>1, SameHistory
  <2>3. Known'
    BY <2>1, <2>2 DEF CredentialInv, TypeOK, Known, EmptySnapshot, Never
  <2>4. GateHeld' /\ SavingOK' /\ PublishingOK'
    BY <2>1, <2>2 DEF CredentialInv, GateHeld, SavingOK, PublishingOK, Publishing
  <2>5. VisibleIsCommitted' /\ SpentIsGone' /\ OneWinner'
    BY <2>1, <2>2 DEF CredentialInv, VisibleIsCommitted, SpentIsGone, OneWinner,
                      Publishing
  <2> QED
    BY <1>1, <2>3, <2>4, <2>5 DEF CredentialInv
<1>3. ASSUME NEW c \in Codes, Authorize(c)
      PROVE  CredentialInv'
  BY <1>1, <1>3, AuthorizeSafe
<1>4. ASSUME NEW t \in Tasks, NEW j, Queue(t, j)
      PROVE  CredentialInv'
  BY <1>1, <1>4, WaitingSafe DEF Queue, memory, CredentialInv, TypeOK
<1>5. ASSUME NEW t \in Tasks, Arrive(t)
      PROVE  CredentialInv'
  BY <1>4, <1>5 DEF Arrive, RequestExchange, RequestRegistration,
                    RequestRemember, StartCleanup
<1>6. ASSUME NEW t \in Tasks, Disconnect(t)
      PROVE  CredentialInv'
  BY <1>1, <1>6, Ending DEF Disconnect, Publishing, memory, history,
                            CredentialInv, VisibleIsCommitted
<1>7. ASSUME NEW t \in Tasks, Acquire(t)
      PROVE  CredentialInv'
  <2>1. gate' # gate
    BY <1>7, IdAssumption DEF Acquire
  <2> QED
    BY <1>1, <1>7, <2>1, WaitingSafe DEF Acquire, memory, history
<1>8. CASE Restart
  BY <1>1, <1>8, RestartSafe
<1> QED
  BY <1>1, <1>2, <1>3, <1>5, <1>6, <1>7, <1>8, StepSafe DEF Next

\* Credentials are one-time, whatever the interleaving, the failures and the
\* restarts: the inductive invariant holds of every execution.
THEOREM CredentialsSafe == Spec => []CredentialInv
BY InitSafe, NextSafe, PTL DEF Spec

\* Its consequences, the properties the runs check.

\* Every variable keeps its type.
THEOREM TypeCorrect == Spec => []TypeOK
<1>1. CredentialInv => TypeOK
  BY DEF CredentialInv
<1> QED
  BY <1>1, CredentialsSafe, PTL

\* A spent credential is in no map that outlives its transaction: neither a
\* waiting request nor a new process can redeem it.
THEOREM SpentStaysGone == Spec => []SpentIsGone
<1>1. CredentialInv => SpentIsGone
  BY DEF CredentialInv
<1> QED
  BY <1>1, CredentialsSafe, PTL

\* No two committed grants were issued for the same code or refresh token.
THEOREM ExchangeIsOneTime == Spec => []OneWinner
<1>1. CredentialInv => OneWinner
  BY DEF CredentialInv
<1> QED
  BY <1>1, CredentialsSafe, PTL

\* No token is accepted or delivered that was not saved first.
THEOREM OnlyCommittedIsVisible == Spec => []VisibleIsCommitted
<1>1. CredentialInv => VisibleIsCommitted
  BY DEF CredentialInv
<1> QED
  BY <1>1, CredentialsSafe, PTL

-----------------------------------------------------------------------------
(* The maps, the snapshots and the file *)

\* An entry that is valid later is valid now.
LEMMA UnexpiredLater ==
  ASSUME NEW T, NEW S \in SUBSET T, NEW e \in [T -> Nat], NEW f \in [T -> Nat],
         \A x \in S : f[x] = e[x], NEW n \in Nat, NEW m \in Nat, n <= m
  PROVE  /\ Unexpired(S, f, m) \subseteq Unexpired(S, e, n)
         /\ n = m => Unexpired(S, f, m) = Unexpired(S, e, n)
BY DEF Unexpired

LEMMA EvictsLater ==
  ASSUME NEW T, NEW old \in SUBSET T, NEW keep, NEW drawn, NEW max,
         NEW expiry \in [T -> Nat], NEW n \in Nat, NEW m \in Nat, n <= m,
         Evicts(old, keep, drawn, max, expiry, n)
  PROVE  Evicts(old, keep, drawn, max, expiry, m)
<1> SUFFICES ASSUME NEW x \in old \ keep, expiry[x] <= n
             PROVE  expiry[x] <= m
  BY DEF Evicts
<1> QED
  OBVIOUS

\* While one task is past the queue, the others are not.
LEMMA OnlyHolder ==
  ASSUME GateHeld, NEW t \in Tasks, pc[t] \notin {"idle", "queued"}
  PROVE  /\ gate = t
         /\ \A u \in Tasks \ {t} : /\ pc[u] \in {"idle", "queued"}
                                   /\ ~Prepared(u) /\ ~Publishing(u)
BY DEF GateHeld, Prepared, Publishing

LEMMA EmptyFits == Fits(EmptySnapshot)
<1>1. Cardinality({}) = 0
  BY FS_EmptySet
<1>2. Len(<<>>) = 0 /\ NoDuplicates(<<>>)
  BY DEF NoDuplicates
<1> QED
  BY <1>1, <1>2, ConfigAssumption DEF Fits, EmptySnapshot

\* A step that changes neither the durable maps, nor the file, nor what is prepared.
LEMMA Undisturbed ==
  ASSUME DurableInv, TypeOK', now' \in {now, now + 1},
         UNCHANGED <<access, refresh, clients, sessions, disk, issuedAt, parent>>,
         Cardinality(codes') <= MaxCodes,
         \A c \in Codes : codeAt'[c] \in {codeAt[c], now},
         Offered \subseteq Offered', answered \subseteq answered',
         \A d \in Registered : registeredAt'[d] = registeredAt[d],
         \A u \in Tasks : Publishing(u) => pc'[u] = pc[u],
         \A u \in Tasks :
           \/ /\ pc'[u] = pc[u] /\ job'[u] = job[u] /\ snap'[u] = snap[u]
              /\ at'[u] = at[u] /\ new'[u] = new[u]
           \/ /\ ~Prepared(u)' /\ RequestOK(u)'
              /\ snap'[u] \in {snap[u], EmptySnapshot} /\ at'[u] \in {at[u], Never}
  PROVE  StorageInv'
<1>1. TypeOK /\ CapacityInv /\ ClocksOK /\ JobsOK /\ MemoryMatchesDisk
  BY DEF DurableInv, CredentialInv, StorageInv
<1>2. now \in Nat /\ now' \in Nat /\ now <= now'
  BY <1>1 DEF TypeOK
<1>3. Registered \subseteq Registered'
  BY DEF Registered
<1>4. clients \cup disk.clients \subseteq Registered
  BY <1>1 DEF JobsOK
<1>5. CapacityInv'
  BY <1>1, EmptyFits DEF CapacityInv, DurableSnapshot, Fits, EmptySnapshot
<1>6. ClocksOK'
  <2>1. ASSUME NEW c \in Codes
        PROVE  codeAt'[c] <= now'
    <3>1. codeAt[c] \in Nat /\ codeAt[c] <= now
      BY <1>1 DEF ClocksOK, TypeOK
    <3>2. codeAt'[c] \in {codeAt[c], now}
      OBVIOUS
    <3> QED
      BY <1>2, <3>1, <3>2
  <2>2. \A g \in Grants : issuedAt'[g] <= now'
    BY <1>1, <1>2 DEF ClocksOK, TypeOK
  <2>3. ASSUME NEW u \in Tasks
        PROVE  /\ at'[u] <= now'
               /\ Prepared(u)' => \A g \in Grants : issuedAt'[g] <= at'[u]
    <3>1. at[u] \in Nat
      BY <1>1 DEF TypeOK
    <3> QED
      BY <1>1, <1>2, <3>1 DEF ClocksOK, Prepared, Never
  <2> QED
    BY <2>1, <2>2, <2>3 DEF ClocksOK
<1>7. JobsOK'
  <2>1. (clients \cup disk.clients)' \subseteq Registered'
    BY <1>3, <1>4
  <2>2. ASSUME NEW u \in Tasks
        PROVE  RequestOK(u)'
    BY <1>1, <1>3 DEF JobsOK, RequestOK
  <2>3. ASSUME NEW u \in Tasks
        PROVE  /\ pc'[u] \in {"saved", "half"} => job'[u].kind \in {"exchange", "cleanup"}
               /\ Prepared(u)' /\ job'[u].kind # "exchange" => new'[u] = None
               /\ job'[u].kind = "exchange" /\ Publishing(u)' =>
                    parent'[new'[u]] = job'[u].of /\ issuedAt'[new'[u]] = at'[u]
    BY <1>1 DEF JobsOK, Prepared, Publishing
  <2> QED
    BY <2>1, <2>2, <2>3 DEF JobsOK
<1>8. ASSUME NEW u \in Tasks
      PROVE  CopyOK(u)' /\ TokensOK(u)'
  <2>1. CASE ~Prepared(u)'
    BY <2>1 DEF CopyOK, TokensOK, Prepared
  <2>2. CASE Prepared(u)'
    <3>1. /\ pc'[u] = pc[u] /\ job'[u] = job[u] /\ snap'[u] = snap[u]
          /\ at'[u] = at[u] /\ new'[u] = new[u]
      BY <2>2
    <3>2. Prepared(u) /\ (Publishing(u)' <=> Publishing(u))
      BY <2>2, <3>1 DEF Prepared, Publishing
    <3>3. Unexpired(clients', ClientExpiry', at'[u]) = Unexpired(clients, ClientExpiry, at[u])
      <4>1. /\ ClientExpiry \in [DcrClients -> Nat] /\ ClientExpiry' \in [DcrClients -> Nat]
            /\ clients \in SUBSET DcrClients /\ at[u] \in Nat
        BY <1>1, ConfigAssumption DEF TypeOK, ClientExpiry
      <4>2. \A d \in clients : ClientExpiry'[d] = ClientExpiry[d]
        BY <1>1, <1>4 DEF ClientExpiry, Registered
      <4> HIDE DEF ClientExpiry
      <4> QED
        BY <3>1, <4>1, <4>2, UnexpiredLater
    <3>4. AccessExpiry' = AccessExpiry /\ RefreshExpiry' = RefreshExpiry
      BY DEF AccessExpiry, RefreshExpiry
    <3>5. CopyOK(u) /\ TokensOK(u)
      BY DEF DurableInv, StorageInv
    <3>6. CopyOK(u)'
      BY <3>1, <3>2, <3>3, <3>5 DEF CopyOK
    <3>7. TokensOK(u)'
      <4>1. /\ AccessExpiry \in [Grants -> Nat] /\ RefreshExpiry \in [Grants -> Nat]
            /\ access \in SUBSET Grants /\ refresh \ {job[u].of} \in SUBSET Grants
        BY <1>1, ExpiryFunctions DEF TypeOK
      <4>2. pc[u] \in {"saving", "saved"} =>
              Evicts(access, snap[u].access, new[u], MaxAccess, AccessExpiry, now')
        BY <1>2, <3>5, <4>1, EvictsLater DEF TokensOK
      <4>3. pc[u] \in {"saving", "saved", "half"} =>
              Evicts(refresh \ {job[u].of}, snap[u].refresh, new[u], MaxRefresh,
                     RefreshExpiry, now')
        BY <1>2, <3>5, <4>1, EvictsLater DEF TokensOK
      <4> QED
        BY <3>1, <3>4, <3>5, <4>2, <4>3 DEF TokensOK
    <3> QED
      BY <3>6, <3>7
  <2> QED
    BY <2>1, <2>2
<1>9. MemoryMatchesDisk'
  <2> SUFFICES ASSUME Durable, \A u \in Tasks : ~Publishing(u)'
               PROVE  MemoryMatchesDisk'
    BY DEF MemoryMatchesDisk
  <2>1. \A u \in Tasks : ~Publishing(u)
    BY DEF Publishing
  <2>2. /\ disk.access \in SUBSET Grants /\ disk.refresh \in SUBSET Grants
        /\ disk.clients \in SUBSET DcrClients
    BY <1>1 DEF TypeOK, Snapshots
  <2>3. /\ CodeExpiry \in [Codes -> Nat] /\ AccessExpiry \in [Grants -> Nat]
        /\ RefreshExpiry \in [Grants -> Nat]
        /\ ClientExpiry \in [DcrClients -> Nat] /\ ClientExpiry' \in [DcrClients -> Nat]
    BY <1>1, ExpiryFunctions, ConfigAssumption DEF TypeOK, ClientExpiry
  <2>4. AccessExpiry' = AccessExpiry /\ RefreshExpiry' = RefreshExpiry
    BY DEF AccessExpiry, RefreshExpiry
  <2>5. \A d \in disk.clients : ClientExpiry'[d] = ClientExpiry[d]
    BY <1>4, <2>2 DEF ClientExpiry, Registered
  <2> HIDE DEF ClientExpiry, AccessExpiry, RefreshExpiry
  <2>6. /\ Unexpired(disk.access, AccessExpiry', now') \subseteq Unexpired(disk.access, AccessExpiry, now)
        /\ Unexpired(disk.refresh, RefreshExpiry', now') \subseteq Unexpired(disk.refresh, RefreshExpiry, now)
    BY <1>2, <2>2, <2>3, <2>4, UnexpiredLater
  <2>7. Unexpired(disk.clients, ClientExpiry', now') \subseteq Unexpired(disk.clients, ClientExpiry, now)
    BY <1>2, <2>2, <2>3, <2>5, UnexpiredLater
  <2> QED
    BY <1>1, <2>1, <2>6, <2>7 DEF MemoryMatchesDisk
<1> QED
  BY <1>5, <1>6, <1>7, <1>8, <1>9 DEF StorageInv

LEMMA FiniteMaps ==
  ASSUME TypeOK
  PROVE  /\ IsFiniteSet(codes) /\ IsFiniteSet(access) /\ IsFiniteSet(refresh)
         /\ IsFiniteSet(clients) /\ IsFiniteSet(disk.access)
         /\ IsFiniteSet(disk.refresh) /\ IsFiniteSet(disk.clients)
BY FS_Subset, IdAssumption DEF TypeOK, Snapshots

\* A task that ends without having saved leaves everything as it was.
LEMMA EndedStored ==
  ASSUME DurableInv, TypeOK', NEW t \in Tasks, Done(t), ~Publishing(t),
         codes' \subseteq codes,
         UNCHANGED <<now, access, refresh, clients, sessions, disk, history>>
  PROVE  StorageInv'
<1>1. TypeOK /\ CapacityInv /\ UNCHANGED <<codeAt, issuedAt, registeredAt, parent, answered>>
  BY DEF DurableInv, CredentialInv, StorageInv, history
<1>2. Cardinality(codes') <= MaxCodes
  <2>1. Cardinality(codes') <= Cardinality(codes) /\ Cardinality(codes) <= MaxCodes
    BY <1>1, FiniteMaps, FS_Subset DEF CapacityInv
  <2>2. /\ Cardinality(codes') \in Nat /\ Cardinality(codes) \in Nat
        /\ MaxCodes \in Nat
    BY <1>1, FiniteMaps, FS_Subset, FS_CardinalityType, ConfigAssumption
  <2> QED
    BY <2>1, <2>2
<1>3. Offered' = Offered
  BY <1>1 DEF Offered
<1>4. \A u \in Tasks \ {t} :
         /\ pc'[u] = pc[u] /\ job'[u] = job[u] /\ snap'[u] = snap[u]
         /\ at'[u] = at[u] /\ new'[u] = new[u]
  BY <1>1 DEF Done, TypeOK
<1>5. /\ pc'[t] = "idle" /\ job'[t] = NoJob /\ snap'[t] = EmptySnapshot
      /\ at'[t] = Never
  BY <1>1 DEF Done, TypeOK
<1>6. ~Prepared(t)' /\ RequestOK(t)'
  BY <1>5 DEF Prepared, RequestOK, NoJob
<1> QED
  BY <1>1, <1>2, <1>3, <1>4, <1>5, <1>6, Undisturbed

\* So do a request that waits, and one whose turn it is.
LEMMA WaitingStored ==
  ASSUME DurableInv, TypeOK', NEW t \in Tasks, pc[t] \in {"idle", "queued"},
         pc' = [pc EXCEPT ![t] = "queued"] \/ pc' = [pc EXCEPT ![t] = "holding"],
         \A u \in Tasks \ {t} : job'[u] = job[u],
         job'[t] \in Jobs, RequestOK(t)',
         \A d \in Registered : registeredAt'[d] = registeredAt[d],
         UNCHANGED <<now, memory, disk, snap, at, new, codeAt, issuedAt, parent,
                     answered>>
  PROVE  StorageInv'
<1>1. TypeOK /\ CapacityInv /\ UNCHANGED <<codes, access, refresh, clients, sessions>>
  BY DEF DurableInv, CredentialInv, StorageInv, memory
<1>2. Cardinality(codes') <= MaxCodes
  BY <1>1 DEF CapacityInv
<1>3. Offered' = Offered
  BY DEF Offered
<1>4. \A u \in Tasks \ {t} :
         /\ pc'[u] = pc[u] /\ job'[u] = job[u] /\ snap'[u] = snap[u]
         /\ at'[u] = at[u] /\ new'[u] = new[u]
  BY <1>1 DEF TypeOK
<1>5. ~Prepared(t)' /\ snap'[t] = snap[t] /\ at'[t] = at[t]
  BY <1>1 DEF Prepared, TypeOK
<1>6. \A u \in Tasks : Publishing(u) => pc'[u] = pc[u]
  BY <1>4 DEF Publishing
<1> QED
  BY <1>1, <1>2, <1>3, <1>4, <1>5, <1>6, Undisturbed

LEMMA ArriveStored ==
  ASSUME DurableInv, TypeOK', NEW t \in Tasks, Arrive(t)
  PROVE  StorageInv'
<1>1. TypeOK
  BY DEF DurableInv, CredentialInv
<1>2. ASSUME NEW j \in Jobs, Queue(t, j),
             \A d \in Registered : registeredAt'[d] = registeredAt[d],
             j.kind = "register" => j.of \in Registered',
             j.kind = "exchange" => j.of \in Offered \cup answered
      PROVE  StorageInv'
  <2>1. /\ job'[t] = j /\ \A u \in Tasks \ {t} : job'[u] = job[u]
        /\ pc[t] = "idle" /\ pc' = [pc EXCEPT ![t] = "queued"]
        /\ UNCHANGED <<now, memory, disk, snap, at, new, codeAt, issuedAt, parent,
                       answered>>
    BY <1>1, <1>2 DEF Queue, TypeOK
  <2>2. Offered' = Offered
    BY <2>1 DEF Offered
  <2>3. RequestOK(t)'
    BY <1>2, <2>1, <2>2 DEF RequestOK
  <2> QED
    BY <1>2, <2>1, <2>3, WaitingStored
<1>3. ASSUME NEW c \in Credentials, RequestExchange(t, c)
      PROVE  StorageInv'
  <2> DEFINE j == [kind |-> "exchange", of |-> c]
  <2>1. /\ j \in Jobs /\ j.kind = "exchange" /\ j.of = c
        /\ c \in Offered \cup answered /\ Queue(t, j) /\ registeredAt' = registeredAt
    BY <1>3 DEF Jobs, ExchangeJobs, RequestExchange, Offered
  <2> HIDE DEF j
  <2> QED
    BY <1>2, <2>1
<1>4. ASSUME NEW d \in DcrClients, RequestRegistration(t, d)
      PROVE  StorageInv'
  <2> DEFINE j == [kind |-> "register", of |-> d]
  <2>1. /\ j \in Jobs /\ j.kind = "register" /\ j.of = d /\ Queue(t, j)
        /\ registeredAt[d] = Never
        /\ registeredAt' = [registeredAt EXCEPT ![d] = now]
    BY <1>4 DEF Jobs, RegisterJobs, RequestRegistration
  <2>2. d \in Registered'
    BY <1>1, <2>1 DEF Registered, TypeOK, DurableInv, CredentialInv, Known
  <2>3. \A k \in Registered : registeredAt'[k] = registeredAt[k]
    BY <1>1, <2>1 DEF Registered, TypeOK
  <2> HIDE DEF j
  <2> QED
    BY <1>2, <2>1, <2>2, <2>3
<1>5. ASSUME NEW p \in Principals, NEW k \in SessionIds, RequestRemember(t, p, k)
      PROVE  StorageInv'
  <2> DEFINE j == [kind |-> "remember", of |-> <<p, k>>]
  <2>1. /\ j \in Jobs /\ j.kind = "remember" /\ Queue(t, j)
        /\ registeredAt' = registeredAt
    BY <1>5 DEF Jobs, RememberJobs, RequestRemember
  <2> HIDE DEF j
  <2> QED
    BY <1>2, <2>1
<1>6. CASE StartCleanup(t)
  <2> DEFINE j == [kind |-> "cleanup", of |-> None]
  <2>1. /\ j \in Jobs /\ j.kind = "cleanup" /\ Queue(t, j)
        /\ registeredAt' = registeredAt
    BY <1>6 DEF Jobs, CleanupJobs, StartCleanup
  <2> HIDE DEF j
  <2> QED
    BY <1>2, <2>1
<1> QED
  BY <1>3, <1>4, <1>5, <1>6 DEF Arrive

LEMMA AuthorizeStored ==
  ASSUME DurableInv, TypeOK', NEW c \in Codes, Authorize(c)
  PROVE  StorageInv'
<1>1. TypeOK /\ CapacityInv /\ now # Never
  BY DEF DurableInv, CredentialInv, StorageInv, Known
<1>2. /\ UNCHANGED <<now, access, refresh, clients, sessions, disk, pc, job, snap, at,
                     new, issuedAt, registeredAt, parent, answered>>
      /\ codeAt' = [codeAt EXCEPT ![c] = now]
  BY DEF Authorize, taskVars
<1>3. Cardinality(codes') <= MaxCodes
  BY <1>1, FiniteMaps, InsertBoundedFits, ConfigAssumption DEF Authorize
<1>4. Offered \subseteq Offered' /\ \A k \in Codes : codeAt'[k] \in {codeAt[k], now}
  BY <1>1, <1>2 DEF Offered, TypeOK
<1> QED
  BY <1>2, <1>3, <1>4, Undisturbed

\* A snapshot that is prepared as a copy of the memory, but for what its job changes.
LEMMA PreparedStored ==
  ASSUME DurableInv, TypeOK', NEW t \in Tasks, pc[t] = "holding",
         NEW s \in Snapshots, NEW g, Prepare(t, s, g), codes' \subseteq codes,
         Fits(s), job[t].kind # "exchange" => g = None,
         job[t].kind \in {"register", "remember"} =>
           s.access = access /\ s.refresh = refresh,
         s.clients = CASE job[t].kind = "register" ->
                            Unexpired(clients, ClientExpiry, now) \cup {job[t].of}
                       [] job[t].kind = "cleanup" -> Unexpired(clients, ClientExpiry, now)
                       [] OTHER -> clients,
         s.sessions = IF job[t].kind # "remember" THEN sessions
                      ELSE [sessions EXCEPT ![job[t].of[1]] =
                              RememberBounded(@, job[t].of[2], MaxSessions)],
         Evicts(access, s.access, g, MaxAccess, AccessExpiry, now),
         Evicts(refresh \ {job[t].of}, s.refresh, g, MaxRefresh, RefreshExpiry, now),
         s.refresh \subseteq refresh \cup {g},
         job[t].kind = "exchange" => g \in s.refresh
  PROVE  StorageInv'
<1>1. /\ TypeOK /\ CapacityInv /\ ClocksOK /\ JobsOK /\ MemoryMatchesDisk /\ GateHeld
  BY DEF DurableInv, CredentialInv, StorageInv
<1>2. /\ UNCHANGED <<now, access, refresh, clients, sessions, disk, job, codeAt, issuedAt,
                     registeredAt, parent, answered>>
      /\ pc'[t] = "saving" /\ snap'[t] = s /\ at'[t] = now /\ new'[t] = g
      /\ \A u \in Tasks \ {t} : /\ pc'[u] = pc[u] /\ snap'[u] = snap[u]
                                /\ at'[u] = at[u] /\ new'[u] = new[u]
  BY <1>1 DEF Prepare, TypeOK, history
<1>3. \A u \in Tasks \ {t} : /\ pc'[u] \in {"idle", "queued"}
                             /\ ~Prepared(u)' /\ ~Publishing(u)'
  BY <1>1, <1>2, OnlyHolder DEF Prepared, Publishing
<1>4. /\ AccessExpiry' = AccessExpiry /\ RefreshExpiry' = RefreshExpiry
      /\ ClientExpiry' = ClientExpiry /\ Offered' = Offered /\ Registered' = Registered
  BY <1>2 DEF AccessExpiry, RefreshExpiry, ClientExpiry, Offered, Registered
<1>5. CapacityInv'
  <2>1. Cardinality(codes') <= Cardinality(codes) /\ Cardinality(codes) <= MaxCodes
    BY <1>1, FiniteMaps, FS_Subset DEF CapacityInv
  <2>2. /\ Cardinality(codes') \in Nat /\ Cardinality(codes) \in Nat
        /\ MaxCodes \in Nat
    BY <1>1, FiniteMaps, FS_Subset, FS_CardinalityType, ConfigAssumption
  <2>3. Cardinality(codes') <= MaxCodes
    BY <2>1, <2>2
  <2>4. ASSUME NEW u \in Tasks
        PROVE  Fits(snap[u])'
    BY <1>1, <1>2 DEF CapacityInv, Fits
  <2> QED
    BY <1>1, <1>2, <2>3, <2>4 DEF CapacityInv, DurableSnapshot, Fits
<1>6. ClocksOK'
  <2>1. now \in Nat
    BY <1>1 DEF TypeOK
  <2> QED
    BY <1>1, <1>2, <1>3, <2>1 DEF ClocksOK
<1>7. JobsOK'
  <2>1. ASSUME NEW u \in Tasks
        PROVE  RequestOK(u)'
    BY <1>1, <1>2, <1>4 DEF JobsOK, RequestOK
  <2>2. ~Publishing(t)'
    BY <1>2 DEF Publishing
  <2> QED
    BY <1>1, <1>2, <1>3, <1>4, <2>1, <2>2 DEF JobsOK
<1>8. CopyOK(t)'
  BY <1>2, <1>4 DEF CopyOK, Publishing
<1>9. TokensOK(t)'
  BY <1>2, <1>4 DEF TokensOK
<1>10. \A u \in Tasks \ {t} : CopyOK(u)' /\ TokensOK(u)'
  BY <1>3 DEF CopyOK, TokensOK
<1>11. MemoryMatchesDisk'
  <2>1. \A u \in Tasks : ~Publishing(u)
    BY <1>1, OnlyHolder DEF Publishing
  <2> QED
    BY <1>1, <1>2, <1>4, <2>1 DEF MemoryMatchesDisk
<1> QED
  BY <1>5, <1>6, <1>7, <1>8, <1>9, <1>10, <1>11 DEF StorageInv

\* What an expired entry leaves behind still fits.
LEMMA UnexpiredFits ==
  ASSUME NEW S, IsFiniteSet(S), NEW max \in Nat, Cardinality(S) <= max,
         NEW expiry, NEW time
  PROVE  /\ Unexpired(S, expiry, time) \subseteq S
         /\ IsFiniteSet(Unexpired(S, expiry, time))
         /\ Cardinality(Unexpired(S, expiry, time)) <= max
<1>1. Unexpired(S, expiry, time) \in SUBSET S
  BY DEF Unexpired
<1>2. /\ IsFiniteSet(Unexpired(S, expiry, time))
      /\ Cardinality(Unexpired(S, expiry, time)) <= Cardinality(S)
  BY <1>1, FS_Subset
<1>3. Cardinality(Unexpired(S, expiry, time)) \in Nat /\ Cardinality(S) \in Nat
  BY <1>2, FS_CardinalityType
<1> QED
  BY <1>1, <1>2, <1>3

\* insert_bounded drops only what has expired or expires first.
LEMMA InsertBoundedEvicts ==
  ASSUME NEW T, NEW S \in SUBSET T, IsFiniteSet(S), NEW key, NEW max \in Nat \ {0},
         NEW expiry \in [T -> Nat], NEW time \in Nat,
         NEW R \in InsertBounded(S, key, max, expiry, time)
  PROVE  Evicts(S, R, key, max, expiry, time)
<1> SUFFICES ASSUME NEW x \in S \ R, ~(expiry[x] <= time)
             PROVE  /\ Cardinality(R) = max
                    /\ \A stays \in R \ {key} : expiry[x] <= expiry[stays]
  BY DEF Evicts
<1>1. expiry[x] \in Nat
  OBVIOUS
<1>2. x \in Unexpired(S, expiry, time) \ R
  BY <1>1 DEF Unexpired
<1> QED
  BY <1>2, InsertBoundedEvictsFirst

LEMMA PrepareExchangeStored ==
  ASSUME DurableInv, TypeOK', NEW t \in Tasks, PrepareExchange(t)
  PROVE  StorageInv'
<1>1. TypeOK /\ CapacityInv
  BY DEF DurableInv, CredentialInv, StorageInv
<1>2. PICK g \in Grants \ Committed :
        \E tokens \in InsertBounded(access, g, MaxAccess, AccessExpiry, now),
           rotated \in InsertBounded(refresh \ {job[t].of}, g, MaxRefresh,
                                     RefreshExpiry, now) :
          Prepare(t, [DurableSnapshot EXCEPT !.access = tokens,
                                             !.refresh = rotated], g)
  BY DEF PrepareExchange
<1>3. PICK tokens \in InsertBounded(access, g, MaxAccess, AccessExpiry, now),
           rotated \in InsertBounded(refresh \ {job[t].of}, g, MaxRefresh,
                                     RefreshExpiry, now) :
        Prepare(t, [DurableSnapshot EXCEPT !.access = tokens, !.refresh = rotated], g)
  BY <1>2
<1> DEFINE s    == [DurableSnapshot EXCEPT !.access = tokens, !.refresh = rotated]
           left == refresh \ {job[t].of}
<1>4. /\ access \in SUBSET Grants /\ left \in SUBSET Grants /\ g \in Grants
      /\ IsFiniteSet(access) /\ IsFiniteSet(left) /\ now \in Nat
      /\ AccessExpiry \in [Grants -> Nat] /\ RefreshExpiry \in [Grants -> Nat]
      /\ MaxAccess \in Nat \ {0} /\ MaxRefresh \in Nat \ {0}
  BY ZenonT(30), <1>1, FiniteMaps, FS_Subset, ExpiryFunctions, ConfigAssumption DEF TypeOK
<1> HIDE DEF left
<1>5. rotated \in InsertBounded(left, g, MaxRefresh, RefreshExpiry, now)
  BY <1>3 DEF left
<1>6. tokens \in SUBSET Grants /\ rotated \in SUBSET Grants /\ rotated \subseteq left \cup {g}
  BY <1>3, <1>4, <1>5, InsertBoundedType
<1>7. /\ Cardinality(tokens) <= MaxAccess /\ Cardinality(rotated) <= MaxRefresh
      /\ g \in rotated
  BY <1>3, <1>4, <1>5, InsertBoundedFits
<1>8. /\ Evicts(access, tokens, g, MaxAccess, AccessExpiry, now)
      /\ Evicts(left, rotated, g, MaxRefresh, RefreshExpiry, now)
  BY <1>3, <1>4, <1>5, InsertBoundedEvicts
<1>9. /\ s.access = tokens /\ s.refresh = rotated /\ s.sessions = sessions
      /\ s.clients = clients /\ s \in Snapshots
  BY <1>1, <1>6, DurableSnapshotType DEF DurableSnapshot, Snapshots, TypeOK
<1>10. Fits(s)
  BY <1>1, <1>7, <1>9 DEF CapacityInv, Fits, DurableSnapshot
<1>11. /\ pc[t] = "holding" /\ job[t].kind = "exchange" /\ codes' = codes
  BY DEF PrepareExchange, Holds
<1>12. Prepare(t, s, g)
  BY <1>3
<1> HIDE DEF s
<1>13. /\ Evicts(access, s.access, g, MaxAccess, AccessExpiry, now)
       /\ Evicts(refresh \ {job[t].of}, s.refresh, g, MaxRefresh, RefreshExpiry, now)
       /\ s.refresh \subseteq refresh \cup {g} /\ g \in s.refresh
  BY <1>6, <1>7, <1>8, <1>9 DEF left
<1>14. s.clients = CASE job[t].kind = "register" ->
                            Unexpired(clients, ClientExpiry, now) \cup {job[t].of}
                       [] job[t].kind = "cleanup" -> Unexpired(clients, ClientExpiry, now)
                       [] OTHER -> clients
  BY <1>9, <1>11
<1> QED
  BY <1>9, <1>10, <1>11, <1>12, <1>13, <1>14, PreparedStored

LEMMA PrepareRegistrationStored ==
  ASSUME DurableInv, TypeOK', NEW t \in Tasks, PrepareRegistration(t)
  PROVE  StorageInv'
<1> DEFINE live == Unexpired(clients, ClientExpiry, now)
           s    == [DurableSnapshot EXCEPT !.clients = live \cup {job[t].of}]
<1>1. TypeOK /\ CapacityInv
  BY DEF DurableInv, CredentialInv, StorageInv
<1>2. /\ pc[t] = "holding" /\ job[t].kind = "register" /\ codes' = codes
      /\ Cardinality(live) < MaxClients /\ Prepare(t, s, None)
  BY DEF PrepareRegistration, Holds
<1>3. job[t].of \in DcrClients /\ live \subseteq DcrClients /\ IsFiniteSet(live)
  BY <1>1, <1>2, JobTypes, FS_Subset, IdAssumption DEF TypeOK, Unexpired
<1>4. Cardinality(live \cup {job[t].of}) <= MaxClients
  <2>1. /\ Cardinality(live) \in Nat
        /\ \/ Cardinality(live \cup {job[t].of}) = Cardinality(live)
           \/ Cardinality(live \cup {job[t].of}) = Cardinality(live) + 1
    BY <1>3, FS_AddElement, FS_CardinalityType
  <2>2. Cardinality(live) < MaxClients /\ MaxClients \in Nat
    BY <1>2, ConfigAssumption
  <2> HIDE DEF live
  <2> QED
    BY <2>1, <2>2
<1> HIDE DEF live
<1>5. /\ s.access = access /\ s.refresh = refresh /\ s.sessions = sessions
      /\ s.clients = live \cup {job[t].of} /\ s \in Snapshots
  BY <1>1, <1>3, DurableSnapshotType DEF DurableSnapshot, Snapshots
<1>6. Fits(s)
  BY <1>1, <1>4, <1>5 DEF CapacityInv, Fits, DurableSnapshot
<1> HIDE DEF s
<1>7. /\ Evicts(access, s.access, None, MaxAccess, AccessExpiry, now)
      /\ Evicts(refresh \ {job[t].of}, s.refresh, None, MaxRefresh, RefreshExpiry, now)
      /\ s.refresh \subseteq refresh \cup {None}
  BY <1>5 DEF Evicts
<1>8. s.clients = CASE job[t].kind = "register" ->
                            Unexpired(clients, ClientExpiry, now) \cup {job[t].of}
                       [] job[t].kind = "cleanup" -> Unexpired(clients, ClientExpiry, now)
                       [] OTHER -> clients
  BY <1>2, <1>5 DEF live
<1> QED
  BY <1>2, <1>5, <1>6, <1>7, <1>8, PreparedStored

LEMMA PrepareRememberStored ==
  ASSUME DurableInv, TypeOK', NEW t \in Tasks, PrepareRemember(t)
  PROVE  StorageInv'
<1> DEFINE p == job[t].of[1]
           k == job[t].of[2]
           R == RememberBounded(sessions[p], k, MaxSessions)
           s == [DurableSnapshot EXCEPT
                   !.sessions[p] = RememberBounded(@, k, MaxSessions)]
<1>1. TypeOK /\ CapacityInv
  BY DEF DurableInv, CredentialInv, StorageInv
<1>2. /\ pc[t] = "holding" /\ job[t].kind = "remember" /\ codes' = codes
      /\ Prepare(t, s, None)
  BY DEF PrepareRemember, Holds
<1>3. p \in Principals /\ k \in SessionIds /\ sessions[p] \in Seq(SessionIds)
  BY <1>1, <1>2, JobTypes DEF TypeOK
<1>4. Len(sessions[p]) <= MaxSessions /\ NoDuplicates(sessions[p])
  BY <1>1, <1>3 DEF CapacityInv, Fits, DurableSnapshot
<1>5. R \in Seq(SessionIds) /\ Len(R) <= MaxSessions
  BY <1>3, RememberBoundedFits, ConfigAssumption
<1>6. NoDuplicates(R)
  BY <1>3, <1>4, RememberBoundedLosesOldest, ConfigAssumption
<1>7. /\ s.access = access /\ s.refresh = refresh /\ s.clients = clients
      /\ s.sessions = [sessions EXCEPT ![p] = R]
  BY DEF DurableSnapshot
<1> HIDE DEF R
<1>8. s \in Snapshots
  BY <1>1, <1>5, DurableSnapshotType DEF DurableSnapshot, Snapshots, R
<1>9. Fits(s)
  <2>1. ASSUME NEW q \in Principals
        PROVE  Len(s.sessions[q]) <= MaxSessions /\ NoDuplicates(s.sessions[q])
    <3>1. s.sessions[q] = IF q = p THEN R ELSE sessions[q]
      BY <1>1, <1>7 DEF TypeOK
    <3> QED
      BY <1>1, <1>5, <1>6, <3>1 DEF CapacityInv, Fits, DurableSnapshot
  <2> QED
    BY <1>1, <1>7, <2>1 DEF CapacityInv, Fits, DurableSnapshot
<1>10. s.sessions = [sessions EXCEPT ![job[t].of[1]] =
                       RememberBounded(@, job[t].of[2], MaxSessions)]
  BY <1>1, <1>3, <1>7 DEF R, TypeOK
<1> HIDE DEF s
<1>11. /\ Evicts(access, s.access, None, MaxAccess, AccessExpiry, now)
       /\ Evicts(refresh \ {job[t].of}, s.refresh, None, MaxRefresh, RefreshExpiry, now)
       /\ s.refresh \subseteq refresh \cup {None}
  BY <1>7 DEF Evicts
<1>12. s.clients = CASE job[t].kind = "register" ->
                            Unexpired(clients, ClientExpiry, now) \cup {job[t].of}
                       [] job[t].kind = "cleanup" -> Unexpired(clients, ClientExpiry, now)
                       [] OTHER -> clients
  BY <1>2, <1>7
<1> HIDE DEF p, k
<1> QED
  BY <1>2, <1>7, <1>8, <1>9, <1>10, <1>11, <1>12, PreparedStored

LEMMA PrepareCleanupStored ==
  ASSUME DurableInv, TypeOK', NEW t \in Tasks, PrepareCleanup(t)
  PROVE  StorageInv'
<1>1. TypeOK /\ CapacityInv
  BY DEF DurableInv, CredentialInv, StorageInv
<1>2. /\ pc[t] = "holding" /\ job[t].kind = "cleanup" /\ Prepare(t, Live, None)
      /\ codes' \subseteq codes
  BY DEF PrepareCleanup, Holds, Unexpired
<1>3. /\ Live.access = Unexpired(access, AccessExpiry, now)
      /\ Live.refresh = Unexpired(refresh, RefreshExpiry, now)
      /\ Live.clients = Unexpired(clients, ClientExpiry, now)
      /\ Live.sessions = sessions /\ Live \in Snapshots
  BY <1>1, DurableSnapshotType DEF Live, DurableSnapshot
<1>4. /\ Cardinality(Live.access) <= MaxAccess /\ Cardinality(Live.refresh) <= MaxRefresh
      /\ Cardinality(Live.clients) <= MaxClients
  BY <1>1, <1>3, UnexpiredFits, FiniteMaps, ConfigAssumption
     DEF CapacityInv, Fits, DurableSnapshot
<1>5. Fits(Live)
  BY <1>1, <1>3, <1>4 DEF CapacityInv, Fits, DurableSnapshot
<1>6. /\ Evicts(access, Live.access, None, MaxAccess, AccessExpiry, now)
      /\ Evicts(refresh \ {job[t].of}, Live.refresh, None, MaxRefresh, RefreshExpiry, now)
      /\ Live.refresh \subseteq refresh \cup {None}
  <2>1. /\ access \in SUBSET Grants /\ refresh \in SUBSET Grants /\ now \in Nat
        /\ AccessExpiry \in [Grants -> Nat] /\ RefreshExpiry \in [Grants -> Nat]
    BY <1>1, ExpiryFunctions DEF TypeOK
  <2> QED
    BY <1>3, <2>1 DEF Evicts, Unexpired
<1>7. Live.clients = CASE job[t].kind = "register" ->
                            Unexpired(clients, ClientExpiry, now) \cup {job[t].of}
                       [] job[t].kind = "cleanup" -> Unexpired(clients, ClientExpiry, now)
                       [] OTHER -> clients
  BY <1>2, <1>3
<1> QED
  BY <1>2, <1>3, <1>5, <1>6, <1>7, PreparedStored

\* The snapshot that is saved becomes the file, and stays a copy of the memory.
LEMMA SaveStored ==
  ASSUME DurableInv, TypeOK', NEW t \in Tasks, Save(t)
  PROVE  StorageInv'
<1>1. /\ TypeOK /\ CapacityInv /\ ClocksOK /\ JobsOK /\ MemoryMatchesDisk /\ GateHeld
      /\ SavingOK /\ VisibleIsCommitted /\ CopyOK(t) /\ TokensOK(t)
  BY DEF DurableInv, CredentialInv, StorageInv
<1>2. /\ UNCHANGED <<now, codes, access, refresh, clients, sessions, job, snap, at, new,
                     codeAt, registeredAt, answered>>
      /\ pc[t] = "saving" /\ pc'[t] \in {"saved", "publishing"}
      /\ pc'[t] = "saved" <=> job[t].kind \in {"exchange", "cleanup"}
      /\ disk' = (IF Durable THEN snap[t] ELSE disk)
      /\ \A u \in Tasks \ {t} : pc'[u] = pc[u]
  BY <1>1 DEF Save, TypeOK, memory
<1>3. \A u \in Tasks \ {t} : /\ pc'[u] \in {"idle", "queued"}
                             /\ ~Prepared(u)' /\ ~Publishing(u)'
  BY <1>1, <1>2, OnlyHolder DEF Prepared, Publishing
<1>4. ClientExpiry' = ClientExpiry /\ Offered' = Offered /\ Registered' = Registered
  BY <1>2 DEF ClientExpiry, Offered, Registered
<1>5. job[t].kind = "exchange" =>
        /\ new[t] \in Grants \ Committed
        /\ parent' = [parent EXCEPT ![new[t]] = job[t].of]
        /\ issuedAt' = [issuedAt EXCEPT ![new[t]] = at[t]]
  BY <1>1, <1>2 DEF SavingOK, Save
<1>6. job[t].kind # "exchange" => UNCHANGED <<parent, issuedAt>>
  BY DEF Save
<1>7. \A g \in Grants : issuedAt'[g] \in {issuedAt[g], at[t]}
  BY <1>1, <1>5, <1>6 DEF TypeOK
<1>8. \A g \in Grants : issuedAt'[g] # issuedAt[g] => g = new[t] /\ g \notin Committed
  BY <1>1, <1>5, <1>6 DEF TypeOK
<1>9. Prepared(t) /\ Prepared(t)' /\ Publishing(t)' /\ ~Publishing(t)
  BY <1>2 DEF Prepared, Publishing
<1>10. CapacityInv'
  <2>1. Fits(disk)'
    BY <1>1, <1>2 DEF CapacityInv, Fits
  <2> QED
    BY <1>1, <1>2, <2>1 DEF CapacityInv, DurableSnapshot, Fits
<1>11. ClocksOK'
  <2>1. ASSUME NEW g \in Grants
        PROVE  issuedAt'[g] <= now' /\ issuedAt'[g] <= at'[t]
    <3>1. /\ issuedAt[g] \in Nat /\ at[t] \in Nat /\ now \in Nat
          /\ issuedAt[g] <= now /\ at[t] <= now /\ issuedAt[g] <= at[t]
      BY <1>1, <1>9 DEF TypeOK, ClocksOK
    <3>2. issuedAt'[g] \in {issuedAt[g], at[t]}
      BY <1>7
    <3> QED
      BY <1>2, <3>1, <3>2
  <2> QED
    BY <1>1, <1>2, <1>3, <2>1 DEF ClocksOK
<1>12. JobsOK'
  <2>1. (clients \cup disk.clients)' \subseteq Registered'
    <3>1. snap[t].clients \subseteq Registered
      BY <1>1, <1>9 DEF CopyOK, JobsOK, RequestOK, Unexpired
    <3> QED
      BY <1>1, <1>2, <1>4, <3>1 DEF JobsOK
  <2>2. ASSUME NEW u \in Tasks
        PROVE  RequestOK(u)'
    BY <1>1, <1>2, <1>4 DEF JobsOK, RequestOK
  <2>3. job[t].kind = "exchange" => parent'[new[t]] = job[t].of /\ issuedAt'[new[t]] = at[t]
    BY <1>1, <1>5 DEF TypeOK
  <2>4. ASSUME NEW u \in Tasks
        PROVE  /\ pc'[u] \in {"saved", "half"} => job'[u].kind \in {"exchange", "cleanup"}
               /\ Prepared(u)' /\ job'[u].kind # "exchange" => new'[u] = None
               /\ job'[u].kind = "exchange" /\ Publishing(u)' =>
                    parent'[new'[u]] = job'[u].of /\ issuedAt'[new'[u]] = at'[u]
    BY <1>1, <1>2, <1>3, <1>9, <2>3 DEF JobsOK
  <2> QED
    BY <2>1, <2>2, <2>4 DEF JobsOK
<1>13. CopyOK(t)'
  <2>1. job[t].kind \in {"exchange", "register", "remember", "cleanup"}
    BY <1>1, <1>2 DEF JobsOK, RequestOK, Jobs, ExchangeJobs, RegisterJobs, RememberJobs,
                      CleanupJobs
  <2> QED
    BY <1>1, <1>2, <1>4, <1>9, <2>1 DEF CopyOK
<1>14. TokensOK(t)'
  <2>1. \A g \in access \cup refresh : issuedAt'[g] = issuedAt[g]
    BY <1>1, <1>8 DEF VisibleIsCommitted, TypeOK
  <2>2. /\ access \subseteq Grants /\ refresh \subseteq Grants
        /\ snap[t].access \subseteq Grants /\ snap[t].refresh \subseteq Grants
    BY <1>1 DEF TypeOK, Snapshots
  <2>3. /\ \A g \in access \cup refresh :
             AccessExpiry'[g] = AccessExpiry[g] /\ RefreshExpiry'[g] = RefreshExpiry[g]
        /\ \A g \in Grants \ {new[t]} :
             AccessExpiry'[g] = AccessExpiry[g] /\ RefreshExpiry'[g] = RefreshExpiry[g]
    BY <1>8, <2>1, <2>2 DEF AccessExpiry, RefreshExpiry
  <2> HIDE DEF AccessExpiry, RefreshExpiry
  <2>4. /\ Evicts(access, snap[t].access, new[t], MaxAccess, AccessExpiry, now)'
        /\ Evicts(refresh \ {job[t].of}, snap[t].refresh, new[t], MaxRefresh,
                  RefreshExpiry, now)'
    BY <1>1, <1>2, <2>2, <2>3 DEF TokensOK, Evicts
  <2> QED
    BY <1>1, <1>2, <2>4 DEF TokensOK
<1>15. \A u \in Tasks \ {t} : CopyOK(u)' /\ TokensOK(u)'
  BY <1>3 DEF CopyOK, TokensOK, Prepared
<1>16. MemoryMatchesDisk'
  BY <1>9 DEF MemoryMatchesDisk
<1> QED
  BY <1>10, <1>11, <1>12, <1>13, <1>14, <1>15, <1>16 DEF StorageInv

\* Publication brings the token maps to what is in the file.
LEMMA PublishStored ==
  ASSUME DurableInv, TypeOK', NEW t \in Tasks, PublishAccess(t) \/ PublishRefresh(t)
  PROVE  StorageInv'
<1>1. /\ TypeOK /\ CapacityInv /\ ClocksOK /\ JobsOK /\ GateHeld
      /\ CopyOK(t) /\ TokensOK(t)
  BY DEF DurableInv, CredentialInv, StorageInv
<1>2. /\ UNCHANGED <<now, codes, clients, sessions, disk, job, snap, at, new,
                     codeAt, issuedAt, registeredAt, parent, answered>>
      /\ \/ /\ pc[t] = "saved" /\ pc'[t] = "half"
            /\ access' = snap[t].access /\ refresh' = refresh
         \/ /\ pc[t] = "half" /\ pc'[t] = "publishing"
            /\ access' = access /\ refresh' = snap[t].refresh
      /\ \A u \in Tasks \ {t} : pc'[u] = pc[u]
  BY <1>1 DEF PublishAccess, PublishRefresh, TypeOK, history
<1>3. \A u \in Tasks \ {t} : /\ pc'[u] \in {"idle", "queued"}
                             /\ ~Prepared(u)' /\ ~Publishing(u)'
  BY <1>1, <1>2, OnlyHolder DEF Prepared, Publishing
<1>4. /\ AccessExpiry' = AccessExpiry /\ RefreshExpiry' = RefreshExpiry
      /\ ClientExpiry' = ClientExpiry /\ Offered' = Offered /\ Registered' = Registered
  BY <1>2 DEF AccessExpiry, RefreshExpiry, ClientExpiry, Offered, Registered
<1>5. Prepared(t) /\ Prepared(t)' /\ Publishing(t)' /\ Publishing(t)
  BY <1>2 DEF Prepared, Publishing
<1>6. CapacityInv'
  BY <1>1, <1>2 DEF CapacityInv, DurableSnapshot, Fits
<1>7. ClocksOK'
  BY <1>1, <1>2, <1>3, <1>5 DEF ClocksOK
<1>8. JobsOK'
  <2>1. ASSUME NEW u \in Tasks
        PROVE  RequestOK(u)'
    BY <1>1, <1>2, <1>4 DEF JobsOK, RequestOK
  <2>2. pc[t] \in {"saved", "half"}
    BY <1>2
  <2> QED
    BY <1>1, <1>2, <1>3, <1>4, <1>5, <2>1, <2>2 DEF JobsOK
<1>9. CopyOK(t)'
  <2>1. job[t].kind \in {"exchange", "cleanup"}
    BY <1>1, <1>2 DEF JobsOK
  <2> QED
    BY <1>1, <1>2, <1>4, <1>5, <2>1 DEF CopyOK
<1>10. TokensOK(t)'
  BY <1>1, <1>2, <1>4 DEF TokensOK
<1>11. \A u \in Tasks \ {t} : CopyOK(u)' /\ TokensOK(u)'
  BY <1>3 DEF CopyOK, TokensOK, Prepared
<1>12. MemoryMatchesDisk'
  BY <1>5 DEF MemoryMatchesDisk
<1> QED
  BY <1>6, <1>7, <1>8, <1>9, <1>10, <1>11, <1>12 DEF StorageInv

\* The transaction is over: the memory holds what the file holds.
LEMMA FinishedStored ==
  ASSUME DurableInv, TypeOK', NEW t \in Tasks, pc[t] = "publishing", Done(t),
         codes' \subseteq codes, answered \subseteq answered',
         access' = snap[t].access, refresh' = snap[t].refresh,
         clients' = snap[t].clients, sessions' = snap[t].sessions,
         UNCHANGED <<now, access, refresh, disk, codeAt, issuedAt, registeredAt, parent>>
  PROVE  StorageInv'
<1>1. /\ TypeOK /\ CapacityInv /\ ClocksOK /\ JobsOK /\ GateHeld /\ CopyOK(t)
  BY DEF DurableInv, CredentialInv, StorageInv
<1>2. /\ \A u \in Tasks \ {t} :
            /\ pc'[u] = pc[u] /\ job'[u] = job[u] /\ snap'[u] = snap[u]
            /\ at'[u] = at[u] /\ new'[u] = new[u]
      /\ pc'[t] = "idle" /\ job'[t] = NoJob /\ snap'[t] = EmptySnapshot
      /\ at'[t] = Never
  BY <1>1 DEF Done, TypeOK
<1>3. \A u \in Tasks : ~Prepared(u)' /\ ~Publishing(u)'
  BY <1>1, <1>2, OnlyHolder DEF Prepared, Publishing
<1>4. /\ AccessExpiry' = AccessExpiry /\ RefreshExpiry' = RefreshExpiry
      /\ ClientExpiry' = ClientExpiry /\ Offered' = Offered /\ Registered' = Registered
  BY DEF AccessExpiry, RefreshExpiry, ClientExpiry, Offered, Registered
<1>5. Prepared(t) /\ Publishing(t)
  BY DEF Prepared, Publishing
<1>6. CapacityInv'
  <2>1. Cardinality(codes') <= MaxCodes
    <3>1. Cardinality(codes') <= Cardinality(codes) /\ Cardinality(codes) <= MaxCodes
      BY <1>1, FiniteMaps, FS_Subset DEF CapacityInv
    <3>2. /\ Cardinality(codes') \in Nat /\ Cardinality(codes) \in Nat
          /\ MaxCodes \in Nat
      BY <1>1, FiniteMaps, FS_Subset, FS_CardinalityType, ConfigAssumption
    <3> QED
      BY <3>1, <3>2
  <2>2. Fits(DurableSnapshot)'
    <3>1. Fits(snap[t])
      BY <1>1 DEF CapacityInv
    <3> QED
      BY <3>1 DEF Fits, DurableSnapshot
  <2>3. Fits(disk)'
    BY <1>1 DEF CapacityInv, Fits
  <2>4. ASSUME NEW u \in Tasks
        PROVE  Fits(snap[u])'
    BY <1>1, <1>2, EmptyFits DEF CapacityInv, Fits, EmptySnapshot
  <2> QED
    BY <2>1, <2>2, <2>3, <2>4 DEF CapacityInv
<1>7. ClocksOK'
  <2>1. now \in Nat
    BY <1>1 DEF TypeOK
  <2>2. ASSUME NEW u \in Tasks
        PROVE  at'[u] <= now'
    BY <1>1, <1>2, <2>1 DEF ClocksOK, Never
  <2> QED
    BY <1>1, <1>3, <2>2 DEF ClocksOK
<1>8. JobsOK'
  <2>1. ASSUME NEW u \in Tasks
        PROVE  RequestOK(u)'
    BY <1>1, <1>2, <1>4 DEF JobsOK, RequestOK, NoJob
  <2>2. (clients \cup disk.clients)' \subseteq Registered'
    <3>1. snap[t].clients \subseteq Registered
      BY <1>1, <1>5 DEF CopyOK, JobsOK, RequestOK, Unexpired
    <3> QED
      BY <1>1, <1>4, <3>1 DEF JobsOK
  <2>3. \A u \in Tasks : pc'[u] \notin {"saved", "half"}
    BY <1>3 DEF Publishing
  <2> QED
    BY <1>3, <2>1, <2>2, <2>3 DEF JobsOK
<1>9. \A u \in Tasks : CopyOK(u)' /\ TokensOK(u)'
  BY <1>3 DEF CopyOK, TokensOK, Prepared
<1>10. MemoryMatchesDisk'
  <2>1. Durable => disk = snap[t]
    BY <1>1, <1>5 DEF CopyOK
  <2> QED
    BY <2>1 DEF MemoryMatchesDisk, Unexpired
<1> QED
  BY <1>6, <1>7, <1>8, <1>9, <1>10 DEF StorageInv

LEMMA StepStored ==
  ASSUME DurableInv, TypeOK', NEW t \in Tasks, Step(t)
  PROVE  StorageInv'
<1>1. TypeOK /\ JobsOK /\ CopyOK(t)
  BY DEF DurableInv, CredentialInv, StorageInv
<1>2. CASE Refuse(t)
  BY <1>2, EndedStored DEF Refuse, Holds, Publishing, memory
<1>3. CASE SkipCleanup(t)
  BY <1>3, EndedStored DEF SkipCleanup, Holds, Publishing, Unexpired
<1>4. CASE SaveFails(t)
  BY <1>4, EndedStored DEF SaveFails, Publishing, memory
<1>5. CASE pc[t] = "publishing"
  <2>1. Prepared(t)
    BY <1>5 DEF Prepared
  <2>2. snap[t].access = access /\ snap[t].refresh = refresh
    BY <1>1, <1>5, <2>1 DEF CopyOK
  <2>3. CASE FinishExchange(t)
    <3>1. /\ Done(t) /\ codes' \subseteq codes /\ answered \subseteq answered'
          /\ job[t].kind = "exchange"
          /\ UNCHANGED <<now, access, refresh, clients, sessions, disk, codeAt, issuedAt,
                         registeredAt, parent>>
      BY <2>3 DEF FinishExchange, Publishes
    <3>2. snap[t].clients = clients /\ snap[t].sessions = sessions
      BY <1>1, <2>1, <3>1 DEF CopyOK
    <3> QED
      BY <1>5, <2>2, <3>1, <3>2, FinishedStored
  <2>4. CASE FinishCleanup(t) \/ FinishRegistration(t)
    <3>1. /\ Done(t)
          /\ \/ /\ job[t].kind = "cleanup"
                /\ clients' = Unexpired(clients, ClientExpiry, at[t])
             \/ /\ job[t].kind = "register"
                /\ clients' = Unexpired(clients, ClientExpiry, at[t]) \cup {job[t].of}
          /\ UNCHANGED <<now, codes, access, refresh, sessions, disk, codeAt, issuedAt,
                         registeredAt, parent, answered>>
      BY <2>4 DEF FinishCleanup, FinishRegistration, Publishes, history
    <3>2. snap[t].clients = clients' /\ snap[t].sessions = sessions
      BY <1>1, <2>1, <3>1 DEF CopyOK
    <3> QED
      BY <1>5, <2>2, <3>1, <3>2, FinishedStored
  <2>5. CASE FinishRemember(t)
    <3>1. /\ Done(t) /\ job[t].kind = "remember" /\ sessions' = snap[t].sessions
          /\ UNCHANGED <<now, codes, access, refresh, clients, disk, codeAt, issuedAt,
                         registeredAt, parent, answered>>
      BY <2>5 DEF FinishRemember, Publishes, history
    <3>2. snap[t].clients = clients
      BY <1>1, <2>1, <3>1 DEF CopyOK
    <3> QED
      BY <1>5, <2>2, <3>1, <3>2, FinishedStored
  <2> QED
    BY <1>5, <2>3, <2>4, <2>5
       DEF Step, Refuse, PrepareExchange, PrepareRegistration, PrepareRemember,
           SkipCleanup, PrepareCleanup, Holds, Save, SaveFails, PublishAccess,
           PublishRefresh
<1>6. CASE pc[t] # "publishing"
  <2>1. \/ Refuse(t) \/ PrepareExchange(t) \/ PrepareRegistration(t)
        \/ PrepareRemember(t) \/ SkipCleanup(t) \/ PrepareCleanup(t)
        \/ Save(t) \/ SaveFails(t) \/ PublishAccess(t) \/ PublishRefresh(t)
    BY <1>6 DEF Step, FinishExchange, FinishCleanup, FinishRegistration, FinishRemember,
                Publishes
  <2> QED
    BY <1>2, <1>3, <1>4, <2>1, PrepareExchangeStored, PrepareRegistrationStored,
       PrepareRememberStored, PrepareCleanupStored, SaveStored, PublishStored
<1> QED
  BY <1>5, <1>6

\* A new process has what the file holds, and the capacities it was saved with.
LEMMA RestartStored ==
  ASSUME DurableInv, TypeOK', Restart
  PROVE  StorageInv'
<1>1. /\ TypeOK /\ CapacityInv /\ ClocksOK /\ JobsOK
  BY DEF DurableInv, CredentialInv, StorageInv
<1>2. /\ UNCHANGED <<now, disk, codeAt, issuedAt, registeredAt, parent, answered>>
      /\ codes' = {}
      /\ access' = Unexpired(disk.access, AccessExpiry, now)
      /\ refresh' = Unexpired(disk.refresh, RefreshExpiry, now)
      /\ clients' = Unexpired(disk.clients, ClientExpiry, now)
  BY DEF Restart, LoadFrom, history
<1>3. \A u \in Tasks : /\ pc'[u] = "idle" /\ job'[u] = NoJob
                       /\ snap'[u] = EmptySnapshot /\ at'[u] = Never
  BY DEF Restart, LoadFrom
<1>4. sessions' = disk.sessions
  <2>1. \A p \in Principals : DropOldest(disk.sessions[p], MaxSessions) = disk.sessions[p]
    <3> TAKE p \in Principals
    <3>1. Len(disk.sessions[p]) <= MaxSessions /\ disk.sessions[p] \in Seq(SessionIds)
      BY <1>1 DEF CapacityInv, Fits, TypeOK, Snapshots
    <3> QED
      BY <3>1, ConfigAssumption DEF DropOldest
  <2>2. sessions' = [p \in Principals |-> disk.sessions[p]]
    BY <2>1 DEF Restart, LoadFrom
  <2> QED
    BY <1>1, <2>2 DEF TypeOK, Snapshots
<1>5. \A u \in Tasks : ~Prepared(u)' /\ ~Publishing(u)'
  BY <1>3 DEF Prepared, Publishing
<1>6. /\ AccessExpiry' = AccessExpiry /\ RefreshExpiry' = RefreshExpiry
      /\ ClientExpiry' = ClientExpiry /\ Offered' = Offered /\ Registered' = Registered
  BY <1>2 DEF AccessExpiry, RefreshExpiry, ClientExpiry, Offered, Registered
<1>7. CapacityInv'
  <2>1. Cardinality(codes') <= MaxCodes
    <3>1. Cardinality(codes') = 0
      BY <1>2, FS_EmptySet
    <3> QED
      BY <3>1, ConfigAssumption
  <2>2. /\ Cardinality(access') <= MaxAccess /\ Cardinality(refresh') <= MaxRefresh
        /\ Cardinality(clients') <= MaxClients
    BY <1>1, <1>2, UnexpiredFits, FiniteMaps, ConfigAssumption DEF CapacityInv, Fits
  <2>3. Fits(DurableSnapshot)' /\ Fits(disk)'
    BY <1>1, <1>2, <1>4, <2>2 DEF CapacityInv, Fits, DurableSnapshot
  <2>4. ASSUME NEW u \in Tasks
        PROVE  Fits(snap[u])'
    BY <1>3, EmptyFits DEF Fits, EmptySnapshot
  <2> QED
    BY <2>1, <2>3, <2>4 DEF CapacityInv
<1>8. ClocksOK'
  <2>1. now \in Nat
    BY <1>1 DEF TypeOK
  <2> QED
    BY <1>1, <1>2, <1>3, <1>5, <2>1 DEF ClocksOK, Never
<1>9. JobsOK'
  <2>1. ASSUME NEW u \in Tasks
        PROVE  RequestOK(u)' /\ pc'[u] \notin {"saved", "half"}
    BY <1>3 DEF RequestOK, NoJob
  <2>2. (clients \cup disk.clients)' \subseteq Registered'
    BY <1>1, <1>2, <1>6 DEF JobsOK, Unexpired
  <2> QED
    BY <1>5, <2>1, <2>2 DEF JobsOK
<1>10. \A u \in Tasks : CopyOK(u)' /\ TokensOK(u)'
  BY <1>5 DEF CopyOK, TokensOK, Prepared
<1>11. MemoryMatchesDisk'
  BY <1>2, <1>4, <1>6 DEF MemoryMatchesDisk, Unexpired
<1> QED
  BY <1>7, <1>8, <1>9, <1>10, <1>11 DEF StorageInv

LEMMA InitStored == Init => StorageInv
<1> SUFFICES ASSUME Init
             PROVE  StorageInv
  OBVIOUS
<1>1. \A u \in Tasks : /\ pc[u] = "idle" /\ job[u] = NoJob
                       /\ snap[u] = EmptySnapshot /\ at[u] = Never
  BY DEF Init
<1>2. \A u \in Tasks : ~Prepared(u) /\ ~Publishing(u)
  BY <1>1 DEF Prepared, Publishing
<1>3. CapacityInv
  <2>1. Cardinality(codes) <= MaxCodes
    BY FS_EmptySet, ConfigAssumption DEF Init
  <2>2. DurableSnapshot = EmptySnapshot /\ disk = EmptySnapshot
    BY DEF Init, DurableSnapshot, EmptySnapshot
  <2> QED
    BY <1>1, <2>1, <2>2, EmptyFits DEF CapacityInv
<1>4. ClocksOK
  BY <1>1, <1>2 DEF ClocksOK, Init, Never
<1>5. JobsOK
  BY <1>1, <1>2 DEF JobsOK, RequestOK, Init, NoJob, EmptySnapshot
<1>6. \A u \in Tasks : CopyOK(u) /\ TokensOK(u)
  BY <1>1, <1>2 DEF CopyOK, TokensOK
<1>7. MemoryMatchesDisk
  BY DEF MemoryMatchesDisk, Init, EmptySnapshot, Unexpired
<1> QED
  BY <1>3, <1>4, <1>5, <1>6, <1>7 DEF StorageInv

LEMMA NextStored ==
  ASSUME DurableInv, [Next]_vars
  PROVE  DurableInv'
<1>1. CredentialInv' /\ TypeOK'
  BY NextSafe DEF DurableInv, CredentialInv
<1>2. TypeOK /\ CapacityInv
  BY DEF DurableInv, CredentialInv, StorageInv
<1>3. ASSUME Tick \/ UNCHANGED vars
      PROVE  StorageInv'
  <2>1. /\ UNCHANGED <<codes, access, refresh, clients, sessions, disk, pc, job, snap, at,
                       new, codeAt, issuedAt, registeredAt, parent, answered>>
        /\ now' \in {now, now + 1}
    BY <1>3 DEF Tick, vars, memory, taskVars, history
  <2>2. Offered' = Offered /\ Cardinality(codes') <= MaxCodes
    BY <1>2, <2>1 DEF Offered, CapacityInv
  <2> QED
    BY <1>1, <2>1, <2>2, Undisturbed DEF DurableInv
<1>4. ASSUME NEW c \in Codes, Authorize(c)
      PROVE  StorageInv'
  BY <1>1, <1>4, AuthorizeStored
<1>5. ASSUME NEW t \in Tasks, Arrive(t)
      PROVE  StorageInv'
  BY <1>1, <1>5, ArriveStored
<1>6. ASSUME NEW t \in Tasks, Disconnect(t)
      PROVE  StorageInv'
  BY <1>1, <1>6, EndedStored DEF Disconnect, Publishing, memory
<1>7. ASSUME NEW t \in Tasks, Acquire(t)
      PROVE  StorageInv'
  <2>1. /\ pc[t] = "queued" /\ pc' = [pc EXCEPT ![t] = "holding"] /\ job' = job
        /\ UNCHANGED <<now, memory, disk, snap, at, new, codeAt, issuedAt, registeredAt,
                       parent, answered>>
    BY <1>7 DEF Acquire, history
  <2>2. RequestOK(t) /\ job[t] \in Jobs
    BY <2>1 DEF DurableInv, StorageInv, JobsOK, RequestOK
  <2>3. Offered' = Offered /\ Registered' = Registered
    BY <2>1 DEF Offered, Registered
  <2>4. RequestOK(t)'
    BY <2>1, <2>2, <2>3 DEF RequestOK
  <2> QED
    BY <1>1, <2>1, <2>2, <2>4, WaitingStored
<1>8. ASSUME NEW t \in Tasks, Step(t)
      PROVE  StorageInv'
  BY <1>1, <1>8, StepStored
<1>9. ASSUME Restart
      PROVE  StorageInv'
  BY <1>1, <1>9, RestartStored
<1>10. StorageInv'
  BY <1>3, <1>4, <1>5, <1>6, <1>7, <1>8, <1>9 DEF Next
<1> QED
  BY <1>1, <1>10 DEF DurableInv

\* The memory, the snapshots and the file keep to one another and to their bounds in
\* every execution.
THEOREM DurableInvariant == Spec => []DurableInv
<1>1. Init => DurableInv
  BY InitSafe, InitStored DEF DurableInv
<1> QED
  BY <1>1, NextStored, PTL DEF Spec

\* Whenever no transaction is publishing, the memory holds what a restart would load.
THEOREM MemoryIsSaved == Spec => []MemoryMatchesDisk
<1>1. DurableInv => MemoryMatchesDisk
  BY DEF DurableInv, StorageInv
<1> QED
  BY <1>1, DurableInvariant, PTL

\* The configured capacities bound the memory and the state file.
THEOREM CapacitiesHold == Spec => []Bounded
<1>1. DurableInv => Bounded
  BY DEF DurableInv, StorageInv, CapacityInv, Fits, DurableSnapshot, Bounded
<1> QED
  BY <1>1, DurableInvariant, PTL

-----------------------------------------------------------------------------
(* The token endpoint implements the one-time ledger *)

LEMMA TheOne ==
  ASSUME NEW f, NEW t \in Tasks, f[t] \in {"saved", "half"},
         \A u \in Tasks \ {t} : f[u] \notin {"saved", "half"}
  PROVE  (CHOOSE u \in Tasks : f[u] \in {"saved", "half"}) = t
OBVIOUS

\* What is published next, with a committed transaction under way and without.
LEMMA PublishedNext ==
  ASSUME GateHeld
  PROVE  /\ \A t \in Tasks :
              pc[t] \in {"saved", "half"} => PublishedRefresh = snap[t].refresh
         /\ (\A t \in Tasks : pc[t] \notin {"saved", "half"})
              => PublishedRefresh = refresh
<1>1. ASSUME NEW t \in Tasks, pc[t] \in {"saved", "half"}
      PROVE  PublishedRefresh = snap[t].refresh
  <2>1. \A u \in Tasks \ {t} : pc[u] \notin {"saved", "half"}
    BY <1>1 DEF GateHeld
  <2>2. (CHOOSE u \in Tasks : pc[u] \in {"saved", "half"}) = t
    BY <1>1, <2>1, TheOne
  <2> QED
    BY <1>1, <2>2 DEF PublishedRefresh
<1> QED
  BY <1>1 DEF PublishedRefresh

\* The same of the next state.
LEMMA PublishedAfter ==
  ASSUME GateHeld'
  PROVE  /\ \A t \in Tasks :
              pc'[t] \in {"saved", "half"} => PublishedRefresh' = snap'[t].refresh
         /\ (\A t \in Tasks : pc'[t] \notin {"saved", "half"})
              => PublishedRefresh' = refresh'
<1>1. ASSUME NEW t \in Tasks, pc'[t] \in {"saved", "half"}
      PROVE  PublishedRefresh' = snap'[t].refresh
  <2>1. \A u \in Tasks \ {t} : pc'[u] \notin {"saved", "half"}
    BY <1>1 DEF GateHeld
  <2>2. (CHOOSE u \in Tasks : pc'[u] \in {"saved", "half"}) = t
    BY <1>1, <2>1, TheOne
  <2> QED
    BY <1>1, <2>2 DEF PublishedRefresh
<1> QED
  BY <1>1 DEF PublishedRefresh

\* A step that commits nothing and publishes no refresh token changes nothing that is
\* published next.
LEMMA SamePublished ==
  ASSUME GateHeld, GateHeld', refresh' = refresh,
         \A u \in Tasks : pc'[u] \in {"saved", "half"} <=> pc[u] \in {"saved", "half"},
         \A u \in Tasks : pc[u] \in {"saved", "half"} => snap'[u] = snap[u]
  PROVE  PublishedRefresh' = PublishedRefresh
<1>1. CASE \E t \in Tasks : pc[t] \in {"saved", "half"}
  <2>1. PICK t \in Tasks : pc[t] \in {"saved", "half"}
    BY <1>1
  <2>2. PublishedRefresh = snap[t].refresh
    BY <2>1, PublishedNext
  <2>3. PublishedRefresh' = snap'[t].refresh
    BY <2>1, PublishedAfter
  <2> QED
    BY <2>1, <2>2, <2>3
<1>2. CASE ~ \E t \in Tasks : pc[t] \in {"saved", "half"}
  BY <1>2, PublishedNext, PublishedAfter
<1> QED
  BY <1>1, <1>2

\* Such a step lets credentials vanish, at most.
LEMMA Vanishing ==
  ASSUME GateHeld, GateHeld', refresh' = refresh,
         \A u \in Tasks : pc'[u] \in {"saved", "half"} <=> pc[u] \in {"saved", "half"},
         \A u \in Tasks : pc[u] \in {"saved", "half"} => snap'[u] = snap[u],
         \A u \in Tasks : pc'[u] = "saving" /\ job'[u].kind = "exchange" =>
           job'[u].of \in StillLive,
         codes' \subseteq codes, UNCHANGED <<codeAt, parent, answered>>
  PROVE  Ledger!Vanish
<1>1. PublishedRefresh' = PublishedRefresh
  BY SamePublished
<1>2. Spent' = Spent /\ Offered' = Offered
  BY SameHistory
<1>3. Claimed' \subseteq StillLive
  BY DEF Claimed
<1>4. StillLive' \subseteq StillLive
  BY <1>1, <1>2, <1>3 DEF StillLive
<1> QED
  BY <1>2, <1>4 DEF Ledger!Vanish

\* An unspent credential that a validated exchange is about to spend is live.
LEMMA ClaimedLive ==
  ASSUME SavingOK, NEW u \in Tasks, pc[u] = "saving", job[u].kind = "exchange"
  PROVE  job[u].of \in StillLive
BY DEF SavingOK, StillLive, Claimed

LEMMA PrepareVanishes ==
  ASSUME CredentialInv, GateHeld', NEW t \in Tasks, pc[t] = "holding",
         NEW s, NEW g, Prepare(t, s, g), codes' \subseteq codes,
         job[t].kind = "exchange" => Redeemable(job[t].of)
  PROVE  Ledger!Vanish
<1>1. TypeOK /\ GateHeld
  BY DEF CredentialInv
<1>2. /\ UNCHANGED <<refresh, job, codeAt, parent, answered>>
      /\ pc'[t] = "saving"
      /\ \A u \in Tasks \ {t} : pc'[u] = pc[u] /\ snap'[u] = snap[u]
      /\ \A u \in Tasks \ {t} : pc[u] \in {"idle", "queued"}
  BY <1>1, OnlyHolder DEF Prepare, TypeOK, history
<1>3. PublishedRefresh = refresh
  BY <1>1, <1>2, PublishedNext
<1>4. job[t].kind = "exchange" => job[t].of \in StillLive
  BY <1>3, RedeemableIsUnspent DEF Redeemable, StillLive
<1>5. \A u \in Tasks : pc'[u] = "saving" /\ job'[u].kind = "exchange" =>
           job'[u].of \in StillLive
  BY <1>2, <1>4
<1> QED
  BY <1>1, <1>2, <1>5, Vanishing

LEMMA EndingVanishes ==
  ASSUME CredentialInv, GateHeld', NEW t \in Tasks, Done(t),
         pc[t] \notin {"saved", "half"}, codes' \subseteq codes,
         UNCHANGED <<refresh, codeAt, parent, answered>>
  PROVE  Ledger!Vanish
<1>1. TypeOK /\ GateHeld /\ SavingOK
  BY DEF CredentialInv
<1>2. /\ pc'[t] = "idle"
      /\ \A u \in Tasks \ {t} : pc'[u] = pc[u] /\ snap'[u] = snap[u] /\ job'[u] = job[u]
  BY <1>1 DEF Done, TypeOK
<1>3. \A u \in Tasks : pc'[u] = "saving" /\ job'[u].kind = "exchange" =>
           job'[u].of \in StillLive
  BY <1>1, <1>2, ClaimedLive
<1> QED
  BY <1>1, <1>2, <1>3, Vanishing

\* Saving the snapshot of an exchange is the exchange.
LEMMA SaveRedeems ==
  ASSUME DurableInv, CredentialInv', NEW t \in Tasks, Save(t)
  PROVE  Ledger!Next
<1>1. /\ TypeOK /\ GateHeld /\ SavingOK /\ Known /\ JobsOK /\ TokensOK(t) /\ GateHeld'
  BY DEF DurableInv, CredentialInv, StorageInv
<1>2. /\ UNCHANGED <<codes, refresh, job, snap, new, codeAt, answered>>
      /\ pc[t] = "saving" /\ pc'[t] \in {"saved", "publishing"}
      /\ pc'[t] = "saved" <=> job[t].kind \in {"exchange", "cleanup"}
      /\ \A u \in Tasks \ {t} : pc'[u] = pc[u]
  BY <1>1 DEF Save, TypeOK, memory
<1>3. \A u \in Tasks \ {t} : pc[u] \in {"idle", "queued"}
  BY <1>1, <1>2, OnlyHolder
<1>4. /\ PublishedRefresh = refresh
      /\ PublishedRefresh' = IF pc'[t] = "saved" THEN snap[t].refresh ELSE refresh
  BY <1>1, <1>2, <1>3, PublishedNext, PublishedAfter
<1>5. Claimed' = {} /\ Offered' = Offered
  BY <1>2, <1>3 DEF Claimed, Offered
<1>6. snap[t].refresh \subseteq refresh \cup {new[t]}
  BY <1>1, <1>2 DEF TokensOK
<1>7. CASE job[t].kind = "exchange"
  <2> DEFINE c == job[t].of
             g == new[t]
  <2>1. /\ g \in Grants \ Committed
        /\ c \in (Offered \cup Committed) \ Spent
        /\ snap[t].refresh
             \subseteq (Committed \ (Spent \cup {c})) \cup {g}
        /\ g \in snap[t].refresh
        /\ c \in Offered \cup answered
        /\ parent' = [parent EXCEPT ![g] = c]
    BY <1>1, <1>2, <1>7 DEF SavingOK, TokensOK, JobsOK, RequestOK, Save
  <2>2. c # None /\ c # g /\ c \in Codes \cup Grants
    BY <2>1, IdAssumption DEF Offered, Committed
  <2>3. Spent' = Spent \cup {c}
    <3>1. Committed' = Committed \cup {g} /\ parent'[g] = c
      BY <1>1, <2>1, <2>2 DEF Committed, TypeOK
    <3>2. \A h \in Committed : h # g /\ parent'[h] = parent[h]
      BY <1>1, <2>1 DEF Committed, TypeOK
    <3> QED
      BY <3>1, <3>2 DEF Spent
  <2>4. c \in StillLive
    BY <1>1, <1>2, <1>7, ClaimedLive
  <2>5. StillLive' = (codes \ (Spent \cup {c})) \cup snap[t].refresh
    BY <1>2, <1>4, <1>5, <1>7, <2>3 DEF StillLive
  <2>6. StillLive = ((codes \cup Claimed) \ Spent) \cup refresh
    BY <1>4 DEF StillLive
  <2>7. StillLive' \ {g} \subseteq StillLive \ {c} /\ g \in StillLive'
    BY <1>6, <2>1, <2>2, <2>5, <2>6
  <2>8. StillLive' \in {keep \cup {g} : keep \in SUBSET (StillLive \ {c})}
    <3>1. StillLive' = (StillLive' \ {g}) \cup {g}
      BY <2>7
    <3> QED
      BY <2>7, <3>1
  <2>9. g \in Grants \ Ledger!Issued
    BY <2>1 DEF Committed, Ledger!Issued
  <2>10. Ledger!Redeem(c, g)
    BY <1>2, <1>5, <2>1, <2>4, <2>8, <2>9 DEF Ledger!Redeem
  <2> QED
    BY <2>1, <2>2, <2>10 DEF Ledger!Next
<1>8. CASE job[t].kind # "exchange"
  <2>1. parent' = parent /\ new[t] = None
    BY <1>1, <1>2, <1>8 DEF Save, JobsOK, Prepared
  <2>2. Spent' = Spent
    BY <2>1 DEF Spent, Committed
  <2>3. snap[t].refresh \subseteq refresh
    <3>1. snap[t].refresh \subseteq Grants
      BY <1>1 DEF TypeOK, Snapshots
    <3> QED
      BY <1>6, <2>1, <3>1, IdAssumption
  <2>4. StillLive' \subseteq StillLive
    BY <1>2, <1>4, <1>5, <2>2, <2>3 DEF StillLive
  <2> QED
    BY <1>2, <1>5, <2>1, <2>4 DEF Ledger!Vanish, Ledger!Next
<1> QED
  BY <1>7, <1>8

\* A login offers its code, whatever it pushes out.
LEMMA AuthorizeOffers ==
  ASSUME CredentialInv, CredentialInv', NEW c \in Codes, Authorize(c)
  PROVE  Ledger!Offer(c)
<1>1. TypeOK /\ GateHeld /\ Known /\ GateHeld'
  BY DEF CredentialInv
<1>2. /\ UNCHANGED <<refresh, pc, job, snap, parent, answered>>
      /\ codeAt[c] = Never /\ codeAt' = [codeAt EXCEPT ![c] = now]
  BY DEF Authorize, taskVars
<1>3. codes' \subseteq codes \cup {c} /\ c \in codes'
  <2>1. codes \in SUBSET Codes
    BY <1>1 DEF TypeOK
  <2>2. codes' \subseteq codes \cup {c}
    BY <2>1, InsertBoundedType DEF Authorize
  <2>3. c \in codes'
    BY <1>1, FiniteMaps, InsertBoundedFits, ConfigAssumption DEF Authorize
  <2> QED
    BY <2>2, <2>3
<1>4. Offered' = Offered \cup {c} /\ c \notin Offered
  BY <1>1, <1>2 DEF Offered, TypeOK, Known
<1>5. Spent' = Spent /\ Claimed' = Claimed
  BY <1>2 DEF Spent, Committed, Claimed
<1>6. c \notin Spent
  BY <1>1, <1>4, IdAssumption DEF Known, Committed
<1>7. PublishedRefresh' = PublishedRefresh
  BY <1>1, <1>2, SamePublished
<1>8. StillLive' \ {c} \subseteq StillLive /\ c \in StillLive'
  BY <1>3, <1>5, <1>6, <1>7 DEF StillLive
<1>9. StillLive' \in {keep \cup {c} : keep \in SUBSET StillLive}
  <2>1. StillLive' = (StillLive' \ {c}) \cup {c}
    BY <1>8
  <2> QED
    BY <1>8, <2>1
<1> QED
  BY <1>2, <1>4, <1>9 DEF Ledger!Offer

\* The response of a committed exchange is the only thing that its end adds.
LEMMA FinishAnswers ==
  ASSUME DurableInv, GateHeld', NEW t \in Tasks, FinishExchange(t)
  PROVE  Ledger!Next
<1>1. TypeOK /\ GateHeld /\ PublishingOK /\ JobsOK
  BY DEF DurableInv, CredentialInv, StorageInv
<1>2. /\ pc[t] = "publishing" /\ job[t].kind = "exchange" /\ Done(t)
      /\ codes' = codes \ {job[t].of}
      /\ answered' = answered \/ answered' = answered \cup {new[t]}
      /\ UNCHANGED <<refresh, codeAt, parent>>
  BY DEF FinishExchange, Publishes
<1>3. new[t] \in Committed /\ parent[new[t]] = job[t].of
  BY <1>1, <1>2 DEF PublishingOK, JobsOK, Publishing
<1>4. job[t].of \in Spent
  BY <1>3 DEF Spent
<1>5. /\ pc'[t] = "idle"
      /\ \A u \in Tasks \ {t} : pc'[u] = pc[u] /\ snap'[u] = snap[u] /\ job'[u] = job[u]
  BY <1>1, <1>2 DEF Done, TypeOK
<1>6. PublishedRefresh' = PublishedRefresh
  BY <1>1, <1>2, <1>5, SamePublished
<1>7. Spent' = Spent /\ Offered' = Offered
  BY <1>2, SameHistory
<1>8. Claimed' = Claimed
  BY <1>2, <1>5 DEF Claimed
<1>9. StillLive' = StillLive
  BY <1>2, <1>4, <1>6, <1>7, <1>8 DEF StillLive
<1>10. new[t] \in Ledger!Issued /\ new[t] \in Grants
  BY <1>3 DEF Ledger!Issued, Committed
<1>11. CASE answered' = answered
  BY <1>2, <1>7, <1>9, <1>11 DEF Ledger!Next, Ledger!Vanish
<1>12. CASE answered' = answered \cup {new[t]}
  BY <1>2, <1>7, <1>9, <1>10, <1>12 DEF Ledger!Next, Ledger!Answer
<1> QED
  BY <1>2, <1>11, <1>12

LEMMA StepImplements ==
  ASSUME DurableInv, CredentialInv', NEW t \in Tasks, Step(t)
  PROVE  Ledger!Next
<1>1. TypeOK /\ GateHeld /\ SavingOK /\ GateHeld' /\ CredentialInv
  BY DEF DurableInv, CredentialInv
<1>2. CASE PrepareExchange(t) \/ PrepareRegistration(t) \/ PrepareRemember(t)
           \/ PrepareCleanup(t)
  <2>1. /\ pc[t] = "holding" /\ codes' \subseteq codes
        /\ job[t].kind = "exchange" => Redeemable(job[t].of)
        /\ \E s, g : Prepare(t, s, g)
    BY <1>2 DEF PrepareExchange, PrepareRegistration, PrepareRemember, PrepareCleanup,
                Holds, Unexpired
  <2> QED
    BY <1>1, <2>1, PrepareVanishes DEF Ledger!Next
<1>3. CASE Refuse(t) \/ SkipCleanup(t) \/ SaveFails(t) \/ FinishCleanup(t)
           \/ FinishRegistration(t) \/ FinishRemember(t)
  <2>1. /\ Done(t) /\ pc[t] \notin {"saved", "half"} /\ codes' \subseteq codes
        /\ UNCHANGED <<refresh, codeAt, parent, answered>>
    BY <1>3 DEF Refuse, SkipCleanup, SaveFails, FinishCleanup, FinishRegistration,
                FinishRemember, Holds, Publishes, Unexpired, memory, history
  <2> QED
    BY <1>1, <2>1, EndingVanishes DEF Ledger!Next
<1>4. CASE Save(t)
  BY <1>4, SaveRedeems
<1>5. CASE PublishAccess(t)
  <2>1. /\ UNCHANGED <<codes, refresh, job, snap, codeAt, parent, answered>>
        /\ pc[t] = "saved" /\ pc'[t] = "half"
        /\ \A u \in Tasks \ {t} : pc'[u] = pc[u]
    BY <1>1, <1>5 DEF PublishAccess, TypeOK, history
  <2>2. \A u \in Tasks : pc'[u] = "saving" /\ job'[u].kind = "exchange" =>
           job'[u].of \in StillLive
    BY <1>1, <2>1, ClaimedLive
  <2> QED
    BY <1>1, <2>1, <2>2, Vanishing DEF Ledger!Next
<1>6. CASE PublishRefresh(t)
  <2>1. /\ UNCHANGED <<codes, job, snap, codeAt, parent, answered>>
        /\ pc[t] = "half" /\ pc'[t] = "publishing" /\ refresh' = snap[t].refresh
        /\ \A u \in Tasks \ {t} : pc'[u] = pc[u]
    BY <1>1, <1>6 DEF PublishRefresh, TypeOK, history
  <2>2. \A u \in Tasks \ {t} : pc[u] \in {"idle", "queued"}
    BY <1>1, <2>1, OnlyHolder
  <2>3. PublishedRefresh' = PublishedRefresh
    BY <1>1, <2>1, <2>2, PublishedNext, PublishedAfter
  <2>4. Claimed' = Claimed
    BY <2>1 DEF Claimed
  <2>5. Spent' = Spent /\ Offered' = Offered
    BY <2>1, SameHistory
  <2> QED
    BY <2>1, <2>3, <2>4, <2>5 DEF StillLive, Ledger!Vanish, Ledger!Next
<1>7. CASE FinishExchange(t)
  BY <1>1, <1>7, FinishAnswers
<1> QED
  BY <1>2, <1>3, <1>4, <1>5, <1>6, <1>7 DEF Step

\* A restart revives nothing: what the file holds is what was published, or was about
\* to be.
LEMMA RestartVanishes ==
  ASSUME DurableInv, GateHeld', Restart
  PROVE  Ledger!Vanish
<1>1. /\ TypeOK /\ GateHeld /\ Known /\ MemoryMatchesDisk /\ \A t \in Tasks : CopyOK(t)
  BY DEF DurableInv, CredentialInv, StorageInv
<1>2. /\ UNCHANGED <<codeAt, parent, answered>> /\ codes' = {}
      /\ refresh' = Unexpired(disk.refresh, RefreshExpiry, now)
      /\ \A t \in Tasks : pc'[t] = "idle"
  BY DEF Restart, LoadFrom, history
<1>3. refresh' \subseteq PublishedRefresh
  <2>1. CASE ~Durable
    BY <1>1, <1>2, <2>1 DEF Known, EmptySnapshot, Unexpired
  <2>2. CASE Durable /\ \A t \in Tasks : ~Publishing(t)
    <3>1. PublishedRefresh = refresh
      BY <1>1, <2>2, PublishedNext DEF Publishing
    <3> QED
      BY <1>1, <1>2, <2>2, <3>1 DEF MemoryMatchesDisk
  <2>3. ASSUME Durable, NEW t \in Tasks, Publishing(t)
        PROVE  refresh' \subseteq PublishedRefresh
    <3>1. Prepared(t) /\ pc[t] \notin {"idle", "queued"}
      BY <2>3 DEF Prepared, Publishing
    <3>2. disk = snap[t]
      BY <1>1, <2>3, <3>1 DEF CopyOK
    <3>3. pc[t] = "publishing" => snap[t].refresh = refresh
      BY <1>1, <3>1 DEF CopyOK
    <3>4. \A u \in Tasks \ {t} : pc[u] \in {"idle", "queued"}
      BY <1>1, <3>1, OnlyHolder
    <3>5. PublishedRefresh = snap[t].refresh
      BY <1>1, <2>3, <3>3, <3>4, PublishedNext DEF Publishing
    <3> QED
      BY <1>2, <3>2, <3>5 DEF Unexpired
  <2> QED
    BY <2>1, <2>2, <2>3, ConfigAssumption
<1>4. PublishedRefresh' = refresh'
  BY <1>2, PublishedAfter
<1>5. Claimed' = {} /\ Spent' = Spent /\ Offered' = Offered
  BY <1>2, SameHistory DEF Claimed
<1>6. StillLive' \subseteq StillLive
  BY <1>2, <1>3, <1>4, <1>5 DEF StillLive
<1> QED
  BY <1>2, <1>5, <1>6 DEF Ledger!Vanish

LEMMA NextImplements ==
  ASSUME DurableInv, CredentialInv', [Next]_vars
  PROVE  [Ledger!Next]_(Ledger!vars)
<1>1. TypeOK /\ GateHeld /\ SavingOK /\ GateHeld' /\ CredentialInv
  BY DEF DurableInv, CredentialInv
<1>2. ASSUME Tick \/ UNCHANGED vars
      PROVE  Ledger!Vanish
  <2>1. UNCHANGED <<codes, refresh, pc, job, snap, codeAt, parent, answered>>
    BY <1>2 DEF Tick, vars, memory, taskVars, history
  <2>2. \A u \in Tasks : pc'[u] = "saving" /\ job'[u].kind = "exchange" =>
           job'[u].of \in StillLive
    BY <1>1, <2>1, ClaimedLive
  <2> QED
    BY <1>1, <2>1, <2>2, Vanishing
<1>3. ASSUME NEW c \in Codes, Authorize(c)
      PROVE  Ledger!Offer(c)
  BY <1>1, <1>3, AuthorizeOffers
<1>4. ASSUME NEW t \in Tasks, Arrive(t) \/ Acquire(t)
      PROVE  Ledger!Vanish
  <2>1. /\ UNCHANGED <<codes, refresh, snap, codeAt, parent, answered>>
        /\ pc[t] \in {"idle", "queued"} /\ pc'[t] \in {"queued", "holding"}
        /\ \A u \in Tasks \ {t} : pc'[u] = pc[u] /\ job'[u] = job[u]
    BY <1>1, <1>4 DEF Arrive, RequestExchange, RequestRegistration, RequestRemember,
                      StartCleanup, Queue, Acquire, TypeOK, memory, history
  <2>2. \A u \in Tasks : pc'[u] = "saving" /\ job'[u].kind = "exchange" =>
           job'[u].of \in StillLive
    BY <1>1, <2>1, ClaimedLive
  <2> QED
    BY <1>1, <2>1, <2>2, Vanishing
<1>5. ASSUME NEW t \in Tasks, Disconnect(t)
      PROVE  Ledger!Vanish
  <2>1. /\ Done(t) /\ pc[t] = "queued" /\ codes' = codes
        /\ UNCHANGED <<refresh, codeAt, parent, answered>>
    BY <1>5 DEF Disconnect, memory, history
  <2> QED
    BY <1>1, <2>1, EndingVanishes
<1>6. ASSUME NEW t \in Tasks, Step(t)
      PROVE  Ledger!Next
  BY <1>6, StepImplements
<1>7. ASSUME Restart
      PROVE  Ledger!Vanish
  BY <1>1, <1>7, RestartVanishes
<1> QED
  BY <1>2, <1>3, <1>4, <1>5, <1>6, <1>7 DEF Next, Ledger!Next

\* Saving the snapshot of an exchange is the instant at which it happens, and nothing
\* else exchanges a credential or revives one: the code implements the ledger.
THEOREM LedgerImplemented == Spec => ImplementsLedger
<1>1. Init => Ledger!Init
  <2> SUFFICES ASSUME Init
               PROVE  Ledger!Init
    OBVIOUS
  <2>1. Offered = {} /\ Claimed = {} /\ PublishedRefresh = {}
    BY DEF Init, Offered, Claimed, PublishedRefresh
  <2> QED
    BY <2>1 DEF Init, Ledger!Init, StillLive
<1>2. DurableInv /\ DurableInv' /\ [Next]_vars => [Ledger!Next]_(Ledger!vars)
  BY NextImplements DEF DurableInv
<1> QED
  BY <1>1, <1>2, DurableInvariant, PTL DEF Spec, ImplementsLedger, Ledger!Spec

\* The ledger keeps its own promise: what is spent is not redeemable any more, and was
\* spent once.
THEOREM LedgerIsOneTime == Ledger!Spec => []Ledger!OneTime
<1>0. Codes \cap Grants = {} /\ None \notin Codes \cup Grants
  BY IdAssumption
<1>1. Ledger!Init => Ledger!LedgerInv
  <2> SUFFICES ASSUME Ledger!Init
               PROVE  Ledger!LedgerInv
    OBVIOUS
  <2>1. Ledger!Issued = {} /\ Ledger!Spent = {}
    BY DEF Ledger!Init, Ledger!Issued, Ledger!Spent
  <2> QED
    BY <2>1 DEF Ledger!Init, Ledger!LedgerInv, Ledger!OneTime
<1>2. Ledger!LedgerInv /\ [Ledger!Next]_(Ledger!vars) => Ledger!LedgerInv'
  <2> SUFFICES ASSUME Ledger!LedgerInv, [Ledger!Next]_(Ledger!vars)
               PROVE  Ledger!LedgerInv'
    OBVIOUS
  <2> USE DEF Ledger!LedgerInv, Ledger!OneTime
  <2>1. ASSUME UNCHANGED parent
        PROVE  Ledger!Issued' = Ledger!Issued /\ Ledger!Spent' = Ledger!Spent
    BY <2>1 DEF Ledger!Issued, Ledger!Spent
  <2>2. ASSUME NEW c \in Codes, Ledger!Offer(c)
        PROVE  Ledger!LedgerInv'
    <3>1. /\ c \notin Offered /\ Offered' = Offered \cup {c} /\ parent' = parent
          /\ StillLive' \subseteq StillLive \cup {c}
      BY <2>2 DEF Ledger!Offer
    <3>2. c \notin Ledger!Spent
      BY <1>0, <3>1 DEF Ledger!Issued
    <3> QED
      BY <2>1, <3>1, <3>2
  <2>3. ASSUME NEW c \in Codes \cup Grants, NEW g \in Grants, Ledger!Redeem(c, g)
        PROVE  Ledger!LedgerInv'
    <3>1. /\ c \in StillLive /\ g \in Grants \ Ledger!Issued
          /\ parent' = [parent EXCEPT ![g] = c]
          /\ StillLive' \subseteq (StillLive \ {c}) \cup {g} /\ Offered' = Offered
      BY <2>3 DEF Ledger!Redeem
    <3>2. c # None /\ c # g /\ g \notin Offered
      BY <1>0, <3>1
    <3>3. Ledger!Issued' = Ledger!Issued \cup {g} /\ parent'[g] = c
      BY <3>1, <3>2 DEF Ledger!Issued
    <3>4. \A h \in Ledger!Issued : h # g /\ parent'[h] = parent[h]
      BY <3>1 DEF Ledger!Issued
    <3>5. Ledger!Spent' = Ledger!Spent \cup {c}
      BY <3>3, <3>4 DEF Ledger!Spent
    <3>6. g \notin Ledger!Spent
      BY <3>1, <3>2
    <3>7. (StillLive \cap Ledger!Spent)' = {}
      BY <3>1, <3>2, <3>5, <3>6
    <3>8. \A h \in Ledger!Issued : parent'[h] # c
      BY <3>1, <3>4 DEF Ledger!Spent
    <3>9. \A h, k \in Ledger!Issued' : parent'[h] = parent'[k] => h = k
      BY <3>3, <3>4, <3>8
    <3>10. /\ Offered' \subseteq Codes
           /\ parent' \in [Grants -> Codes \cup Grants \cup {None}]
           /\ (StillLive \cup Ledger!Spent)' \subseteq Offered' \cup Ledger!Issued'
      BY <3>1, <3>3, <3>5
    <3> QED
      BY <3>7, <3>9, <3>10
  <2>4. ASSUME (\E g \in Grants : Ledger!Answer(g)) \/ Ledger!Vanish
               \/ UNCHANGED Ledger!vars
        PROVE  Ledger!LedgerInv'
    <3>1. parent' = parent /\ Offered' = Offered /\ StillLive' \subseteq StillLive
      BY <2>4 DEF Ledger!Answer, Ledger!Vanish, Ledger!vars
    <3> QED
      BY <2>1, <3>1
  <2> QED
    BY <2>2, <2>3, <2>4 DEF Ledger!Next
<1>3. Ledger!LedgerInv => Ledger!OneTime
  BY DEF Ledger!LedgerInv
<1> QED
  BY <1>1, <1>2, <1>3, PTL DEF Ledger!Spec

-----------------------------------------------------------------------------
(* What a step may take away *)

\* A published map holds what its snapshot does; what it loses had expired, or is
\* pushed out of a full map by tokens that expire no earlier.
LEMMA EvictedOrPushed ==
  ASSUME NEW T, NEW old \in SUBSET T, NEW keep \in SUBSET T, NEW drawn, NEW max,
         NEW expiry \in [T -> Nat], NEW time \in Nat,
         Evicts(old, keep, drawn, max, expiry, time),
         drawn \in keep => \A x \in old : expiry[x] <= expiry[drawn],
         NEW x \in old \ keep
  PROVE  expiry[x] <= time \/ PushedOut(x, keep, max, expiry)
BY DEF Evicts, PushedOut

\* No token is younger than the one that the transaction under way has drawn.
LEMMA DrawnIsYoungest ==
  ASSUME DurableInv, NEW t \in Tasks, Publishing(t), new[t] \in Grants,
         NEW g \in Grants
  PROVE  /\ AccessExpiry[g] <= AccessExpiry[new[t]]
         /\ RefreshExpiry[g] <= RefreshExpiry[new[t]]
<1>1. TypeOK /\ ClocksOK /\ JobsOK
  BY DEF DurableInv, CredentialInv, StorageInv
<1>2. Prepared(t)
  BY DEF Publishing, Prepared
<1>3. job[t].kind = "exchange"
  BY <1>1, <1>2, IdAssumption DEF JobsOK
<1>4. issuedAt[new[t]] = at[t] /\ issuedAt[g] <= at[t]
  BY <1>1, <1>2, <1>3 DEF JobsOK, ClocksOK
<1>5. /\ issuedAt[g] \in Nat /\ issuedAt[new[t]] \in Nat
      /\ AccessTTL \in Nat /\ RefreshTTL \in Nat
  BY <1>1, ConfigAssumption DEF TypeOK
<1> QED
  BY <1>4, <1>5 DEF AccessExpiry, RefreshExpiry

\* Loading a map whose snapshot pushed x out: x had expired, or is pushed out still.
LEMMA PushedOutOfFile ==
  ASSUME NEW T, NEW keep \in SUBSET T, NEW max, NEW expiry \in [T -> Nat],
         NEW time \in Nat, NEW x \in T, PushedOut(x, keep, max, expiry)
  PROVE  \/ expiry[x] <= time
         \/ PushedOut(x, Unexpired(keep, expiry, time), max, expiry)
<1>1. CASE Unexpired(keep, expiry, time) = keep
  BY <1>1
<1>2. CASE Unexpired(keep, expiry, time) # keep
  <2>1. PICK y \in keep : ~(expiry[y] > time)
    BY <1>2 DEF Unexpired
  <2>2. expiry[x] <= expiry[y] /\ expiry[y] \in Nat /\ expiry[x] \in Nat
    BY <2>1 DEF PushedOut
  <2> QED
    BY <2>1, <2>2
<1> QED
  BY <1>1, <1>2

LEMMA AccessLeaves ==
  ASSUME DurableInv, [Next]_vars, NEW g \in access \ access'
  PROVE  \/ AccessExpiry[g] <= now
         \/ PushedOut(g, access', MaxAccess, AccessExpiry')
         \/ Restart /\ ~Durable
<1>1. /\ TypeOK /\ MemoryMatchesDisk /\ \A t \in Tasks : CopyOK(t) /\ TokensOK(t)
      /\ access \in SUBSET Grants /\ g \in Grants /\ now \in Nat
  BY DEF DurableInv, CredentialInv, StorageInv, TypeOK
<1>2. AccessExpiry \in [Grants -> Nat] /\ RefreshExpiry \in [Grants -> Nat]
  BY <1>1, ExpiryFunctions
<1>3. ASSUME NEW t \in Tasks, pc[t] = "saved"
      PROVE  g \in snap[t].access \/ AccessExpiry[g] <= now
               \/ PushedOut(g, snap[t].access, MaxAccess, AccessExpiry)
  <2>1. snap[t].access \in SUBSET Grants
    BY <1>1 DEF TypeOK, Snapshots
  <2>2. Publishing(t)
    BY <1>3 DEF Publishing
  <2>3. new[t] \in snap[t].access => \A x \in access : AccessExpiry[x] <= AccessExpiry[new[t]]
    BY <1>1, <2>1, <2>2, DrawnIsYoungest
  <2>4. Evicts(access, snap[t].access, new[t], MaxAccess, AccessExpiry, now)
    BY <1>1, <1>3 DEF TokensOK
  <2> QED
    BY <1>1, <1>2, <2>1, <2>3, <2>4, EvictedOrPushed
<1>4. ASSUME NEW t \in Tasks, PublishAccess(t)
      PROVE  AccessExpiry[g] <= now \/ PushedOut(g, access', MaxAccess, AccessExpiry')
  <2>1. pc[t] = "saved" /\ access' = snap[t].access /\ AccessExpiry' = AccessExpiry
    BY <1>4 DEF PublishAccess, AccessExpiry, history
  <2> QED
    BY <1>3, <2>1
<1>5. ASSUME Restart, Durable
      PROVE  AccessExpiry[g] <= now \/ PushedOut(g, access', MaxAccess, AccessExpiry')
  <2>1. access' = Unexpired(disk.access, AccessExpiry, now) /\ AccessExpiry' = AccessExpiry
    BY <1>5 DEF Restart, LoadFrom, AccessExpiry, history
  <2>2. g \in disk.access => AccessExpiry[g] <= now
    BY <1>1, <1>2, <2>1 DEF Unexpired
  <2>3. CASE \A t \in Tasks : ~Publishing(t)
    BY <1>1, <1>5, <2>2, <2>3 DEF MemoryMatchesDisk
  <2>4. ASSUME NEW t \in Tasks, Publishing(t)
        PROVE  AccessExpiry[g] <= now \/ PushedOut(g, access', MaxAccess, AccessExpiry')
    <3>1. Prepared(t)
      BY <2>4 DEF Prepared, Publishing
    <3>2. disk = snap[t] /\ (pc[t] # "saved" => snap[t].access = access)
      BY <1>1, <1>5, <2>4, <3>1 DEF CopyOK, Publishing
    <3>3. CASE pc[t] # "saved"
      BY <2>2, <3>2, <3>3
    <3>4. CASE pc[t] = "saved"
      <4>1. snap[t].access \in SUBSET Grants
        BY <1>1 DEF TypeOK, Snapshots
      <4>2. AccessExpiry[g] <= now \/ PushedOut(g, snap[t].access, MaxAccess, AccessExpiry)
        BY <1>3, <2>2, <3>2, <3>4
      <4> QED
        BY <1>1, <1>2, <2>1, <3>2, <4>1, <4>2, PushedOutOfFile
    <3> QED
      BY <3>3, <3>4
  <2> QED
    BY <2>3, <2>4
<1>6. (\E t \in Tasks : PublishAccess(t)) \/ Restart
  BY ZenonT(30) DEF Next, Tick, Authorize, Arrive, RequestExchange, RequestRegistration,
         RequestRemember, StartCleanup, Queue, Disconnect, Acquire, Step, Refuse,
         PrepareExchange, PrepareRegistration, PrepareRemember, SkipCleanup,
         PrepareCleanup, Prepare, Save, SaveFails, PublishRefresh, FinishExchange,
         FinishCleanup, FinishRegistration, FinishRemember, vars, memory
<1> QED
  BY <1>4, <1>5, <1>6, ConfigAssumption

LEMMA RefreshLeaves ==
  ASSUME DurableInv, [Next]_vars, NEW g \in refresh \ refresh'
  PROVE  \/ RefreshExpiry[g] <= now
         \/ g \in Spent
         \/ PushedOut(g, refresh', MaxRefresh, RefreshExpiry')
         \/ Restart /\ ~Durable
<1>1. /\ TypeOK /\ MemoryMatchesDisk /\ JobsOK /\ PublishingOK
      /\ \A t \in Tasks : CopyOK(t) /\ TokensOK(t)
      /\ refresh \in SUBSET Grants /\ g \in Grants /\ now \in Nat
  BY DEF DurableInv, CredentialInv, StorageInv, TypeOK
<1>2. AccessExpiry \in [Grants -> Nat] /\ RefreshExpiry \in [Grants -> Nat]
  BY <1>1, ExpiryFunctions
<1>3. ASSUME NEW t \in Tasks, pc[t] \in {"saved", "half"}, g \notin Spent
      PROVE  g \in snap[t].refresh \/ RefreshExpiry[g] <= now
               \/ PushedOut(g, snap[t].refresh, MaxRefresh, RefreshExpiry)
  <2>1. snap[t].refresh \in SUBSET Grants
    BY <1>1 DEF TypeOK, Snapshots
  <2>2. Publishing(t)
    BY <1>3 DEF Publishing
  <2>3. new[t] \in snap[t].refresh => \A x \in refresh : RefreshExpiry[x] <= RefreshExpiry[new[t]]
    BY <1>1, <2>1, <2>2, DrawnIsYoungest
  <2>4. /\ Evicts(refresh \ {job[t].of}, snap[t].refresh, new[t], MaxRefresh,
                  RefreshExpiry, now)
        /\ refresh \ {job[t].of} \in SUBSET Grants
    BY <1>1, <1>3 DEF TokensOK
  <2>5. g # job[t].of
    <3>1. CASE job[t].kind = "exchange"
      <4>1. new[t] \in Committed /\ parent[new[t]] = job[t].of
        BY <1>1, <2>2, <3>1 DEF JobsOK, PublishingOK
      <4> QED
        BY <1>3, <4>1 DEF Spent
    <3>2. CASE job[t].kind = "cleanup"
      <4>1. job[t] \in Jobs
        BY <1>1, <1>3 DEF JobsOK, RequestOK
      <4>2. job[t].of = None
        BY <3>2, <4>1 DEF Jobs, ExchangeJobs, RegisterJobs, RememberJobs, CleanupJobs
      <4> QED
        BY <1>1, <4>2, IdAssumption
    <3> QED
      BY <1>1, <1>3, <3>1, <3>2 DEF JobsOK
  <2>6. new[t] \in snap[t].refresh =>
          \A x \in refresh \ {job[t].of} : RefreshExpiry[x] <= RefreshExpiry[new[t]]
    BY <2>3
  <2>7. CASE g \in snap[t].refresh
    BY <2>7
  <2>8. CASE g \notin snap[t].refresh
    <3>1. g \in (refresh \ {job[t].of}) \ snap[t].refresh
      BY <2>5, <2>8
    <3> QED
      BY <1>1, <1>2, <2>1, <2>4, <2>6, <3>1, EvictedOrPushed
  <2> QED
    BY <2>7, <2>8
<1>4. ASSUME NEW t \in Tasks, PublishRefresh(t), g \notin Spent
      PROVE  RefreshExpiry[g] <= now \/ PushedOut(g, refresh', MaxRefresh, RefreshExpiry')
  <2>1. pc[t] = "half" /\ refresh' = snap[t].refresh /\ RefreshExpiry' = RefreshExpiry
    BY <1>4 DEF PublishRefresh, RefreshExpiry, history
  <2> QED
    BY <1>3, <1>4, <2>1
<1>5. ASSUME Restart, Durable, g \notin Spent
      PROVE  RefreshExpiry[g] <= now \/ PushedOut(g, refresh', MaxRefresh, RefreshExpiry')
  <2>1. refresh' = Unexpired(disk.refresh, RefreshExpiry, now) /\ RefreshExpiry' = RefreshExpiry
    BY <1>5 DEF Restart, LoadFrom, RefreshExpiry, history
  <2>2. g \in disk.refresh => RefreshExpiry[g] <= now
    BY <1>1, <1>2, <2>1 DEF Unexpired
  <2>3. CASE \A t \in Tasks : ~Publishing(t)
    BY <1>1, <1>5, <2>2, <2>3 DEF MemoryMatchesDisk
  <2>4. ASSUME NEW t \in Tasks, Publishing(t)
        PROVE  RefreshExpiry[g] <= now \/ PushedOut(g, refresh', MaxRefresh, RefreshExpiry')
    <3>1. Prepared(t)
      BY <2>4 DEF Prepared, Publishing
    <3>2. disk = snap[t] /\ (pc[t] = "publishing" => snap[t].refresh = refresh)
      BY <1>1, <1>5, <2>4, <3>1 DEF CopyOK
    <3>3. CASE pc[t] = "publishing"
      BY <2>2, <3>2, <3>3
    <3>4. CASE pc[t] \in {"saved", "half"}
      <4>1. snap[t].refresh \in SUBSET Grants
        BY <1>1 DEF TypeOK, Snapshots
      <4>2. RefreshExpiry[g] <= now \/ PushedOut(g, snap[t].refresh, MaxRefresh, RefreshExpiry)
        BY <1>3, <1>5, <2>2, <3>2, <3>4
      <4> QED
        BY <1>1, <1>2, <2>1, <3>2, <4>1, <4>2, PushedOutOfFile
    <3> QED
      BY <2>4, <3>3, <3>4 DEF Publishing
  <2> QED
    BY <2>3, <2>4
<1>6. (\E t \in Tasks : PublishRefresh(t)) \/ Restart
  BY ZenonT(30) DEF Next, Tick, Authorize, Arrive, RequestExchange, RequestRegistration,
         RequestRemember, StartCleanup, Queue, Disconnect, Acquire, Step, Refuse,
         PrepareExchange, PrepareRegistration, PrepareRemember, SkipCleanup,
         PrepareCleanup, Prepare, Save, SaveFails, PublishAccess, FinishExchange,
         FinishCleanup, FinishRegistration, FinishRemember, vars, memory
<1> QED
  BY <1>4, <1>5, <1>6, ConfigAssumption

LEMMA CodeLeaves ==
  ASSUME DurableInv, [Next]_vars, NEW c \in codes \ codes'
  PROVE  \/ CodeExpiry[c] <= now
         \/ c \in Spent
         \/ PushedOut(c, codes', MaxCodes, CodeExpiry')
         \/ Restart
<1>1. /\ TypeOK /\ ClocksOK /\ JobsOK /\ PublishingOK /\ codes \in SUBSET Codes
      /\ c \in Codes /\ now \in Nat /\ CodeExpiry \in [Codes -> Nat] /\ CodeTTL \in Nat
  BY ExpiryFunctions, ConfigAssumption DEF DurableInv, CredentialInv, StorageInv, TypeOK
<1>2. ASSUME NEW k \in Codes, Authorize(k)
      PROVE  CodeExpiry[c] <= now \/ PushedOut(c, codes', MaxCodes, CodeExpiry')
  <2>1. /\ codes' \in InsertBounded(codes, k, MaxCodes, CodeExpiry, now)
        /\ codeAt' = [codeAt EXCEPT ![k] = now]
    BY <1>2 DEF Authorize
  <2>2. codes' \in SUBSET Codes /\ IsFiniteSet(codes) /\ k \in codes'
    BY <1>1, <2>1, InsertBoundedType, FiniteMaps, InsertBoundedFits, ConfigAssumption
  <2>3. Evicts(codes, codes', k, MaxCodes, CodeExpiry, now)
    BY <1>1, <2>1, <2>2, InsertBoundedEvicts, ConfigAssumption
  <2>4. c # k
    BY <2>2
  <2>5. /\ \A x \in Codes \ {k} : CodeExpiry'[x] = CodeExpiry[x]
        /\ CodeExpiry'[k] = now + CodeTTL
    BY <1>1, <2>1 DEF CodeExpiry, TypeOK
  <2>6. CodeExpiry[c] <= now + CodeTTL
    <3>1. codeAt[c] \in Nat /\ codeAt[c] <= now
      BY <1>1 DEF TypeOK, ClocksOK
    <3> QED
      BY <1>1, <3>1 DEF CodeExpiry
  <2> HIDE DEF CodeExpiry
  <2>7. CASE CodeExpiry[c] <= now
    BY <2>7
  <2>8. CASE ~(CodeExpiry[c] <= now)
    <3>1. /\ Cardinality(codes') = MaxCodes
          /\ \A stays \in codes' \ {k} : CodeExpiry[c] <= CodeExpiry[stays]
      BY <2>3, <2>8 DEF Evicts
    <3>2. \A stays \in codes' : CodeExpiry'[c] <= CodeExpiry'[stays]
      BY <1>1, <2>2, <2>4, <2>5, <2>6, <3>1
    <3> QED
      BY <3>1, <3>2 DEF PushedOut
  <2> QED
    BY <2>7, <2>8
<1>3. ASSUME NEW t \in Tasks, SkipCleanup(t) \/ PrepareCleanup(t)
      PROVE  CodeExpiry[c] <= now
  <2>1. codes' = Unexpired(codes, CodeExpiry, now)
    BY <1>3 DEF SkipCleanup, PrepareCleanup
  <2> QED
    BY <1>1, <2>1 DEF Unexpired
<1>4. ASSUME NEW t \in Tasks, FinishExchange(t)
      PROVE  c \in Spent
  <2>1. pc[t] = "publishing" /\ job[t].kind = "exchange" /\ codes' = codes \ {job[t].of}
    BY <1>4 DEF FinishExchange, Publishes
  <2>2. new[t] \in Committed /\ parent[new[t]] = job[t].of
    BY <1>1, <2>1 DEF JobsOK, PublishingOK, Publishing
  <2> QED
    BY <2>1, <2>2 DEF Spent
<1>5. \/ \E k \in Codes : Authorize(k)
      \/ \E t \in Tasks : SkipCleanup(t) \/ PrepareCleanup(t) \/ FinishExchange(t)
      \/ Restart
  BY DEF Next, Tick, Arrive, RequestExchange, RequestRegistration,
         RequestRemember, StartCleanup, Queue, Disconnect, Acquire, Step, Refuse,
         PrepareExchange, PrepareRegistration, PrepareRemember, Save, SaveFails,
         PublishAccess, PublishRefresh, FinishCleanup, FinishRegistration,
         FinishRemember, vars, memory
<1> QED
  BY <1>2, <1>3, <1>4, <1>5

\* Tokens and codes leave the memory only for the reasons the code has.
THEOREM CredentialsLeave == Spec => CredentialsLeaveOnlyFor
<1> DEFINE Leaves ==
      /\ \A g \in Grants :
           /\ g \in access \ access' =>
                \/ AccessExpiry[g] <= now
                \/ PushedOut(g, access', MaxAccess, AccessExpiry')
                \/ Restart /\ ~Durable
           /\ g \in refresh \ refresh' =>
                \/ RefreshExpiry[g] <= now
                \/ g \in Spent
                \/ PushedOut(g, refresh', MaxRefresh, RefreshExpiry')
                \/ Restart /\ ~Durable
      /\ \A c \in codes \ codes' :
           \/ CodeExpiry[c] <= now
           \/ c \in Spent
           \/ PushedOut(c, codes', MaxCodes, CodeExpiry')
           \/ Restart
<1>1. DurableInv /\ [Next]_vars => Leaves
  BY AccessLeaves, RefreshLeaves, CodeLeaves
<1> QED
  BY <1>1, DurableInvariant, PTL DEF Spec, CredentialsLeaveOnlyFor

\* A prepared snapshot lacks a session only when the history that lacks it is full,
\* and only the oldest.
LEMMA SessionLost ==
  ASSUME DurableInv, NEW t \in Tasks, Prepared(t), NEW p \in Principals,
         NEW s \in Elements(sessions[p]) \ Elements(snap[t].sessions[p])
  PROVE  /\ s = sessions[p][1]
         /\ Cardinality(Elements(snap[t].sessions[p])) = MaxSessions
<1>1. /\ TypeOK /\ CapacityInv /\ JobsOK /\ CopyOK(t)
      /\ sessions[p] \in Seq(SessionIds)
      /\ sessions \in [Principals -> Seq(SessionIds)]
      /\ snap[t].sessions[p] \in Seq(SessionIds)
  BY DEF DurableInv, CredentialInv, StorageInv, TypeOK, Snapshots
<1>2. /\ Len(sessions[p]) <= MaxSessions /\ NoDuplicates(sessions[p])
      /\ NoDuplicates(snap[t].sessions[p])
  BY <1>1 DEF CapacityInv, Fits, DurableSnapshot
<1> DEFINE q == job[t].of[1]
           k == job[t].of[2]
           R == RememberBounded(sessions[p], k, MaxSessions)
<1>3. job[t].kind = "remember"
  BY <1>1 DEF CopyOK
<1>4. snap[t].sessions = [sessions EXCEPT ![q] = RememberBounded(sessions[q], k, MaxSessions)]
  BY <1>1, <1>3 DEF CopyOK
<1>5. p = q /\ snap[t].sessions[p] = R
  BY <1>1, <1>4
<1>6. k \in SessionIds
  BY <1>1, <1>3, JobTypes
<1> HIDE DEF q, k
<1>7. \A x \in Elements(sessions[p]) \ Elements(R) :
        x = sessions[p][1] /\ Len(R) = MaxSessions
  BY <1>1, <1>2, <1>6, RememberBoundedLosesOldest, ConfigAssumption
<1>8. Cardinality(Elements(snap[t].sessions[p])) = Len(snap[t].sessions[p])
  BY <1>1, <1>2, ElementsCounted
<1> QED
  BY <1>5, <1>7, <1>8

LEMMA SessionsLeave ==
  ASSUME DurableInv, [Next]_vars, NEW p \in Principals,
         NEW s \in Elements(sessions[p]) \ Elements(sessions'[p])
  PROVE  \/ /\ s = sessions[p][1]
            /\ Cardinality(Elements(sessions'[p])) = MaxSessions
         \/ Restart /\ ~Durable
<1>1. /\ TypeOK /\ CapacityInv /\ MemoryMatchesDisk /\ \A t \in Tasks : CopyOK(t)
  BY DEF DurableInv, CredentialInv, StorageInv
<1>2. ASSUME NEW t \in Tasks, FinishRemember(t)
      PROVE  /\ s = sessions[p][1]
             /\ Cardinality(Elements(sessions'[p])) = MaxSessions
  <2>1. Prepared(t) /\ sessions' = snap[t].sessions
    BY <1>2 DEF FinishRemember, Publishes, Prepared
  <2> QED
    BY <2>1, SessionLost
<1>3. ASSUME Restart, Durable
      PROVE  /\ s = sessions[p][1]
             /\ Cardinality(Elements(sessions'[p])) = MaxSessions
  <2>1. sessions'[p] = disk.sessions[p]
    <3>1. Len(disk.sessions[p]) <= MaxSessions /\ disk.sessions[p] \in Seq(SessionIds)
      BY <1>1 DEF CapacityInv, Fits, TypeOK, Snapshots
    <3>2. DropOldest(disk.sessions[p], MaxSessions) = disk.sessions[p]
      BY <3>1, ConfigAssumption DEF DropOldest
    <3> QED
      BY <1>3, <3>2 DEF Restart, LoadFrom
  <2>2. PICK t \in Tasks : Publishing(t)
    BY <1>1, <1>3, <2>1 DEF MemoryMatchesDisk
  <2>3. Prepared(t) /\ disk = snap[t]
    BY <1>1, <1>3, <2>2 DEF Prepared, Publishing, CopyOK
  <2>4. s \in Elements(sessions[p]) \ Elements(snap[t].sessions[p])
    BY <2>1, <2>3
  <2> QED
    BY <2>1, <2>3, <2>4, SessionLost
<1>4. (\E t \in Tasks : FinishRemember(t)) \/ Restart
  <2>1. sessions' # sessions
    OBVIOUS
  <2> QED
    BY ZenonT(30), <2>1 DEF Next, Tick, Authorize, Arrive, RequestExchange, RequestRegistration,
         RequestRemember, StartCleanup, Queue, Disconnect, Acquire, Step, Refuse,
         PrepareExchange, PrepareRegistration, PrepareRemember, SkipCleanup,
         PrepareCleanup, Prepare, Save, SaveFails, PublishAccess, PublishRefresh,
         FinishExchange, FinishCleanup, FinishRegistration, vars, memory
<1> QED
  BY <1>2, <1>3, <1>4, ConfigAssumption

LEMMA ClientsLeave ==
  ASSUME DurableInv, [Next]_vars, NEW d \in clients \ clients'
  PROVE  ClientExpiry[d] <= now \/ (Restart /\ ~Durable)
<1>1. /\ TypeOK /\ MemoryMatchesDisk /\ ClocksOK /\ \A t \in Tasks : CopyOK(t)
      /\ d \in DcrClients /\ now \in Nat /\ ClientExpiry \in [DcrClients -> Nat]
  BY ExpiryFunctions DEF DurableInv, CredentialInv, StorageInv, TypeOK
<1>2. ASSUME NEW t \in Tasks, d \notin Unexpired(clients, ClientExpiry, at[t])
      PROVE  ClientExpiry[d] <= now
  <2>1. at[t] \in Nat /\ at[t] <= now /\ ClientExpiry[d] \in Nat
    BY <1>1 DEF TypeOK, ClocksOK
  <2>2. ~(ClientExpiry[d] > at[t])
    BY <1>2 DEF Unexpired
  <2> QED
    BY <1>1, <2>1, <2>2
<1>3. ASSUME NEW t \in Tasks, FinishCleanup(t) \/ FinishRegistration(t)
      PROVE  ClientExpiry[d] <= now
  <2>1. d \notin Unexpired(clients, ClientExpiry, at[t])
    BY <1>3 DEF FinishCleanup, FinishRegistration
  <2> QED
    BY <1>2, <2>1
<1>4. ASSUME Restart, Durable
      PROVE  ClientExpiry[d] <= now
  <2>1. clients' = Unexpired(disk.clients, ClientExpiry, now)
    BY <1>4 DEF Restart, LoadFrom
  <2>2. d \in disk.clients => ClientExpiry[d] <= now
    BY <1>1, <2>1 DEF Unexpired
  <2>3. CASE \A t \in Tasks : ~Publishing(t)
    BY <1>1, <1>4, <2>2, <2>3 DEF MemoryMatchesDisk
  <2>4. ASSUME NEW t \in Tasks, Publishing(t)
        PROVE  ClientExpiry[d] <= now
    <3>1. Prepared(t)
      BY <2>4 DEF Prepared, Publishing
    <3>2. disk = snap[t]
      BY <1>1, <1>4, <2>4, <3>1 DEF CopyOK
    <3>3. Unexpired(clients, ClientExpiry, at[t]) \subseteq snap[t].clients
      BY <1>1, <3>1 DEF CopyOK, Unexpired
    <3> QED
      BY <1>2, <2>2, <3>2, <3>3
  <2> QED
    BY <2>3, <2>4
<1>5. (\E t \in Tasks : FinishCleanup(t) \/ FinishRegistration(t)) \/ Restart
  BY ZenonT(30) DEF Next, Tick, Authorize, Arrive, RequestExchange, RequestRegistration,
         RequestRemember, StartCleanup, Queue, Disconnect, Acquire, Step, Refuse,
         PrepareExchange, PrepareRegistration, PrepareRemember, SkipCleanup,
         PrepareCleanup, Prepare, Save, SaveFails, PublishAccess, PublishRefresh,
         FinishExchange, FinishRemember, vars, memory
<1> QED
  BY <1>3, <1>4, <1>5, ConfigAssumption

\* A principal loses a session only to newer ones, a client only by expiring.
THEOREM OwnershipKept == Spec => OwnershipIsKept
<1> DEFINE Kept ==
      /\ \A p \in Principals :
           \A s \in Elements(sessions[p]) \ Elements(sessions'[p]) :
             \/ /\ s = sessions[p][1]
                /\ Cardinality(Elements(sessions'[p])) = MaxSessions
             \/ Restart /\ ~Durable
      /\ \A d \in clients \ clients' :
             ClientExpiry[d] <= now \/ (Restart /\ ~Durable)
<1>1. DurableInv /\ [Next]_vars => Kept
  BY SessionsLeave, ClientsLeave
<1> QED
  BY <1>1, DurableInvariant, PTL DEF Spec, OwnershipIsKept
=============================================================================

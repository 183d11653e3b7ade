---------------------------- MODULE DurableState ----------------------------
(***************************************************************************)
(* The bridge's credentials and session ownership: what is kept in memory, *)
(* what is saved in the state file, and the transactions that change both. *)
(*                                                                         *)
(* Every transaction (token exchange, client registration, session         *)
(* ownership, periodic cleanup) is a task that takes the durable_mutations *)
(* gate, copies the memory into a snapshot, changes the snapshot, saves it *)
(* and only then publishes the changed maps, map by map. Logins            *)
(* (Authorize) and reads do not take the gate.                             *)
(*                                                                         *)
(* Tokens, codes and client ids are random and never repeat, and the value *)
(* stored under one never changes: a map is the set of its keys, and the   *)
(* times at which keys were issued are kept apart. An exchange issues an   *)
(* access token and a refresh token together: one "grant" names both.      *)
(***************************************************************************)
EXTENDS BoundedCollections

CONSTANTS
  Tasks,        \* slots for requests in flight (and for the cleanup loop)
  Codes,        \* authorization codes
  Grants,       \* token pairs: access token g and refresh token g
  DcrClients,   \* ids of dynamically registered clients
  Principals,
  SessionIds,
  None,         \* no task, no credential
  Durable,      \* TRUE: there is a state file; FALSE: MCP_STATE_FILE=:memory:
  CodeTTL, AccessTTL, RefreshTTL, ClientTTL,
  MaxCodes, MaxAccess, MaxRefresh, MaxClients, MaxSessions,
  MaxTime       \* bound of the model: the clock stops here

Credentials == Codes \cup Grants

\* The configuration refuses a TTL or a capacity below 1 (Configuration.tla);
\* random identifiers of different kinds never coincide.
ASSUME ConfigAssumption ==
  /\ Durable \in BOOLEAN
  /\ CodeTTL \in Nat \ {0} /\ AccessTTL \in Nat \ {0}
  /\ RefreshTTL \in Nat \ {0} /\ ClientTTL \in Nat \ {0}
  /\ MaxCodes \in Nat \ {0} /\ MaxAccess \in Nat \ {0}
  /\ MaxRefresh \in Nat \ {0} /\ MaxClients \in Nat \ {0}
  /\ MaxSessions \in Nat \ {0} /\ MaxTime \in Nat
ASSUME IdAssumption ==
  /\ Codes \cap Grants = {}
  /\ None \notin Tasks \cup Codes \cup Grants \cup DcrClients
  /\ IsFiniteSet(Codes) /\ IsFiniteSet(Grants) /\ IsFiniteSet(DcrClients)

Never == 0

VARIABLES
  now,          \* now_seconds()
  \* memory (AppState)
  codes,        \* oauth_codes
  access,       \* oauth_access_tokens
  refresh,      \* oauth_refresh_tokens
  clients,      \* oauth_clients of kind DynamicRegistration
  sessions,     \* sessions: per principal, oldest first
  \* the state file
  disk,
  \* tasks
  gate,         \* the holder of durable_mutations, or None
  pc, job,      \* where each task is, and what it was asked to do
  snap,         \* the snapshot it prepared
  at,           \* the clock it read when it did
  new,          \* the grant it drew
  \* immutable attributes, and history
  codeAt, issuedAt, registeredAt,
  parent,       \* parent[g]: the credential that grant g was committed for
  answered      \* grants whose tokens reached the client

memory   == <<codes, access, refresh, clients, sessions>>
taskVars == <<gate, pc, job, snap, at, new>>
history  == <<codeAt, issuedAt, registeredAt, parent, answered>>
vars     == <<now, memory, disk, taskVars, history>>

CodeExpiry    == [c \in Codes |-> codeAt[c] + CodeTTL]
AccessExpiry  == [g \in Grants |-> issuedAt[g] + AccessTTL]
RefreshExpiry == [g \in Grants |-> issuedAt[g] + RefreshTTL]
ClientExpiry  == [d \in DcrClients |-> registeredAt[d] + ClientTTL]

Committed == {g \in Grants : parent[g] # None}
Spent     == {parent[g] : g \in Committed}

-----------------------------------------------------------------------------
ExchangeJobs == [kind : {"exchange"}, of : Credentials]
RegisterJobs == [kind : {"register"}, of : DcrClients]
RememberJobs == [kind : {"remember"}, of : Principals \X SessionIds]
CleanupJobs  == [kind : {"cleanup"}, of : {None}]
NoJob        == [kind |-> "none", of |-> None]
Jobs == ExchangeJobs \cup RegisterJobs \cup RememberJobs \cup CleanupJobs

Snapshots == [access : SUBSET Grants, refresh : SUBSET Grants,
              sessions : [Principals -> Seq(SessionIds)],
              clients : SUBSET DcrClients]

EmptySnapshot == [access |-> {}, refresh |-> {},
                  sessions |-> [p \in Principals |-> <<>>], clients |-> {}]

\* durable_snapshot: what the state file has to hold of the memory.
DurableSnapshot == [access |-> access, refresh |-> refresh,
                    sessions |-> sessions, clients |-> clients]

Init ==
  /\ now = 1
  /\ codes = {} /\ access = {} /\ refresh = {} /\ clients = {}
  /\ sessions = [p \in Principals |-> <<>>]
  /\ disk = EmptySnapshot
  /\ gate = None
  /\ pc = [t \in Tasks |-> "idle"]
  /\ job = [t \in Tasks |-> NoJob]
  /\ snap = [t \in Tasks |-> EmptySnapshot]
  /\ at = [t \in Tasks |-> Never]
  /\ new = [t \in Tasks |-> None]
  /\ codeAt = [c \in Codes |-> Never]
  /\ issuedAt = [g \in Grants |-> Never]
  /\ registeredAt = [d \in DcrClients |-> Never]
  /\ parent = [g \in Grants |-> None]
  /\ answered = {}

Tick ==
  /\ now < MaxTime
  /\ now' = now + 1
  /\ UNCHANGED <<memory, disk, taskVars, history>>

\* A successful login: authorize_post inserts a fresh code, outside the gate.
Authorize(c) ==
  /\ codeAt[c] = Never
  /\ codeAt' = [codeAt EXCEPT ![c] = now]
  /\ codes' \in InsertBounded(codes, c, MaxCodes, CodeExpiry, now)
  /\ UNCHANGED <<now, access, refresh, clients, sessions, disk, taskVars,
                 issuedAt, registeredAt, parent, answered>>

-----------------------------------------------------------------------------
(* A task waits for the gate. *)

Queue(t, j) ==
  /\ pc[t] = "idle"
  /\ pc' = [pc EXCEPT ![t] = "queued"]
  /\ job' = [job EXCEPT ![t] = j]
  /\ UNCHANGED <<now, memory, disk, gate, snap, at, new,
                 codeAt, issuedAt, parent, answered>>

\* Bound of the model: an exchange is only started while there is a grant left
\* for every exchange under way.
GrantsLeft ==
  Cardinality({u \in Tasks : job[u].kind = "exchange"})
    < Cardinality(Grants \ Committed)

\* POST /oauth/token with a code or a refresh token somebody was given.
RequestExchange(t, c) ==
  /\ c \in {k \in Codes : codeAt[k] # Never} \cup answered
  /\ GrantsLeft
  /\ Queue(t, [kind |-> "exchange", of |-> c])
  /\ UNCHANGED registeredAt

\* POST /oauth/register: the id and its expiry are fixed before the gate.
RequestRegistration(t, d) ==
  /\ registeredAt[d] = Never
  /\ registeredAt' = [registeredAt EXCEPT ![d] = now]
  /\ Queue(t, [kind |-> "register", of |-> d])

\* remember_session(principal, id), called after a backend session was created.
RequestRemember(t, p, s) ==
  /\ Queue(t, [kind |-> "remember", of |-> <<p, s>>])
  /\ UNCHANGED registeredAt

\* The single cleanup loop starts its next round.
StartCleanup(t) ==
  /\ \A u \in Tasks : job[u].kind # "cleanup"
  /\ Queue(t, [kind |-> "cleanup", of |-> None])
  /\ UNCHANGED registeredAt

\* The task becomes free; with it the gate, if it held it.
Done(t) ==
  /\ gate' = IF gate = t THEN None ELSE gate
  /\ pc' = [pc EXCEPT ![t] = "idle"]
  /\ job' = [job EXCEPT ![t] = NoJob]
  /\ snap' = [snap EXCEPT ![t] = EmptySnapshot]
  /\ at' = [at EXCEPT ![t] = Never]
  /\ new' = [new EXCEPT ![t] = None]

\* The client goes away while its request still waits: the request is dropped.
\* Once the gate is held the work is a spawned task that nothing interrupts.
Disconnect(t) ==
  /\ pc[t] = "queued"
  /\ job[t].kind # "cleanup"
  /\ Done(t)
  /\ UNCHANGED <<now, memory, disk, history>>

\* Mutant: the request does not wait for the gate.
Acquire_Ungated(t) ==
  /\ pc[t] = "queued"
  /\ gate' = t
  /\ pc' = [pc EXCEPT ![t] = "holding"]
  /\ UNCHANGED <<now, memory, disk, job, snap, at, new, history>>

Acquire(t) ==
  /\ pc[t] = "queued"
  /\ gate = None
  /\ gate' = t
  /\ pc' = [pc EXCEPT ![t] = "holding"]
  /\ UNCHANGED <<now, memory, disk, job, snap, at, new, history>>

-----------------------------------------------------------------------------
(* The holder of the gate validates its request and prepares a snapshot. *)

Holds(t, kind) == pc[t] = "holding" /\ job[t].kind = kind

Prepare(t, snapshot, grant) ==
  /\ snap' = [snap EXCEPT ![t] = snapshot]
  /\ at' = [at EXCEPT ![t] = now]
  /\ new' = [new EXCEPT ![t] = grant]
  /\ pc' = [pc EXCEPT ![t] = "saving"]
  /\ UNCHANGED <<now, access, refresh, clients, sessions, disk, gate, job,
                 history>>

\* The credential is known and unexpired.
Redeemable(c) ==
  \/ c \in codes /\ CodeExpiry[c] > now
  \/ c \in refresh /\ RefreshExpiry[c] > now

\* Mutant: the consumed refresh token stays in the snapshot.
PrepareExchange_KeepsOld(t) ==
  /\ Holds(t, "exchange")
  /\ Redeemable(job[t].of)
  /\ \E g \in Grants \ Committed :
     \E tokens \in InsertBounded(access, g, MaxAccess, AccessExpiry, now),
        rotated \in InsertBounded(refresh, g, MaxRefresh, RefreshExpiry, now) :
       Prepare(t, [DurableSnapshot EXCEPT !.access = tokens,
                                          !.refresh = rotated], g)
  /\ UNCHANGED codes

PrepareExchange(t) ==
  /\ Holds(t, "exchange")
  /\ Redeemable(job[t].of)
  /\ \E g \in Grants \ Committed :
     \E tokens \in InsertBounded(access, g, MaxAccess, AccessExpiry, now),
        rotated \in InsertBounded(refresh \ {job[t].of}, g, MaxRefresh,
                                  RefreshExpiry, now) :
       Prepare(t, [DurableSnapshot EXCEPT !.access = tokens,
                                          !.refresh = rotated], g)
  /\ UNCHANGED codes

\* An exchange is refused when its credential is not redeemable, and whenever
\* the request does not match it (client, redirect URI, resource, PKCE). A
\* registration is refused when live clients, cached metadata documents
\* included, fill the capacity.
Refuse_KeepsGate(t) ==   \* Mutant: the early return does not release the gate.
  /\ Holds(t, "exchange") \/ Holds(t, "register")
  /\ pc' = [pc EXCEPT ![t] = "idle"]
  /\ job' = [job EXCEPT ![t] = NoJob]
  /\ UNCHANGED <<now, memory, disk, gate, snap, at, new, history>>

Refuse(t) ==
  /\ Holds(t, "exchange") \/ Holds(t, "register")
  /\ Done(t)
  /\ UNCHANGED <<now, memory, disk, history>>

PrepareRegistration(t) ==
  LET live == Unexpired(clients, ClientExpiry, now) IN
  /\ Holds(t, "register")
  /\ Cardinality(live) < MaxClients
  /\ Prepare(t, [DurableSnapshot EXCEPT !.clients = live \cup {job[t].of}], None)
  /\ UNCHANGED codes

PrepareRemember(t) ==
  /\ Holds(t, "remember")
  /\ LET p == job[t].of[1] IN
     Prepare(t, [DurableSnapshot EXCEPT
                   !.sessions[p] = RememberBounded(@, job[t].of[2], MaxSessions)],
             None)
  /\ UNCHANGED codes

\* What cleanup would keep of the durable maps.
Live == [DurableSnapshot EXCEPT
           !.access  = Unexpired(access, AccessExpiry, now),
           !.refresh = Unexpired(refresh, RefreshExpiry, now),
           !.clients = Unexpired(clients, ClientExpiry, now)]

\* Codes are pruned in any case; the file is written only when something
\* durable has expired.
SkipCleanup(t) ==
  /\ Holds(t, "cleanup")
  /\ Live = DurableSnapshot
  /\ codes' = Unexpired(codes, CodeExpiry, now)
  /\ Done(t)
  /\ UNCHANGED <<now, access, refresh, clients, sessions, disk, history>>

PrepareCleanup(t) ==
  /\ Holds(t, "cleanup")
  /\ Live # DurableSnapshot
  /\ codes' = Unexpired(codes, CodeExpiry, now)
  /\ Prepare(t, Live, None)

-----------------------------------------------------------------------------
(* The snapshot is saved, then published map by map. *)

\* save_owned succeeds: the rename replaces the state file. Token exchanges and
\* cleanup publish the token maps next, the others have one map to publish.
Save(t) ==
  /\ pc[t] = "saving"
  /\ disk' = IF Durable THEN snap[t] ELSE disk
  /\ IF job[t].kind = "exchange"
     THEN /\ parent' = [parent EXCEPT ![new[t]] = job[t].of]
          /\ issuedAt' = [issuedAt EXCEPT ![new[t]] = at[t]]
     ELSE UNCHANGED <<parent, issuedAt>>
  /\ pc' = [pc EXCEPT ![t] = IF job[t].kind \in {"exchange", "cleanup"}
                             THEN "saved" ELSE "publishing"]
  /\ UNCHANGED <<now, memory, gate, job, snap, at, new, codeAt, registeredAt,
                 answered>>

\* Any failure up to and including the rename: the old file stays, the task
\* reports the error and publishes nothing.
SaveFails_Ignored(t) ==   \* Mutant: the error is logged, the task goes on.
  /\ Durable
  /\ pc[t] = "saving"
  /\ pc' = [pc EXCEPT ![t] = "saved"]
  /\ UNCHANGED <<now, memory, disk, gate, job, snap, at, new, history>>

SaveFails(t) ==
  /\ Durable
  /\ pc[t] = "saving"
  /\ Done(t)
  /\ UNCHANGED <<now, memory, disk, history>>

PublishAccess(t) ==
  /\ pc[t] = "saved"
  /\ access' = snap[t].access
  /\ pc' = [pc EXCEPT ![t] = "half"]
  /\ UNCHANGED <<now, codes, refresh, clients, sessions, disk, gate, job, snap,
                 at, new, history>>

PublishRefresh(t) ==
  /\ pc[t] = "half"
  /\ refresh' = snap[t].refresh
  /\ pc' = [pc EXCEPT ![t] = "publishing"]
  /\ UNCHANGED <<now, codes, access, clients, sessions, disk, gate, job, snap,
                 at, new, history>>

Publishes(t, kind) == pc[t] = "publishing" /\ job[t].kind = kind

\* The code is consumed (a refresh token was removed in the snapshot). The
\* response carries the only copy of the tokens, and may not arrive.
FinishExchange_KeepsCode(t) ==   \* Mutant: the code is not removed.
  /\ Publishes(t, "exchange")
  /\ answered' \in {answered, answered \cup {new[t]}}
  /\ Done(t)
  /\ UNCHANGED <<now, memory, disk, codeAt, issuedAt, registeredAt, parent>>

FinishExchange_PutsBack(t) ==   \* Mutant: inserts the key instead.
  /\ Publishes(t, "exchange")
  /\ codes' = codes \cup {job[t].of}
  /\ answered' \in {answered, answered \cup {new[t]}}
  /\ Done(t)
  /\ UNCHANGED <<now, access, refresh, clients, sessions, disk, codeAt,
                 issuedAt, registeredAt, parent>>

FinishExchange(t) ==
  /\ Publishes(t, "exchange")
  /\ codes' = codes \ {job[t].of}
  /\ answered' \in {answered, answered \cup {new[t]}}
  /\ Done(t)
  /\ UNCHANGED <<now, access, refresh, clients, sessions, disk, codeAt,
                 issuedAt, registeredAt, parent>>

FinishCleanup(t) ==
  /\ Publishes(t, "cleanup")
  /\ clients' = Unexpired(clients, ClientExpiry, at[t])
  /\ Done(t)
  /\ UNCHANGED <<now, codes, access, refresh, sessions, disk, history>>

FinishRegistration(t) ==
  /\ Publishes(t, "register")
  /\ clients' = Unexpired(clients, ClientExpiry, at[t]) \cup {job[t].of}
  /\ Done(t)
  /\ UNCHANGED <<now, codes, access, refresh, sessions, disk, history>>

FinishRemember(t) ==
  /\ Publishes(t, "remember")
  /\ sessions' = snap[t].sessions
  /\ Done(t)
  /\ UNCHANGED <<now, codes, access, refresh, clients, disk, history>>

\* load and AppState::new: the memory of a new process. Codes are not saved.
LoadFrom(file) ==
  /\ codes' = {}
  /\ access' = Unexpired(file.access, AccessExpiry, now)
  /\ refresh' = Unexpired(file.refresh, RefreshExpiry, now)
  /\ clients' = Unexpired(file.clients, ClientExpiry, now)
  /\ sessions' = [p \in Principals |-> DropOldest(file.sessions[p], MaxSessions)]
  /\ gate' = None
  /\ pc' = [t \in Tasks |-> "idle"]
  /\ job' = [t \in Tasks |-> NoJob]
  /\ snap' = [t \in Tasks |-> EmptySnapshot]
  /\ at' = [t \in Tasks |-> Never]
  /\ new' = [t \in Tasks |-> None]

\* The process ends at any point and a new one loads the state file.
Restart ==
  /\ LoadFrom(disk)
  /\ UNCHANGED <<now, disk, history>>

Arrive(t) ==
  \/ \E c \in Credentials : RequestExchange(t, c)
  \/ \E d \in DcrClients : RequestRegistration(t, d)
  \/ \E p \in Principals, s \in SessionIds : RequestRemember(t, p, s)
  \/ StartCleanup(t)

\* The steps of the holder of the gate.
Step(t) ==
  \/ Refuse(t)
  \/ PrepareExchange(t) \/ PrepareRegistration(t) \/ PrepareRemember(t)
  \/ SkipCleanup(t) \/ PrepareCleanup(t)
  \/ Save(t) \/ SaveFails(t)
  \/ PublishAccess(t) \/ PublishRefresh(t)
  \/ FinishExchange(t) \/ FinishCleanup(t)
  \/ FinishRegistration(t) \/ FinishRemember(t)

Next ==
  \/ Tick
  \/ \E c \in Codes : Authorize(c)
  \/ \E t \in Tasks : Arrive(t) \/ Disconnect(t) \/ Acquire(t) \/ Step(t)
  \/ Restart

Spec == Init /\ [][Next]_vars

\* The runtime keeps polling a spawned transaction, and a save ends one way or
\* the other (weak fairness); the mutex is handed over in the order of arrival,
\* so no waiter is overtaken for ever (strong fairness).
FairSpec ==
  /\ Spec
  /\ \A t \in Tasks : WF_vars(Step(t)) /\ SF_vars(Acquire(t))
-----------------------------------------------------------------------------
(* Properties *)

TypeOK ==
  /\ now \in Nat
  /\ codes \subseteq Codes /\ access \subseteq Grants /\ refresh \subseteq Grants
  /\ clients \subseteq DcrClients
  /\ sessions \in [Principals -> Seq(SessionIds)]
  /\ disk \in Snapshots
  /\ gate \in Tasks \cup {None}
  /\ pc \in [Tasks -> {"idle", "queued", "holding", "saving", "saved", "half",
                       "publishing"}]
  /\ job \in [Tasks -> Jobs \cup {NoJob}]
  /\ snap \in [Tasks -> Snapshots]
  /\ at \in [Tasks -> Nat]
  /\ new \in [Tasks -> Grants \cup {None}]
  /\ codeAt \in [Codes -> Nat]
  /\ issuedAt \in [Grants -> Nat]
  /\ registeredAt \in [DcrClients -> Nat]
  /\ parent \in [Grants -> Credentials \cup {None}]
  /\ answered \subseteq Grants

\* Task t has saved its snapshot and is publishing it.
Publishing(t) == pc[t] \in {"saved", "half", "publishing"}

\* "Refresh tokens rotate; a consumed refresh token cannot be reused"
\* (SECURITY.md), nor can an authorization code: the commit that spends a
\* credential takes it out of the state file, and from memory as well, except
\* while the holder of the gate is still publishing that very exchange. So
\* neither a waiting request nor a restart finds a spent credential redeemable.
SpentIsGone ==
  \A c \in Spent :
    /\ c \notin disk.refresh
    /\ c \in codes \cup refresh =>
         \E t \in Tasks : /\ gate = t /\ Publishing(t)
                          /\ job[t] = [kind |-> "exchange", of |-> c]

\* One winner per credential, over concurrent requests, retries after a failed
\* save and restarts: no two committed grants have the same parent.
OneWinner ==
  \A g, h \in Committed : parent[g] = parent[h] => g = h

\* "Reads see only committed credentials" (issue_oauth_tokens): no token is
\* accepted, in memory or after a restart, that a failed or unfinished exchange
\* drew, and no token reaches a client before its grant is committed.
VisibleIsCommitted ==
  access \cup refresh \cup disk.access \cup disk.refresh \cup answered
    \subseteq Committed

\* Whenever no transaction is publishing, the memory holds exactly what a
\* restart would load: no transaction has overwritten another's change with an
\* older snapshot, in the file or in memory. (Expired entries may linger.)
MemoryMatchesDisk ==
  (Durable /\ \A t \in Tasks : ~Publishing(t)) =>
    /\ access \subseteq disk.access
    /\ Unexpired(disk.access, AccessExpiry, now) \subseteq access
    /\ refresh \subseteq disk.refresh
    /\ Unexpired(disk.refresh, RefreshExpiry, now) \subseteq refresh
    /\ clients \subseteq disk.clients
    /\ Unexpired(disk.clients, ClientExpiry, now) \subseteq clients
    /\ sessions = disk.sessions

\* The configured capacities bound the memory and the state file.
Bounded ==
  /\ Cardinality(codes) <= MaxCodes
  /\ Cardinality(access) <= MaxAccess /\ Cardinality(disk.access) <= MaxAccess
  /\ Cardinality(refresh) <= MaxRefresh /\ Cardinality(disk.refresh) <= MaxRefresh
  /\ Cardinality(clients) <= MaxClients /\ Cardinality(disk.clients) <= MaxClients
  /\ \A p \in Principals : Len(sessions[p]) <= MaxSessions

\* A token stops being accepted only because it expired, was spent (a refresh
\* token) or was pushed out of a full map by tokens that expire no earlier, and an
\* authorization code for the same reasons or because the process ends: a refused
\* request or a failed save consumes neither, a restart loses no token when there
\* is a state file, and rotating a refresh token at capacity pushes nobody out.
CredentialsLeaveOnlyFor ==
  [][/\ \A g \in Grants :
          /\ g \in access \ access' =>
               \/ AccessExpiry[g] <= now
               \/ PushedOut(g, access', MaxAccess, AccessExpiry')
               \/ Restart /\ ~Durable
          /\ g \in refresh \ refresh' =>
               \/ RefreshExpiry[g] <= now
               \/ g \in Spent
               \/ PushedOut(g, refresh', MaxRefresh, RefreshExpiry')
               \/ Restart /\ ~Durable
     /\ \A c \in codes \ codes' :
          \/ CodeExpiry[c] <= now
          \/ c \in Spent
          \/ PushedOut(c, codes', MaxCodes, CodeExpiry')
          \/ Restart]_vars

\* A principal loses a backend session only when it was its oldest and newer
\* ones fill the history, and a client registration ends only by expiring; with
\* a state file neither is lost in a restart.
OwnershipIsKept ==
  [][/\ \A p \in Principals :
          \A s \in Elements(sessions[p]) \ Elements(sessions'[p]) :
            \/ /\ s = sessions[p][1]
               /\ Cardinality(Elements(sessions'[p])) = MaxSessions
            \/ Restart /\ ~Durable
     /\ \A d \in clients \ clients' :
            ClientExpiry[d] <= now \/ (Restart /\ ~Durable)]_vars

\* No early return, error path or lost client keeps the gate: every request and
\* every cleanup round ends.
EveryTaskEnds ==
  \A t \in Tasks : pc[t] # "idle" ~> pc[t] = "idle"
-----------------------------------------------------------------------------
(* Refinement of CredentialLedger *)

Offered == {c \in Codes : codeAt[c] # Never}

\* The refresh tokens that are accepted once the transaction that has committed,
\* if there is one, is published.
PublishedRefresh ==
  IF \E t \in Tasks : pc[t] \in {"saved", "half"}
  THEN snap[CHOOSE t \in Tasks : pc[t] \in {"saved", "half"}].refresh
  ELSE refresh

\* Credentials that a validated exchange is about to spend. A login may push
\* such a code out of the map, and the exchange still succeeds: validation, not
\* the lookup's result at commit time, decides.
Claimed == {job[t].of : t \in {u \in Tasks : pc[u] = "saving"
                                        /\ job[u].kind = "exchange"}}

StillLive == ((codes \cup Claimed) \ Spent) \cup PublishedRefresh

Ledger == INSTANCE CredentialLedger WITH offered <- Offered, live <- StillLive

\* The token endpoint implements the one-time ledger: saving the snapshot is
\* the instant at which a credential is exchanged, and everything around it
\* (waiting, refusal, failed saves, publication map by map, lost responses,
\* eviction, expiry, cleanup, restarts) exchanges nothing and revives nothing.
ImplementsLedger == Ledger!Spec
=============================================================================

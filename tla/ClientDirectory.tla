--------------------------- MODULE ClientDirectory ---------------------------
(***************************************************************************)
(* The OAuth clients known to the bridge: dynamically registered ones,     *)
(* which are durable and change only in transactions that hold the         *)
(* durable_mutations gate, and a cache of client metadata documents, which *)
(* authorization requests fill and refresh concurrently, in one map of     *)
(* bounded size.                                                           *)
(*                                                                         *)
(* A document is its version: its owner may replace it at any time. What   *)
(* validation makes of a document is left out (a fetch may fail). A clock  *)
(* is read before the lock that a step takes, and may be late by then.     *)
(***************************************************************************)
EXTENDS Integers, FiniteSets

CONSTANTS
  Tasks,        \* authorization requests that resolve a client
  Urls,         \* client ids that are URLs of metadata documents
  DcrIds,       \* ids of dynamically registered clients
  CacheTTL,     \* client_metadata_cache_ttl
  FetchTime,    \* client_metadata_timeout
  ClientTTL,    \* dcr_client_ttl
  MaxClients, None,
  MaxVersion, MaxTime   \* bounds of the model

Ids == Urls \cup DcrIds

ASSUME DirectoryAssumption ==
  /\ Urls \cap DcrIds = {}
  /\ None \notin Ids \cup Tasks
  /\ CacheTTL \in Nat \ {0} /\ FetchTime \in Nat \ {0} /\ ClientTTL \in Nat \ {0}
  /\ MaxClients \in Nat \ {0} /\ MaxTime \in Nat /\ MaxVersion \in Nat \ {0}

VARIABLES
  now,
  clients,      \* oauth_clients: the expiry and the version of each entry
  pc,           \* where each resolver is
  id, at,       \* the client it resolves, and the clock it read when it began
  fetched,      \* the entry made of the document it fetched; while that is on
                \* its way, the time at which its server answered
  result,       \* what it returned: a version, or None
  gate,         \* "free", or what the gate holder is doing
  cleaningAt,   \* the clock the gate holder read
  doc,          \* the current version of each document
  replaced,     \* replaced[u][v]: when version v of document u was replaced
  registered    \* ids that have been drawn

resolver  == <<pc, id, at, fetched, result>>
world     == <<doc, replaced>>
gateVars  == <<gate, cleaningAt, registered>>
vars      == <<now, clients, resolver, world, gateVars>>

Never   == 0
NoEntry == [expires |-> 0, version |-> 0]

Only(ks) == [k \in DOMAIN clients \cap ks |-> clients[k]]
With(c, k, entry) == [h \in DOMAIN c \cup {k} |-> IF h = k THEN entry ELSE c[h]]

LiveAt(time) == {k \in DOMAIN clients : clients[k].expires > time}
CleanCache(time) == LiveAt(time) \cup (DOMAIN clients \cap DcrIds)

\* The registrations of a state file, as a directory of this capacity has saved it
\* and load filters it.
Loaded == {ks \in SUBSET DcrIds : IsFiniteSet(ks) /\ Cardinality(ks) <= MaxClients}

Init ==
  /\ now = 1
  /\ registered \in Loaded
  /\ clients \in [registered -> [expires : now + 1..now + ClientTTL, version : {1}]]
  /\ pc = [t \in Tasks |-> "idle"]
  /\ id = [t \in Tasks |-> None]
  /\ at = [t \in Tasks |-> Never]
  /\ fetched = [t \in Tasks |-> NoEntry]
  /\ result = [t \in Tasks |-> Never]
  /\ gate = "free" /\ cleaningAt = Never
  /\ doc = [u \in Urls |-> 1]
  /\ replaced = [u \in Urls |-> [v \in 1..MaxVersion |-> Never]]

Tick ==
  /\ now < MaxTime
  /\ now' = now + 1
  /\ UNCHANGED <<clients, resolver, world, gateVars>>

\* The owner of a document replaces it.
Replace(u) ==
  /\ doc[u] < MaxVersion
  /\ doc' = [doc EXCEPT ![u] = @ + 1]
  /\ replaced' = [replaced EXCEPT ![u][doc[u]] = now]
  /\ UNCHANGED <<now, clients, resolver, gateVars>>

-----------------------------------------------------------------------------
(* resolve_oauth_client *)

\* A registration keeps the map locked while it saves.
Unlocked == gate # "registering"

Begin(t, k) ==
  /\ pc[t] = "idle"
  /\ pc' = [pc EXCEPT ![t] = "lookup"]
  /\ id' = [id EXCEPT ![t] = k]
  /\ at' = [at EXCEPT ![t] = now]
  /\ result' = [result EXCEPT ![t] = Never]
  /\ UNCHANGED <<now, clients, fetched, world, gateVars>>

Finish(t, version) ==
  /\ pc' = [pc EXCEPT ![t] = "done"]
  /\ result' = [result EXCEPT ![t] = version]
  /\ fetched' = [fetched EXCEPT ![t] = NoEntry]
  /\ UNCHANGED <<id, at>>

Move(t, to) == pc' = [pc EXCEPT ![t] = to] /\ UNCHANGED <<id, at, fetched, result>>

\* Under the read lock. What has expired is judged by the clock read before.
Lookup_Expired(t) ==   \* Mutant: an expired entry is as good as a fresh one.
  /\ pc[t] = "lookup" /\ Unlocked
  /\ IF id[t] \in DOMAIN clients THEN Finish(t, clients[id[t]].version)
                                 ELSE Move(t, "fetch")
  /\ UNCHANGED <<now, clients, world, gateVars>>

Lookup(t) ==
  /\ pc[t] = "lookup" /\ Unlocked
  /\ IF id[t] \notin DOMAIN clients THEN Move(t, "fetch")
     ELSE IF clients[id[t]].expires > at[t] THEN Finish(t, clients[id[t]].version)
     ELSE Move(t, "recheck")
  /\ UNCHANGED <<now, clients, world, gateVars>>

\* Under the write lock: a concurrent resolver may have refreshed the entry.
Recheck_Trusts(t) ==   \* Mutant: no second look.
  /\ pc[t] = "recheck" /\ Unlocked
  /\ clients' = Only(DOMAIN clients \ ({id[t]} \ DcrIds))
  /\ IF id[t] \in DcrIds THEN Finish(t, Never) ELSE Move(t, "fetch")
  /\ UNCHANGED <<now, world, gateVars>>

Recheck(t) ==
  /\ pc[t] = "recheck" /\ Unlocked
  /\ \/ /\ id[t] \notin DOMAIN clients
        /\ Move(t, "fetch")
        /\ UNCHANGED clients
     \/ /\ id[t] \in LiveAt(at[t])
        /\ Finish(t, clients[id[t]].version)
        /\ UNCHANGED clients
     \/ /\ id[t] \in DOMAIN clients \ LiveAt(at[t])
        /\ IF id[t] \in DcrIds
           THEN Finish(t, Never) /\ UNCHANGED clients
           ELSE Move(t, "fetch") /\ clients' = Only(DOMAIN clients \ {id[t]})
  /\ UNCHANGED <<now, world, gateVars>>

\* client_metadata_cache_ttl: the headers may shorten the lifetime.
Lifetimes == 0..CacheTTL

\* The server of the document answers the request.
Answered(t) ==
  /\ pc[t] = "fetch"
  /\ id[t] \in Urls
  /\ pc' = [pc EXCEPT ![t] = "reading"]
  /\ fetched' = [fetched EXCEPT ![t] = [expires |-> now, version |-> doc[id[t]]]]
  /\ UNCHANGED <<now, clients, id, at, result, world, gateVars>>

\* The whole document is here, before the timeout of the request; its lifetime
\* counts from now.
Fetch(t) ==
  /\ pc[t] = "reading"
  /\ now <= fetched[t].expires + FetchTime
  /\ \E ttl \in Lifetimes :
       IF ttl = 0
       THEN Finish(t, fetched[t].version)
       ELSE /\ pc' = [pc EXCEPT ![t] = "cache"]
            /\ fetched' = [fetched EXCEPT ![t].expires = now + ttl]
            /\ UNCHANGED <<id, at, result>>
  /\ UNCHANGED <<now, clients, world, gateVars>>

\* Not a URL of a metadata document, no answer in time, or an invalid document.
FetchFails(t) ==
  /\ pc[t] \in {"fetch", "reading"}
  /\ Finish(t, Never)
  /\ UNCHANGED <<now, clients, world, gateVars>>

\* cache_client: what has expired is judged by a clock read since the request began,
\* before the wait for the map.
Cache_Unbounded(t) ==   \* Mutant: no capacity check.
  /\ pc[t] = "cache" /\ Unlocked
  /\ \E time \in at[t]..now :
       clients' = With(Only(CleanCache(time)), id[t], fetched[t])
  /\ Finish(t, fetched[t].version)
  /\ UNCHANGED <<now, world, gateVars>>

Cache(t) ==
  /\ pc[t] = "cache" /\ Unlocked
  /\ \E time \in at[t]..now :
       LET kept == Only(CleanCache(time)) IN
       clients' = IF id[t] \in DOMAIN kept \/ Cardinality(DOMAIN kept) < MaxClients
                  THEN With(kept, id[t], fetched[t]) ELSE kept
  /\ Finish(t, fetched[t].version)
  /\ UNCHANGED <<now, world, gateVars>>

\* The request is answered, or its client has gone away at any point.
Leave(t) ==
  /\ pc[t] # "idle"
  /\ pc' = [pc EXCEPT ![t] = "idle"]
  /\ id' = [id EXCEPT ![t] = None]
  /\ at' = [at EXCEPT ![t] = Never]
  /\ fetched' = [fetched EXCEPT ![t] = NoEntry]
  /\ result' = [result EXCEPT ![t] = Never]
  /\ UNCHANGED <<now, clients, world, gateVars>>

-----------------------------------------------------------------------------
(* Transactions that hold the gate *)

\* store_registered_client: the task that holds the gate reads the clock, and waits
\* for the map. (The wait for the gate is part of DurableState.)
RegisterBegins ==
  /\ gate = "free"
  /\ gate' = "waiting" /\ cleaningAt' = now
  /\ UNCHANGED <<now, clients, resolver, world, registered>>

\* It locks the map; if there is room it saves, and keeps the map locked.
RegisterLocks ==
  /\ gate = "waiting"
  /\ Cardinality(LiveAt(cleaningAt)) < MaxClients
  /\ gate' = "registering"
  /\ UNCHANGED <<now, clients, resolver, world, cleaningAt, registered>>

GateFreed == gate' = "free" /\ cleaningAt' = Never /\ UNCHANGED <<now, resolver, world>>

\* Saved. The lifetime counts from the time the client was issued, before the wait for
\* the gate.
Registered(d) ==
  /\ gate = "registering" /\ d \notin registered
  /\ registered' = registered \cup {d}
  /\ \E issued \in 1..cleaningAt :
       clients' = With(Only(LiveAt(cleaningAt)), d,
                       [expires |-> issued + ClientTTL, version |-> 1])
  /\ GateFreed

\* There is no room, or the save fails.
RegisterFails ==
  /\ \/ gate = "waiting" /\ Cardinality(LiveAt(cleaningAt)) >= MaxClients
     \/ gate = "registering"
  /\ GateFreed /\ UNCHANGED <<clients, registered>>

\* cleanup_transaction reads the clock, cleans the cache and then, when the state file
\* has been saved, the durable clients. The map may change in between.
CleanUp ==
  /\ gate = "free"
  /\ gate' = "cleaning" /\ cleaningAt' = now
  /\ UNCHANGED <<now, clients, resolver, world, registered>>

CacheCleaned ==
  /\ gate = "cleaning"
  /\ clients' = Only(CleanCache(cleaningAt))
  /\ gate' = "saving"
  /\ UNCHANGED <<now, resolver, world, cleaningAt, registered>>

CleanedUp ==
  /\ gate = "saving"
  /\ clients' \in {Only(LiveAt(cleaningAt)), clients}
  /\ GateFreed /\ UNCHANGED registered

Next ==
  \/ Tick
  \/ \E u \in Urls : Replace(u)
  \/ \E t \in Tasks :
       \/ \E k \in Ids : Begin(t, k)
       \/ Lookup(t) \/ Recheck(t) \/ Answered(t) \/ Fetch(t) \/ FetchFails(t) \/ Cache(t)
       \/ Leave(t)
  \/ RegisterBegins \/ RegisterLocks \/ RegisterFails \/ \E d \in DcrIds : Registered(d)
  \/ CleanUp \/ CacheCleaned \/ CleanedUp

Spec == Init /\ [][Next]_vars
-----------------------------------------------------------------------------
(* Properties *)

EntriesOf(k) == [expires : 0..(now + IF k \in Urls THEN CacheTTL ELSE ClientTTL),
                 version : 0..MaxVersion]

\* Types; cached documents and registrations together never exceed max_clients,
\* and no entry lives longer than its kind may.
TypeOK ==
  /\ now \in Nat
  /\ DOMAIN clients \subseteq Ids /\ Cardinality(DOMAIN clients) <= MaxClients
  /\ \A k \in DOMAIN clients : clients[k] \in EntriesOf(k)
  /\ pc \in [Tasks -> {"idle", "lookup", "recheck", "fetch", "reading", "cache",
                      "done"}]
  /\ id \in [Tasks -> Ids \cup {None}]
  /\ at \in [Tasks -> 0..now]
  /\ fetched \in [Tasks -> [expires : Nat, version : 0..MaxVersion]]
  /\ \A t \in Tasks : fetched[t] = NoEntry \/ fetched[t] \in EntriesOf(id[t])
  /\ result \in [Tasks -> 0..MaxVersion]
  /\ gate \in {"free", "waiting", "registering", "cleaning", "saving"}
  /\ cleaningAt \in 0..now
  /\ doc \in [Urls -> 1..MaxVersion]
  /\ replaced \in [Urls -> [1..MaxVersion -> 0..now]]
  /\ registered \subseteq DcrIds

\* A request is served an outdated document only while a copy sent before the
\* replacement could still arrive and be cached: concurrent fetches may overwrite a
\* newer entry with an older one, but never prolong the older one's life.
StalenessBounded ==
  \A t \in Tasks :
    pc[t] = "done" /\ id[t] \in Urls /\ result[t] # Never =>
      \/ doc[id[t]] = result[t]
      \/ replaced[id[t]][result[t]] + FetchTime + CacheTTL > at[t]

\* Nothing is removed that has not expired: not a registered client, and not a
\* cache entry that another request refreshed in the meantime ("protect
\* refreshed client metadata from stale removal", CHANGELOG.md).
OnlyExpiredLeaves ==
  [][\A k \in DOMAIN clients \ DOMAIN clients' : clients[k].expires <= now]_vars
=============================================================================

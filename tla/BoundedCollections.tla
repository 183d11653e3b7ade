------------------------- MODULE BoundedCollections -------------------------
(***************************************************************************)
(* The two bounded containers the bridge keeps its credentials in:         *)
(*  - insert_bounded (oauth/memory.rs): a map with expiring values and a   *)
(*    capacity. A map is modelled by the set of its keys; the expiry of    *)
(*    the value under a key is given by a function.                        *)
(*  - remember_bounded (state.rs): a history without duplicates and with   *)
(*    a length limit.                                                      *)
(***************************************************************************)
EXTENDS Integers, FiniteSets, Sequences

\* The keys of S whose value is still valid at time now.
Unexpired(S, expiry, now) == {k \in S : expiry[k] > now}

\* Mutant of FirstToExpire: evicts what would live longest.
LastToExpire(S, n, expiry) ==
  {E \in SUBSET S : /\ Cardinality(E) = n
                    /\ \A e \in E, rest \in S \ E : expiry[e] >= expiry[rest]}

\* The ways to choose n keys of S that expire first. Keys that expire together
\* are interchangeable: the iteration order of a hash map decides.
FirstToExpire(S, n, expiry) ==
  {E \in SUBSET S : /\ Cardinality(E) = n
                    /\ \A e \in E, rest \in S \ E : expiry[e] <= expiry[rest]}

\* Mutant of InsertBounded: makes room one insertion too late.
InsertBounded_Late(S, key, max, expiry, now) ==
  LET kept == Unexpired(S, expiry, now) \ {key}
  IN  IF Cardinality(kept) <= max THEN {kept \cup {key}}
      ELSE {(kept \ E) \cup {key} :
              E \in FirstToExpire(kept, Cardinality(kept) - max, expiry)}

\* insert_bounded(map, key, _, max, expires_at): the maps it may leave behind.
InsertBounded(S, key, max, expiry, now) ==
  LET kept == Unexpired(S, expiry, now) \ {key}
  IN  IF max = 0 THEN {{}}
      ELSE IF Cardinality(kept) < max THEN {kept \cup {key}}
      ELSE {(kept \ E) \cup {key} :
              E \in FirstToExpire(kept, Cardinality(kept) - max + 1, expiry)}

\* key was dropped from a map to make room: the map is full, and what stayed
\* expires no earlier.
PushedOut(key, S, max, expiry) ==
  /\ Cardinality(S) = max
  /\ \A stays \in S : expiry[key] <= expiry[stays]

-----------------------------------------------------------------------------
Elements(owned) == {owned[i] : i \in DOMAIN owned}

NoDuplicates(owned) == \A i, j \in DOMAIN owned : owned[i] = owned[j] => i = j

\* pop_front while the history is longer than the limit.
DropOldest(owned, limit) ==
  IF Len(owned) > limit
  THEN SubSeq(owned, Len(owned) - limit + 1, Len(owned))
  ELSE owned

\* owned without its occurrence of id (histories hold an id once).
Forget(owned, id) ==
  IF id \in Elements(owned)
  THEN LET at == CHOOSE i \in DOMAIN owned : owned[i] = id
       IN  SubSeq(owned, 1, at - 1) \o SubSeq(owned, at + 1, Len(owned))
  ELSE owned

\* Mutant of RememberBounded: a repeated id takes a second place.
RememberBounded_Repeats(owned, id, limit) ==
  DropOldest(Append(owned, id), limit)

\* remember_bounded(owned, id, limit)
RememberBounded(owned, id, limit) ==
  DropOldest(Append(Forget(owned, id), id), limit)
=============================================================================

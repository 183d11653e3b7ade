-------------------------- MODULE CredentialLedger --------------------------
(***************************************************************************)
(* What the token endpoint promises, without tasks, locks, memory and      *)
(* files: a credential that was handed out can be exchanged for at most    *)
(* one grant. The exchange atomically spends it and makes the new grant's  *)
(* refresh token redeemable; credentials may otherwise only vanish; what   *)
(* was spent, or vanished, never comes back.                               *)
(***************************************************************************)
CONSTANTS
  Codes,        \* authorization codes
  Grants,       \* token pairs; a grant stands for its refresh token
  None

VARIABLES
  offered,      \* codes that a login has handed out
  live,         \* credentials that an exchange may still redeem
  parent,       \* parent[g]: the credential that grant g was issued for
  answered      \* grants whose tokens reached the client

vars == <<offered, live, parent, answered>>

Issued == {g \in Grants : parent[g] # None}
Spent  == {parent[g] : g \in Issued}

Init ==
  /\ offered = {} /\ live = {} /\ answered = {}
  /\ parent = [g \in Grants |-> None]

\* A login hands out a new code; older ones may be pushed out.
Offer(c) ==
  /\ c \notin offered
  /\ offered' = offered \cup {c}
  /\ live' \in {keep \cup {c} : keep \in SUBSET live}
  /\ UNCHANGED <<parent, answered>>

\* c is exchanged for g. Only a code handed out by a login or the refresh token
\* of an answered grant can be presented.
Redeem(c, g) ==
  /\ c \in live \cap (offered \cup answered)
  /\ g \in Grants \ Issued
  /\ parent' = [parent EXCEPT ![g] = c]
  /\ live' \in {keep \cup {g} : keep \in SUBSET (live \ {c})}
  /\ UNCHANGED <<offered, answered>>

Answer(g) ==
  /\ g \in Issued
  /\ answered' = answered \cup {g}
  /\ UNCHANGED <<offered, live, parent>>

\* Expiry, eviction, and codes lost with the process.
Vanish ==
  /\ live' \in SUBSET live
  /\ UNCHANGED <<offered, parent, answered>>

Next ==
  \/ \E c \in Codes : Offer(c)
  \/ \E c \in Codes \cup Grants, g \in Grants : Redeem(c, g)
  \/ \E g \in Grants : Answer(g)
  \/ Vanish

Spec == Init /\ [][Next]_vars

\* What the ledger promises: nothing that was spent can be redeemed, and no two grants
\* were issued for the same credential.
OneTime ==
  /\ live \cap Spent = {}
  /\ \A g, h \in Issued : parent[g] = parent[h] => g = h

\* Only what was handed out, or issued, is redeemable or spent.
LedgerInv ==
  /\ OneTime
  /\ offered \subseteq Codes /\ parent \in [Grants -> Codes \cup Grants \cup {None}]
  /\ live \cup Spent \subseteq offered \cup Issued
=============================================================================

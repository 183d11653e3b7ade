--------------------------- MODULE MCDurableState ---------------------------
(* Symmetry sets for model checking DurableState with model values. *)
EXTENDS DurableState, TLC

\* Identifiers of one kind are interchangeable. (Not with liveness properties.)
Symmetry == Permutations(Tasks) \cup Permutations(Codes)
              \cup Permutations(Grants) \cup Permutations(DcrClients)
              \cup Permutations(SessionIds)
=============================================================================
